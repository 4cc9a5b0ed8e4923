# AutoDefense in TLA+

AutoDefense analyses the traffic of an LLM application (input, output, tool
calls, attachments), answers each request with one of four actions, and learns
detection rules from the attacks it meets. This directory models the parts of
it where steps interleave, fail or feed back into later steps; TLC checks the
models on small instances and TLAPS proves the central theorems for every
instance.

Paths below are relative to the repository's `backend/app/` unless they start
with another top-level directory.

## 1. The system

| Component | State | Operations | Interacts with |
|---|---|---|---|
| `services/pipeline.py` DefensePipeline | none of its own; one request's locals across about ten awaits | `run` (`POST /analyze`), `scan` (`POST /scan`) | loads configuration and rules, calls the agents, records, heals, publishes |
| `agents/` sentinel, policy, behavior, artifact | none | `analyze` | signals to the coordinator; sentinel's redacted text to policy |
| `agents/coordinator.py`, `core/risk.py`, `core/response_engine.py` | none | `decide`, `aggregate_risk`, `apply` | risk and action of a request |
| `core/self_heal.py` SelfHealingEngine | none | `ingest_incident`, the mutator `_build_patches` | merges into the rules, publishes `incident.detected`, `self_heal.applied` |
| `core/rules_store.py` RulesStore | Redis `autodefense:dynamic_rules:v1`: version, two pattern lists | `load`, `merge_update` (WATCH/GET/MULTI/SET/EXEC, 16 tries) | read by every request, written by flagged ones |
| `core/config_store.py`, `api/routes/config.py` | Redis `autodefense:runtime_config:v1`: version, thresholds, self-heal switch, pattern lists | `load`, `validate`, `save`; GET, PUT | every request loads it; the dashboard's ConfigPanel edits it |
| `core/event_bus.py`, `api/routes/events.py` | Redis stream (about 5000 entries), open connections, SSE count | `publish`, `consume_latest`, `stream_events`; GET, SSE, WebSocket | everyone publishes; dashboards read |
| `agents/forensics.py` | Redis list of encrypted records, trimmed | `record` | called by `run` before healing |
| `api/routes/kernel.py`, `agents/kernel.py` | Redis `autodefense:kernel_status:v1` | `POST /scan/kernel`, `GET /kernel/status` | host scanners post; dashboard reads |
| `main.py` middleware | Redis counters per client and window, in-process fallback counters | authentication, body size, rate limit, headers | in front of every route |
| `core/crypto.py` | keys | envelopes of three versions | rules, configuration, records, kernel status |
| `frontend/src` dashboard | panel's configuration and draft, event list, connection | fetch, save, stream with back-off | GET/PUT `/config`, `/events`, WebSocket |
| `kernel/`, `macos/`, `windows/` scanners | none | one pass over host facts | post to `/scan/kernel` |

**What is hard.** The backend is asynchronous: any await of a Redis round trip
is where another request, of this or of another worker, runs. All shared state
is in Redis, reached by read-modify-write sequences (rules under WATCH, the
configuration without), by counters (INCR then EXPIRE) and by a trimmed stream
read with client-side cursors. Connections to Redis break, and a reply can be
lost after the server acted. The rules learned from one request change what
the agents see in the next. `PROJECT.json` lists every hazard at its line.

**What makes the components correct.**

- Rules: a merge is atomic; nothing learned is lost but to the cap; versions
  identify updates; every merge ends.
- Risk: more evidence never means a weaker answer; a high-impact threat is
  never simply allowed.
- Learning: learned patterns defend; they do not weaken other answers; only
  flagged traffic teaches, and the same attack teaches once.
- Configuration: what is stored is valid; versions advance; a panel shows what
  is in force.
- Host scans: a lasting condition is reported exactly, a lasting threat is
  decided upon, a grave one is not allowed, and the status an answered report
  set is not undone by an older one; the dashboard comes to show the status.
- Encryption at rest: whichever key a process came up with, nothing that is
  stored is overwritten unread or started over, and nothing written under its
  own configuration is unreadable to it.
- Streams: caps hold, places are given back, sessions are sent events in order,
  and what a dashboard does not show has a known reason.
- Rate limiter: nobody gets more than the limit of each counter, nobody is
  refused for another's requests, counters do not outlive their use.
- Pipeline: a request is decided under one configuration; its record, incident
  and decision event agree and appear in order, wherever it broke off; it is
  judged by every rule stored before it, on hosts that meet the probes' deadline;
  every request ends.

## 2. The modules

    DynamicRules ── RuleLedger            Risk ── Coordinator ── CoordinatorProofs
       │   │        ▲ refinement           │ │
       │   └── SelfHeal                    │ └── Scanners ── HostScan ── HostScanProofs
       │                                   │
       └──────────── Agents ── Learning    ├── Pipeline ── PipelineProofs
                              (Agents also extends Risk)

    SelfHeal, Learning, CoordinatorProofs ── SelfHealProofs
    CoordinatorProofs ── HostScanProofs
    ConfigStore ── ConfigStoreProofs      EventStream ── EventStreamProofs
    AtRest ── AtRestProofs                RateLimit ── RateLimitProofs

| Module | Models | Correspondence |
|---|---|---|
| `DynamicRules` | the rules' value, the mutator `_build_patches`, what a load returns | pure operators. `Patches`/`Built` are the mutator's result and side effect, `Capped` its truncation to the oldest `MaxRuleGrowth` entries; `Decoded(s, slow)` is a load that may miss the 0.5 s deadline of some pattern's regex probe |
| `RuleLedger` | what the rules promise | abstract specification: one `Merge` step per learned incident |
| `SelfHeal` | `ingest_incident` and `merge_update`, many requests | one action per round trip: `Detect`, `Watch`, `Get` (with the mutator: no await separates them), `Unwatch`, `Exec`, `Publish`; `dirty[r]` is the server's note that a watched key changed; `LinkFailsWatching` and `LinkFailsPublishing` are lost connections, with redis-py's rule that one lost under a WATCH becomes WatchError |
| `Risk` | `aggregate_risk`, the ladder, the response engine | pure operators in exact integers (hundredths and ten-thousandths): `round` is half to even, as in Python |
| `Coordinator` | one decision | `Take` a signal (the loop's body), `ChooseAction`, `Apply` |
| `Agents` | the four analysis agents | pure operators from a request's phrases, tool calls, output and artifact traits to signals |
| `Learning` | sequences of `/analyze` requests | `Run(req)`: verdict under the rules so far, then what it teaches. A merge is one step, as `SelfHeal` justifies, and hosts meet the probes' deadline. `Artifact` and `AnalyzeRequest` in `Agents` are what the agents can tell apart of a request |
| `ConfigStore` | GET and PUT `/config` and the ConfigPanel | `Fetch`, `Edit`, `Put`, `PutLoad`, `PutSave`, `PutPublish`, `PutFails`, `RedisSaves`, `RedisRestarts` |
| `Pipeline` | `run`, `scan` and `POST /scan/kernel`, many requests, with `forensics.record` | `pc[r]` is the await `r` is at; `Arrive`, `LoadConfig`, `LoadRules`, and `Continue`, which does the write of the current await (`Write`: received, push, trim, recorded, detected, merge, applied, decision, status) and goes on (`Then`); `Fails`, `Resends` and `MergeUnreported` are connection failures, `Reconfigure` a saved PUT. What the agents find is two risks, with and without the pattern the request teaches. A merge is one step: `MergeRules(r, d)` works on the list as decoded (`Decoded`, which a slow host may make shorter), `Teaches` says whether a patch is recorded, `Grown` is the list after the cap's cut |
| `EventStream` | `EventBus`, GET `/events`, SSE and WebSocket handlers, `useEventStream` | `pc[c]` is the await of connection `c`'s handler. `Publish` (XADD, trim, waking of blocked readers), `SseOpen` and `SseStart` (the two looks at `_active_sse`), `SseRefused`, `SseRelease`, `SseLeaves`, `WsOpen`, `WsBreaks`, `WsSendFails`, `Read`, `BlockExpires`, `ReadFails`, `Yield`, `Expire`; the dashboard's `FetchRead`, `FetchArrives`, `FetchFails`. `missed` is a history of the events the dashboard had no chance to show |
| `RateLimit` | `RedisRateLimitMiddleware` and `_memory_rate_limit_allow` | `Arrive` takes client and window; `Incr` and `Expire` are the two round trips; `Fails` is a failed one with the fallback of the worker's own table, pruning included; `Lands` and `Resends` are commands that run late or twice; `Tick` and `RedisRestarts` remove counters. `resent`, `orphaned` and `forgotten` are histories the properties refer to |
| `Scanners` | the checks of `kernel/scanner.py`, `macos/scanner.py`, `windows/scanner.py`; `agents/kernel.py` | pure operators. A rule `<<kind, condition, category, severity>>` is one call of `finding()`; `Pass` is the order of `scan_all`; `Signals` and `KernelAction` are the agent and the verdict |
| `HostScan` | hosts that change, their scanners' loops, `POST /scan/kernel`, `GET /kernel/status`, `KernelHealth.tsx` | `StartPass`, one `Check` after the other (`ListProcesses` and `ReadStatus` for the two halves of `check_hidden_processes`), `Post` or, where the scanner cannot sign, `PostRaises`, `Timeout`; `Refuse`, `Decide`, `SetStatus`, `Answer`, `Fails` of a request; `Poll`, `Arrive`, `PollFails` of the dashboard. `steady`, `answered`, `abandoned` and `failed` are histories the properties refer to |
| `AtRest` | `CryptoManager` as ConfigStore, RulesStore and the kernel routes use it; start-up in `main.py` | `EncryptJson`, `DecryptsJson` and `Open` are the envelopes and their readers; `Start` is a start or restart with any settings (refused by `Starts`, its key by `KeyOf`); `PutLoad`, `PutSave`, `Analyze`, `Merge`, `MergeEnds`, `Announce`, `Scan` are the requests; a merge drops what a slow host does not decode and cuts the list at the cap (`Decoded`, `Grown`); `RedisSaves`, `RedisRestarts`. `origin`, `raced` and `born` are histories |

`Learning`, `Pipeline` and `AtRest` take a merge as one step, which `SelfHeal`'s
refinement of `RuleLedger` justifies. `Pipeline` interleaves the awaits of the
kernel route with those of other requests; `HostScan` keeps of them the order
decision, status, answer, and adds the hosts.

`PROJECT.json` maps every definition to its lines. Data is abstracted to what
the properties distinguish: a pattern or a phrase is a value, `Matching` says
which finds which, and an artifact is a set of traits.

## 3. The runs

| Run | Instance | Shows |
|---|---|---|
| `self_heal` | 2 requests, 2 incidents that compete for one list and share the other, cap 2, 2 tries, 1 connection failure each | merges are atomic (refinement `RefinesLedger`), versions are announced once, announced patterns are stored unless the list is full, giving up is paid for by contention or failures, every merge ends |
| `coordinator` | lists of up to 4 of 16 signals, 4 threshold settings, one of them unordered | monotone decision, floor |
| `learning` | 17 requests over 7 phrases, cap 3, 5 updates | learned patterns are never answered with allow, repeats teach nothing, learning weakens an answer only where it hides a policy violation, only flagged traffic teaches, `/analyze` is never more lenient than `/scan` on the same artifacts, rule lists stay within the cap |
| `learning_weakens` | the same | **violated**: the policy agent reads the sentinel's redacted text, so a learned pattern can hide what a blocked pattern would have found |
| `config_store` | 2 administrators, 2 threshold triples (one invalid), 1 pattern, PUTs until version 3, 1 failure or restart | an undisturbed save advances the version, an undisturbed panel shows what is in force |
| `config_version` | the same without failures | **violated**: two PUTs that load before either saves store different contents under one version |
| `pipeline` | 2 requests out of 5 (analyses with and without something to learn, a variant that only a learned rule flags, an artifact scan, a host report), 2 patterns to learn and room for 1, hosts that meet the probes' deadline and slow ones, 2 configurations, 1 change, 1 failure | one configuration per request, trail in order, the newest records stay in order, fresh rules (both with exactly the exceptions of a full list and a slow host), every request ends |
| `event_stream` | two SSE clients for one place, or a dashboard that reconnects once, 3 events, a stream that may keep 1, batches, fetches and lists of 2 | `_active_sse` counts exactly the sessions and the places lost to a cancelled `finally`, caps hold, sessions are sent events in order and skip only trimmed ones, every gap has a reason, what has to end ends |
| `event_idle` | the same with 1 event | **violated**: a session with nothing to send outlives its timeout, since the timeout is only looked at after an event was sent |
| `rate_limit` | 3 requests of 2 clients, 2 workers, limit 2 (fallback 1), 4 windows of 1 tick, tables pruned above 1 entry, 2 failures | Redis and each worker allow no more than their limit, nobody is refused for another's requests or another window's, a counter without an expiry has lost the reply or the command that sets it |
| `host_scan` | 2 hosts in 4 set-ups (Linux that signs and Windows that does not; Linux with a wrong signing key and a Mac that would sign; a Mac given the Linux scanner and Linux with an overlong path; Windows that would sign and a Mac that does not), 2 and 1 passes, 1 change, timeout or fault, at most 2 findings accepted, 2 fetches at once | a scan is exact about what lasted, a lasting threat is decided upon unless its report could not be signed, was refused or lost, grave findings are not allowed, an answered status is not undone by an older report, the dashboard catches up |
| `at_rest` | 2 backends, 5 settings (two keys, no key locally, encryption off, one that must not start), 3 contents of an older Redis (empty; unencrypted, with one rule, where hosts may be slow; v1 and v2), 2 patterns and room for 1, 2 starts, versions to 3, 1 restart of Redis | saves build on what is stored (on slow hosts without the rules left out), what cannot be opened is kept, a process reads what its own configuration wrote, announced rules stay unless the list is full or a host slow |

**Bounds.** Two requests suffice for every conflict of a WATCH loop: a third
only adds more writes between a read and its EXEC, which `dirty` does not
distinguish; the cap of 2 is reached by two incidents, and 2 tries make giving
up reachable with one conflict and one failure. Four signals combine every
floor with every bump. In `learning` the cap and the version bound let every
reachable rule list be reached (the state space does not grow with a larger
version bound except in the counter). In `pipeline` one change of the
configuration is enough to fall between any two awaits, and the resent command
makes three records of two requests, so the trim to two cuts one. Version 3
lets two PUTs overlap, repeat and meet a restart. `CHECK_DEADLOCK FALSE` stands
where a run ends by nature: a decision that was applied (`coordinator`), the
version bound (`learning`). `SYMMETRY` permutes administrators, in `rate_limit`
requests, clients and workers, in `at_rest` backends, which the modules only
compare; these runs have invariants and properties of single steps, no
liveness. In `event_stream` `Openings` keeps the two kinds of
connection apart, because they share nothing but the stream: two SSE clients
are what the two looks need, and one reconnection is what a gap between two
connections needs; three events fill the list of two and let the stream trim
past a cursor. In `rate_limit` three requests exceed either limit, and a limit
of 2 keeps the first count apart from the refused one; four windows let a table
hold an entry old enough to be pruned. In `host_scan` one mishap is what each
property excepts (a change during the pass, a timeout, a lost report), and two
passes of one host are what an older report needs; a report of three findings
and an overlong one meet the payload's bounds, which are 500 findings and 300
characters in the code. In `at_rest` two starts are two backends at once, of
equal or different settings, or one that comes back with other settings, over
what an earlier release left; two merges and two PUTs fit below the version
bound. A list of one is full with its first rule, so a merge into a full list
and a merge after a slow load both occur; that a slow host may also drop an
announced rule from a list that is not full takes two places, and is left to
the proof. Connections and requests are used once
and time is bounded, so these runs end too. The proofs do not depend on any of
these bounds.

**Fairness.** Only `Terminates`, `Answers`, `SessionsEnd`,
`DashboardCatchesUp` and the violated `IdleTimesOut` need it: `WF_vars(Step(r))` for every request, and in
`EventStream` `SseStep` (a handler past its lock or about to refuse), `Serve`
(a session's next read or frame) and `WsSendFails` (a send to a client that is
gone). Publishing, the passing of a timeout, clients that leave and failures
are never forced. The lock is an `asyncio.Lock`, which serves its waiters in
order and is held over an await only by a refusing generator, so each of its
waiters gets it. Weak fairness of `Serve` includes `Yield`: a frame is
taken from a session that is still connected, that is, its client goes on
reading (or TCP breaks the connection, and the client has left). A client that
holds its connection open without ever reading would block the handler in its
send for ever, before the timeout is looked at; `SessionsEnd` does not speak of
such clients. The event loop resumes each task whose reply came, and the
Redis client's `socket_timeout = 5` (`core/redis_client.py`) turns a missing
reply into an error, so a request never waits for ever at an await. Connection
failures are not forced to happen. The argument for `Terminates` is the retry
limit: each pass either commits, gives up, or counts a try. That argument is
what lets `Pipeline` take the merge as one step. Failures are never part of
`Step`. In `HostScan` the scanners' loops and the requests go on, and
`KernelHealth`'s timer starts a fetch whose answer comes or fails; nothing makes
a host change, a scanner give up or a fault happen.

**What the Redis client does.** A lost connection makes a command raise, whether
or not the server ran it (`Fails`, `PutFails`); depending on its version and
settings the client may also send the command again by itself, so that it runs
twice (`Resends`); under a WATCH it raises WatchError, which `merge_update`
retries (`SelfHeal`). `Pipeline` collects events in a set: a repeated event is
the same event. In `RateLimit` a command of a request that gave up is `adrift`
until it runs, or for ever.

**Streams.** In `events_ws` nothing suspends between the check of `_active_ws`
and the connection's entry into it (accepting only queues a message in the
server), so `WsOpen` is one step; in `stream_events` each look at `_active_sse`
takes the lock. A frame of a read whose reply is lost differs in nothing from
one read later.

**Clocks and timeouts.** `RateLimit` has one clock: workers and Redis are taken
to agree. `Patience` bounds how long after its window a request may still wait
for Redis: connecting and each round trip end after 5 s, the window is 60 s, and
the assumption of the proofs is only that it stays below two windows (the span
that pruning spares). A request that waited longer than the 5 s of grace may
meet a counter that has expired; such counters, and those Redis lost in a
restart, are in `forgotten`, which `LimitHolds` excepts. That a snapshot restores
an older count instead of none is left out.

**Mutants.** Every property of a passing run is broken by a plausible bug in
the code it is about; the mutated operators stand before the definitions they
replace and are marked "Mutant of".

## 4. The proofs

TLAPS checks, for every value of the constants and with no assumption but the
named ones in the modules:

- `SelfHealProofs`: first what the mutator does to any rules: `BuiltType` (the
  cap holds), `BuiltExtends` (lists are extended at the end),
  `PatchStoredOrFull`, by cases on which list grows, from lemmas on `AppendNew`
  and `Capped`. Then `TypeCorrect`; `MergeIsAtomic`, whose invariant says that an
  unspoiled watcher's computed value is the merge into the value stored now (it
  is inductive with the types: a commit either spoils every other watcher or
  happens by one that was not spoiled); `ImplementsLedger`, each committing step
  maps to `Merge` by that invariant and every other step stutters;
  `GivingUpIsPaidFor`, strengthened by: a spoiled watcher's current attempt is
  paid for by a version stored since its WATCH; `VersionsAnnouncedOnce`,
  strengthened to the versions committed but not yet announced, `RulesAreKept` and
  `OnlyTheCapDrops` (the last two on hosts that meet the probe deadline; on
  others loads drop rules, which `RefinesLedger` allows explicitly).
  Its second part is about `Learning`: see below.
- `CoordinatorProofs`: `DecisionTypeCorrect`, `MoreEvidenceIsStricter`,
  `FloorHolds`. The base is the monotonicity of
  contribution, bump, rounding and clamping; the state's sums only grow with
  `Weigh`. It also has what is needed of a whole list: `GatheredIsWeighed` (the
  recursive function of `Risk` does weigh a list signal by signal),
  `GatheredConcat` (the evidence of a concatenation is that of its parts
  together, so the agents' order matters only to `explain`), `SignalCounts` (a
  list's evidence is at least that of any of its signals), `RiskAtLeast` and, from
  them, `RiskOfLists`: the risk is a percentage, does not depend on which agent's
  signals come first, and no added signal lowers it.
  The library's induction theorems cannot be used, because they take an operator
  as a parameter, but well-foundedness of the order on the numbers takes a set:
  `InductiveSet` and `InductionUpTo` are induction over the set of those numbers
  for which a statement holds, and `RecursionSolved` gets from there that a
  function defined by recursion on the length of a list satisfies its equation.
- The learning loop, in `SelfHealProofs`. Typing (`LoopTypeCorrect`) goes down to each row
  of the agents' tables: their results are lists of signals, whatever the
  artifacts, calls and outputs. By `GatheredConcat` a request's evidence is that
  of its four agents together (`SignalsGathered`), and the sentinel's that of
  its four threats.
  - `LearnedRulesDefend`: a learned pattern that finds the text makes one of the
    sentinel's counts positive (`HitsType`), its signal has the floor, and the
    floor survives being put together with the rest (`AllFourType`).
  - `AnalyzeIsNoMilder`: the artifacts' evidence is part of the whole.
  - `OnlyFlaggedTeaches`: what a merge adds was suggested (`BuiltLearned`), and a
    suggestion finds the text it was made for (`SuggestedFinds`).
  - `RepeatsTeachNothing`: the inductive invariant `TaughtOnce` says that the last
    request's incident, raised by the rules it left behind, has no patch left.
    The step is `NothingLeft`: new rules can name new threats (`ThreatsAdded`),
    but a new injection would need a suggestion that no base pattern covers,
    which `SuggestionsAreKnown` excludes, and a new exfiltration a pattern the
    request did not teach.
  - `LearningOnlyHides`: with `OnlySuggestions` (nothing but suggestions is ever
    learned), a policy violation that nothing suggested can hide is found under
    any rules (`PolicyUnhidden`), extended lists hit at least as often
    (`HitsGrow`), more hits weigh at least as much (`MatchesWeigh`), and the four
    agents together are monotone in each (`AllFourMonotone`).
- `ConfigStoreProofs`: `TypeCorrect`, `StoredStaysValid`, `SaveAdvances`,
  `PanelShowsInForce`, from one invariant: a PUT in progress carries validated
  content, its loaded version is in force unless the PUT is stale, and after
  its save its configuration is in force unless something else happened.
- `PipelineProofs`: every safety property of `Pipeline`: `TypeCorrect`,
  `DecidedByOneConfiguration`, `LeftInOrder`, `AnswersAreOnRecord`,
  `JudgedByFreshRules` and `NewestAreKept`. The strengthening ties a request's
  place in the code to what it holds (`Local`) and to what it has left (`Trail`),
  and its events to its decision (`Explained`). A write is summed up once by what
  it may add (`Adds`) and, when it succeeds, what it leaves (`Leaves`); a failed,
  resent or unreported one adds no more than that. `NewestAreKept` compares the
  kept records with all that were ever pushed, element by element.
- `EventStreamProofs`: every safety property of `EventStream`: `TypeCorrect`,
  `PlacesCounted`, `CapsRespected`, `OrderHolds`, `ShownHolds`, `GapsHold`.
  `CapsHold` needs that the count is exact. Order is strengthened by what a
  session holds: batches are consecutive, behind what was sent and within the
  stream, except where it was trimmed. The dashboard's two properties are proved
  together, from the same facts about its own connection.
- `RateLimitProofs`: `TypeCorrect`, `LimitRespected`, `OwnTrafficOnly`,
  `CountersLeave`. For the limit: the requests Redis allowed, and those still
  about to set the expiry, are no more than the counter shows, until the counter
  may be gone, and a request that counts itself then makes its key `forgotten`; the
  same for each worker's table, whose pruning only takes
  windows nobody waits in. For the refusals: a counter shows no more than the
  requests of its own client and window, and the repeated commands. These are
  counts of sets of requests, so each step comes down to one member more.
- `HostScanProofs`: `EveryRuleIsChecked`, that each pass comes to every kind its
  scanner has a rule for; `TypeCorrect`; `SteadyHolds`, from what a pass that
  rests or reads `/proc` has and has not looked at (`Resting`, `Reading`);
  `StatusHolds` and `ThreatsAreDecided`, from what is known of reports under way:
  there is one request for a pass at most (`Unique`), it holds what the pass found,
  past its decision it is on record, and past its status nothing older is shown
  (`Outstanding`); and a pass that is over has its request still under way, or was
  refused, failed, decided upon or could not be signed (`Accounted`). `GraveIsEscalated`: the set of a
  report's findings is finite (finitely many subjects, categories and severities),
  so it has a list; a grave finding's signal is in that list, its floor and its own
  score take the risk past `monitor_max`, whatever order the list has.
- `AtRestProofs`: `TypeCorrect`; `KeyKeepsDataHolds`, since every value under a
  name has a format its writer's configuration opens (`Stored`) and keys follow
  settings (`Keyed`); `UnreadableStays` and `SavesBuildHolds`, since what an
  undisturbed PUT loaded is still what is stored (`PutIsCurrent`); and
  `AnnouncedStays`, strengthened to rules saved but not yet announced.

Some of these theorems state properties no run repeats (`MergeIsAtomic`,
`RulesAreKept`, `StoredStaysValid`, `AnswersAreOnRecord`,
`ShownHolds`, `RiskOfLists`, and the type invariants of some modules): the proof covers every
instance.

**What the theorems assume.** The constants' assumptions in the modules: sizes
and bounds are numbers, sets of patterns are sets of patterns, what is counted
(requests, connections, base patterns, a host's subjects) is finite. Three go
further. The rate limiter's patience is below two windows (see *Clocks and
timeouts*). `SuggestionsAreKnown` (used by
`RepeatsTeachNothing` only) says that what a pattern of
`_suggest_injection_regex` matches, a pattern of `BASE_INJECTION_REGEXES` matches
too: each of the eight (`core/self_heal.py:122-129`) is one of the base patterns
(`agents/sentinel.py:17-25`) with alternatives left out. `GraveIsEscalated` is stated for
the default thresholds, as the property is; the verdict of `Learning` is under
them too. `RepeatTeachesNothing` excepts a request with text that
normalisation hides from the sentinel: `plain` may then hold a phrase `input` does
not, and such a request can be named an injection only once its own rule was
learned, and teach a second pattern when it comes again.

**What the properties leave open.** That versions tell `self_heal.applied` events
apart is checked, not the order in which they are published, which the code does
not fix. `PanelIsCurrent` excepts a panel whose configuration changed behind its
back, by another administrator or a Redis restart: the code never refreshes it.
`SteadyIsExact` speaks of subjects that stay as they are; a process that ends
between the two halves of `check_hidden_processes` is reported as hidden, which
the code cannot tell. With two failures the run of `RateLimit` cannot show that
the fallback's pruning cuts where it must; `LimitRespected` proves it for any
number.

**Only model-checked.** `Terminates`, `Answers`, `SessionsEnd` and
`DashboardCatchesUp`: liveness under fairness is beyond the prover. Every other
property of a passing run is also a theorem.

## 5. What the models show of the code

Beside the three violated runs (the findings of `PROJECT.json`):

- The macOS and the Windows scanner cannot sign: `_compute_hmac`
  (`macos/scanner.py:466-468`, `windows/scanner.py:563-565`) names `hashlib`, which
  only `kernel/scanner.py` imports. With a signing key, without which the backend
  refuses reports outside `local`, `post_results` raises NameError on every pass,
  the loop prints it and goes on, and nothing the host shows is ever decided upon.
  `docs/security.md:126` says "Host scanners (Linux, macOS, Windows) sign their POST
  payloads with HMAC-SHA256". `PostRaises` is that pass, and
  `LastingThreatIsDecided` excepts it (`CannotSign`); without the exception the run
  `host_scan` violates it.
- A lone finding of the network category is answered with allow even when it is
  critical (two hosts behind one MAC address): `anomaly` weighs little and has
  no floor. `GraveFindingsEscalate` excepts it.
- The expected minimum of the sysrq setting is 0, so no value is ever reported.
- One enabled profile makes the Windows firewall count as passed in the
  hardening score, though each disabled one is a finding.
- Locally, without `AUTODEFENSE_DATA_KEY_B64`, each start makes up a key: after a
  restart of the backend alone, the configuration and the rules it had stored
  cannot be opened (`KeyKeepsData` excepts exactly this), GET and PUT `/config`
  answer 503 and analyses 500, until someone deletes the keys in Redis: no route
  resets them. `docs/security.md:115` says "data lost on restart",
  `docs/deployment.md:180` that rotated-out data becomes unreadable; that the
  backend then refuses most requests is what neither says.
- `AUTODEFENSE_SCANNER_HMAC_KEY=""`, which `docker-compose.yml:37` passes on when
  nothing is set (`scripts/start.sh` fills it in), stops the start-up in every environment (`Starts`).
- `KernelHealth` shows "No scan received yet" also for a status that is
  unavailable because it could not be opened.
- A report that exceeds the payload's bounds is refused as a whole, on every pass;
  the scanner prints the error and the dashboard keeps the last accepted status.
- At the rule cap `self_heal.applied` announces patterns that the truncation has
  dropped (`AppliedStoredOrFull` says: only then).
- A lone low-weight threat is lifted to 60 by the floor, which the default
  thresholds only log, where the comment at `core/risk.py:70` says it exceeds
  the monitor band.

## 6. Not modelled

Stateless request checks (authentication, body size, headers), the sealed
transport, text normalisation, logging, metrics and alerts, scripts and
simulations are left out: they keep no state and nothing interleaves in them, and
what is hard about them is string processing or operating-system I/O. The
regular expressions, file parsers and command outputs are abstracted to what
they find. Redis restarts are in `ConfigStore`, `RateLimit` and `AtRest`, not in
`SelfHeal`, `Pipeline` and `EventStream`; forensic records are never read back, so
their envelopes are not in `AtRest`.

Statements of the documentation still to be compared with the code:
`docs/api.md:162` (GET `/events` answers up to 1000 events; the route asks for
200), `docs/deployment.md:189` (1,000 forensic records are kept; LTRIM keeps
1,001), `docs/security.md:169` (the fallback's table is bounded; pruning spares
the current and the last two windows, however many clients they have).
