------------------------------- MODULE Pipeline -------------------------------
(***************************************************************************)
(* Requests in flight: DefensePipeline.run and scan                        *)
(* (backend/app/services/pipeline.py), ForensicsAgent.record               *)
(* (backend/app/agents/forensics.py) and POST /scan/kernel                 *)
(* (backend/app/api/routes/kernel.py), any number of them at once, while   *)
(* administrators change the configuration and the connection to Redis may *)
(* fail.  One action per Redis round trip.  What the agents find is a      *)
(* risk, with and without the pattern the request's text could teach.      *)
(*                                                                         *)
(* A merge of the rules is the one step SelfHeal shows it to be.  The      *)
(* rules are those of one of the two lists, which grow and are cut each by *)
(* itself; reading them, a slow host may drop some (DynamicRules).         *)
(***************************************************************************)
EXTENDS Risk, FiniteSets

CONSTANTS
    Requests,
    Inputs,         \* what may be asked
    Configs,        \* configurations an administrator may save
    Pattern,        \* what self-healing can append to the list
    NoPattern,
    NoRequest,
    SelfHealing,    \* settings.self_heal_enabled of the processes
    MaxRuleGrowth,  \* settings.self_heal_max_rule_growth
    KeepLast,       \* ltrim(KEY, 0, 1000)
    MaxChanges,     \* bound: changes of the configuration
    MaxFaults       \* bound: connection failures

Input == [kind : {"analyze", "scan", "kernel"},
          pattern : Pattern \union {NoPattern},
          risk : 0..100,            \* while the pattern is not among the rules
          learnedRisk : 0..100]     \* once it is

Config == [limits : Thresholds, healing : BOOLEAN]

ASSUME PipelineAssumption ==
    /\ Inputs \subseteq Input
    /\ Configs \subseteq Config
    /\ NoPattern \notin Pattern
    /\ NoRequest \notin Requests
    /\ SelfHealing \in BOOLEAN
    /\ MaxRuleGrowth \in Nat
    /\ KeepLast \in Nat
    /\ MaxChanges \in Nat
    /\ MaxFaults \in Nat

VARIABLES
    config,         \* the configuration in force
    rules,          \* the patterns stored
    slow,           \* whether the hosts may miss a regex probe's deadline
    records,        \* autodefense:forensics:events, newest first
    events,         \* the event stream, without its order
    status,         \* whose scan autodefense:kernel_status:v1 holds
    input,          \* input[r]: what r asks
    pc,             \* pc[r]: the await r is at
    cfg,            \* cfg[r]: the configuration r loaded
    known,          \* known[r]: the rules r loaded
    action,         \* action[r]: r's decision, "none" before it
    changes,        \* changes of the configuration so far
    faults,         \* failures so far
    seen,           \* seen[r]: configurations in force during r (history)
    before,         \* before[r]: rules when r arrived (history)
    pushed          \* every record ever made, newest first (history)

stores == <<config, rules, records, events, status, pushed>>
locals == <<cfg, known, action>>
vars == <<stores, locals, slow, input, pc, changes, faults, seen, before>>

Active(r) == pc[r] \notin {"idle", "done", "failed"}
Ended(r) == pc[r] \in {"done", "failed"}
IsAnalyze(r) == input[r].kind = "analyze"

\* The risk of r under the rules it loaded.
Score(r, patterns) ==
    IF input[r].pattern \in patterns THEN input[r].learnedRisk ELSE input[r].risk

Flagged(r) == action[r] \in {"sanitize", "block_isolate"}

\* run calls ingest_incident, and that does not return at once.
Heals(r) == Flagged(r) /\ cfg[r].healing /\ SelfHealing

(***************************************************************************)
(* What the stored rules can decode to: each pattern is probed, and one    *)
(* whose probe misses 0.5 s is left out.                                   *)
(***************************************************************************)
Decoded == IF slow THEN SUBSET rules ELSE {rules}

\* The list a merge looks at has self_heal_max_rule_growth entries.
IsFull(list) == Cardinality(list) >= MaxRuleGrowth

Event(type, r, a) == [type |-> type, request |-> r, action |-> a]

Init ==
    /\ config \in Configs
    /\ rules = {} /\ slow \in BOOLEAN
    /\ records = <<>>
    /\ events = {}
    /\ status = NoRequest
    /\ input \in [Requests -> Inputs]
    /\ pc = [r \in Requests |-> "idle"]
    /\ cfg = [r \in Requests |-> config]
    /\ known = [r \in Requests |-> {}]
    /\ action = [r \in Requests |-> "none"]
    /\ changes = 0
    /\ faults = 0
    /\ seen = [r \in Requests |-> {}]
    /\ before = [r \in Requests |-> {}]
    /\ pushed = <<>>

Goto(r, place) == pc' = [pc EXCEPT ![r] = place]

-------------------------------------------------------------------------------
\* The HTTP request comes in.
Arrive(r) ==
    /\ pc[r] = "idle"
    /\ seen' = [seen EXCEPT ![r] = {config}]
    /\ before' = [before EXCEPT ![r] = rules]
    /\ Goto(r, "config")
    /\ UNCHANGED <<stores, locals, slow, input, changes, faults>>

\* cfg = await cfg_store.load()
LoadConfig(r) ==
    /\ pc[r] = "config"
    /\ cfg' = [cfg EXCEPT ![r] = config]
    /\ Goto(r, "received")
    /\ UNCHANGED <<stores, known, action, slow, input, changes, faults, seen, before>>

\* Mutant of LoadRules: the rules of the process's start are good enough.
LoadRulesOnce(r) ==
    /\ pc[r] = "rules"
    /\ known' = [known EXCEPT ![r] = {}]
    /\ action' = [action EXCEPT ![r] = ActionFor(Score(r, {}), cfg[r].limits)]
    /\ Goto(r, "push")
    /\ UNCHANGED <<stores, cfg, slow, input, changes, faults, seen, before>>

\* The rules are loaded and decoded; agents and coordinator work on what r
\* holds.
LoadRules(r) ==
    /\ pc[r] = "rules"
    /\ \E d \in Decoded :
          /\ known' = [known EXCEPT ![r] = d]
          /\ action' = [action EXCEPT ![r] =
                           ActionFor(Score(r, d), cfg[r].limits)]
    /\ Goto(r, "push")
    /\ UNCHANGED <<stores, cfg, slow, input, changes, faults, seen, before>>

-------------------------------------------------------------------------------
(***************************************************************************)
(* The writes: what each round trip does to Redis, whether or not its      *)
(* reply arrives.                                                          *)
(***************************************************************************)
Publish(event) ==
    /\ events' = events \union {event}
    /\ UNCHANGED <<config, rules, records, status, pushed>>

\* request.received, scan.received or kernel.scan_received
PublishReceived(r) ==
    pc[r] = "received" /\ Publish(Event("received", r, "none"))

\* lpush of the record
PushRecord(r) ==
    /\ pc[r] = "push"
    /\ records' = <<r>> \o records
    /\ pushed' = <<r>> \o pushed
    /\ UNCHANGED <<config, rules, events, status>>

\* Mutant of Trimmed: the other end is cut, as if the list grew at its tail.
TrimmedAtHead(list) ==
    IF Len(list) <= KeepLast + 1 THEN list
    ELSE SubSeq(list, Len(list) - KeepLast, Len(list))

\* ltrim(KEY, 0, KeepLast): both ends are inclusive.
Trimmed(list) ==
    IF Len(list) <= KeepLast + 1 THEN list ELSE SubSeq(list, 1, KeepLast + 1)

TrimRecords(r) ==
    /\ pc[r] = "trim"
    /\ records' = Trimmed(records)
    /\ UNCHANGED <<config, rules, events, status, pushed>>

\* forensics.recorded
PublishRecorded(r) ==
    pc[r] = "recorded" /\ Publish(Event("recorded", r, "none"))

\* incident.detected
PublishDetected(r) ==
    pc[r] = "detected" /\ Publish(Event("detected", r, "none"))

\* The pattern is not in the list as decoded: a patch is recorded.
Teaches(r, d) == input[r].pattern \in Pattern \ d

\* _build_patches appends it, and cuts the list back to its oldest entries.
Grown(r, d) == IF IsFull(d) THEN d ELSE d \union {input[r].pattern}

\* merge_update, of the list decoded as d: what d lacks is not stored again.
MergeRules(r, d) ==
    /\ pc[r] = "merge"
    /\ rules' = IF Teaches(r, d) THEN Grown(r, d) ELSE rules
    /\ UNCHANGED <<config, records, events, status, pushed>>

\* self_heal.applied
PublishApplied(r) ==
    pc[r] = "applied" /\ Publish(Event("applied", r, "none"))

\* Mutant of PublishDecision: the thresholds in force now are enforced.
PublishDecisionReloaded(r) ==
    pc[r] = "decision"
      /\ Publish(Event("decision", r,
                       Enforced(action[r], Score(r, known[r]), config.limits)))

\* decision.*, scan.decision.* or kernel.decision.*
PublishDecision(r) ==
    pc[r] = "decision"
      /\ Publish(Event("decision", r,
                       Enforced(action[r], Score(r, known[r]), cfg[r].limits)))

\* The kernel status, one key for all hosts.
SetStatus(r) ==
    /\ pc[r] = "status"
    /\ status' = r
    /\ UNCHANGED <<config, rules, records, events, pushed>>

\* r's write, of the rules as d if it is a merge.
Write(r, d) ==
    \/ PublishReceived(r)
    \/ PushRecord(r)
    \/ TrimRecords(r)
    \/ PublishRecorded(r)
    \/ PublishDetected(r)
    \/ MergeRules(r, d)
    \/ PublishApplied(r)
    \/ PublishDecision(r)
    \/ SetStatus(r)

-------------------------------------------------------------------------------
\* Mutant of Then: self-healing comes before the record.
ThenHealsFirst(r, d) ==
    CASE pc[r] = "received" -> IF IsAnalyze(r) THEN "rules" ELSE "decision"
      [] pc[r] = "push"     -> "trim"
      [] pc[r] = "trim"     ->
            IF Heals(r) THEN "detected" ELSE "recorded"
      [] pc[r] = "recorded" -> "decision"
      [] pc[r] = "detected" -> "merge"
      [] pc[r] = "merge"    -> IF Teaches(r, d) THEN "applied" ELSE "recorded"
      [] pc[r] = "applied"  -> "recorded"
      [] pc[r] = "decision" -> IF input[r].kind = "kernel" THEN "status" ELSE "done"
      [] pc[r] = "status"   -> "done"

\* Mutant of Then: a merge with nothing to save tries again.
ThenMergesAgain(r, d) ==
    CASE pc[r] = "received" -> IF IsAnalyze(r) THEN "rules" ELSE "decision"
      [] pc[r] = "push"     -> "trim"
      [] pc[r] = "trim"     -> "recorded"
      [] pc[r] = "recorded" ->
            IF Heals(r) THEN "detected" ELSE "decision"
      [] pc[r] = "detected" -> "merge"
      [] pc[r] = "merge"    -> IF Teaches(r, d) THEN "applied" ELSE "merge"
      [] pc[r] = "applied"  -> "decision"
      [] pc[r] = "decision" -> IF input[r].kind = "kernel" THEN "status" ELSE "done"
      [] pc[r] = "status"   -> "done"

\* The await after r's write.
Then(r, d) ==
    CASE pc[r] = "received" -> IF IsAnalyze(r) THEN "rules" ELSE "decision"
      [] pc[r] = "push"     -> "trim"
      [] pc[r] = "trim"     -> "recorded"
      [] pc[r] = "recorded" ->
            IF Heals(r) THEN "detected" ELSE "decision"
      [] pc[r] = "detected" -> "merge"
      [] pc[r] = "merge"    -> IF Teaches(r, d) THEN "applied" ELSE "decision"
      [] pc[r] = "applied"  -> "decision"
      [] pc[r] = "decision" -> IF input[r].kind = "kernel" THEN "status" ELSE "done"
      [] pc[r] = "status"   -> "done"

\* scan and scan_kernel decide from risk and thresholds at once.
Continue(r) ==
    /\ \E d \in Decoded : Write(r, d) /\ Goto(r, Then(r, d))
    /\ action' = IF pc[r] = "received" /\ ~IsAnalyze(r)
                 THEN [action EXCEPT ![r] = ActionFor(input[r].risk, cfg[r].limits)]
                 ELSE action
    /\ UNCHANGED <<cfg, known, slow, input, changes, faults, seen, before>>

Fault ==
    /\ faults < MaxFaults
    /\ faults' = faults + 1

(***************************************************************************)
(* The connection fails at r's await: the exception ends the request with  *)
(* a 500 and undoes nothing.  The write may have been done.                *)
(***************************************************************************)
Fails(r) ==
    /\ Active(r)
    /\ Fault
    /\ (\E d \in Decoded : Write(r, d)) \/ UNCHANGED stores
    /\ Goto(r, "failed")
    /\ UNCHANGED <<locals, slow, input, changes, seen, before>>

(***************************************************************************)
(* The reply is lost and the client library sends the command again.       *)
(***************************************************************************)
Resends(r) ==
    /\ pc[r] # "merge"
    /\ Fault
    /\ \E d \in Decoded : Write(r, d)
    /\ UNCHANGED <<locals, slow, input, pc, changes, seen, before>>

(***************************************************************************)
(* merge_update comes back without patches though there was a pattern to   *)
(* learn: it ran out of tries, or the reply to its EXEC was lost and the   *)
(* next try found nothing new.                                             *)
(***************************************************************************)
MergeUnreported(r) ==
    /\ pc[r] = "merge"
    /\ Fault
    /\ \E d \in Decoded :
          Teaches(r, d) /\ (MergeRules(r, d) \/ UNCHANGED stores)
    /\ Goto(r, "decision")
    /\ UNCHANGED <<locals, slow, input, changes, seen, before>>

\* An administrator's PUT /config is saved.
Reconfigure ==
    /\ changes < MaxChanges
    /\ changes' = changes + 1
    /\ config' \in Configs \ {config}
    /\ seen' = [r \in Requests |->
                   IF Active(r) THEN seen[r] \union {config'} ELSE seen[r]]
    /\ UNCHANGED <<rules, records, events, status, pushed, locals, slow, input, pc,
                   faults, before>>

\* Every request was answered; the system waits for traffic.
Quiet ==
    /\ \A r \in Requests : Ended(r)
    /\ UNCHANGED vars

Step(r) == LoadConfig(r) \/ LoadRules(r) \/ Continue(r)

Next ==
    \/ \E r \in Requests :
          Arrive(r) \/ Step(r) \/ Fails(r) \/ Resends(r) \/ MergeUnreported(r)
    \/ Reconfigure
    \/ Quiet

Spec == Init /\ [][Next]_vars

\* As in SelfHeal: replies come or are given up on after socket_timeout.
FairSpec == Spec /\ \A r \in Requests : WF_vars(Step(r))

-------------------------------------------------------------------------------
\* Type invariant.
TypeOK ==
    /\ config \in Configs
    /\ rules \subseteq Pattern /\ slow \in BOOLEAN
    /\ records \in Seq(Requests)
    /\ events \subseteq [type : {"received", "recorded", "detected", "applied",
                                 "decision"},
                         request : Requests, action : Action \union {"none"}]
    /\ status \in Requests \union {NoRequest}
    /\ input \in [Requests -> Inputs]
    /\ pc \in [Requests -> {"idle", "config", "received", "rules", "push",
                            "trim", "recorded", "detected", "merge", "applied",
                            "decision", "status", "done", "failed"}]
    /\ cfg \in [Requests -> Configs]
    /\ known \in [Requests -> SUBSET Pattern]
    /\ action \in [Requests -> Action \union {"none"}]
    /\ changes \in 0..MaxChanges
    /\ faults \in 0..MaxFaults
    /\ seen \in [Requests -> SUBSET Configs]
    /\ before \in [Requests -> SUBSET Pattern]
    /\ pushed \in Seq(Requests)

Left(r, type) == \E e \in events : e.request = r /\ e.type = type

(***************************************************************************)
(* A request is decided by one configuration, one that was in force while  *)
(* it was handled: its record, its incident and its decision event agree,  *)
(* however often the configuration is changed meanwhile.                   *)
(***************************************************************************)
OneConfiguration ==
    \A r \in Requests : action[r] # "none" =>
        \E c \in seen[r] :
            /\ action[r] = ActionFor(Score(r, known[r]), c.limits)
            /\ Left(r, "detected") => c.healing /\ SelfHealing
            /\ \A e \in events :
                  e.request = r /\ e.type = "decision" => e.action = action[r]

(***************************************************************************)
(* Whatever a request that broke off leaves behind is explained by what it *)
(* left before: no decision, incident, rule or status without the record   *)
(* (events and record) it follows from.  A pattern that was announced is   *)
(* stored, unless the list is full, whose newest entry is cut after the    *)
(* patch was recorded, or a slow host left it out of a later merge.        *)
(***************************************************************************)
TrailInOrder ==
    /\ \A r \in Requests :
          /\ Left(r, "decision") =>
                Left(r, "received") /\ (IsAnalyze(r) => Left(r, "recorded"))
          /\ Left(r, "recorded") => r \in Range(pushed)
          /\ Left(r, "detected") => Left(r, "recorded") /\ Flagged(r)
          /\ Left(r, "applied") =>
                /\ Left(r, "detected")
                /\ input[r].pattern \in rules \/ IsFull(rules) \/ slow
          /\ status = r => Left(r, "decision")
    /\ \A p \in rules : \E r \in Requests :
          input[r].pattern = p /\ Left(r, "detected")

(***************************************************************************)
(* A request that was answered is on record: its forensic record was made, *)
(* its events were published and, if it was flagged with self-healing on,  *)
(* its incident was reported.                                              *)
(***************************************************************************)
AnsweredLeavesTrail ==
    \A r \in Requests : pc[r] = "done" =>
        /\ Left(r, "received") /\ Left(r, "decision")
        /\ IsAnalyze(r) => r \in Range(pushed) /\ Left(r, "recorded")
        /\ IsAnalyze(r) /\ Heals(r) => Left(r, "detected")

(***************************************************************************)
(* Overlapping pushes and trims never cut one of the KeepLast + 1 newest   *)
(* records, and leave them in order.                                       *)
(***************************************************************************)
RecordsAreNewest ==
    /\ IsPrefix(records, pushed)
    /\ Len(records) >= KeepLast + 1 \/ records = pushed

(***************************************************************************)
(* docs/architecture.md:96: the rules are loaded "on every request,        *)
(* immediately defending": a request is judged by every pattern stored     *)
(* before it arrived, on hosts that meet the deadline of the probes.  On   *)
(* any host it is judged by nothing but what an incident taught.           *)
(***************************************************************************)
RulesAreFresh ==
    \A r \in Requests : IsAnalyze(r) /\ action[r] # "none" =>
        /\ slow \/ before[r] \subseteq known[r]
        /\ \A p \in known[r] : \E q \in Requests :
              input[q].pattern = p /\ Left(q, "detected")

(* Every request is answered or fails.                                     *)
Answers == \A r \in Requests : pc[r] = "config" ~> Ended(r)
===============================================================================
