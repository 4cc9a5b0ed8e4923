------------------------------ MODULE ConfigStore ------------------------------
(***************************************************************************)
(* The runtime configuration: ConfigStore                                  *)
(* (backend/app/core/config_store.py) behind GET and PUT /config           *)
(* (backend/app/api/routes/config.py), edited by administrators in the     *)
(* dashboard's ConfigPanel (frontend/src/components/ConfigPanel.tsx) or by *)
(* API clients.  One action per Redis round trip; Redis keeps no log       *)
(* (docker-compose.yml: --appendonly no), at most periodic snapshots.      *)
(***************************************************************************)
EXTENDS Integers

CONSTANTS
    Admins,         \* open panels and API clients
    Limits,         \* threshold triples [allow, monitor, sanitize]
    Patterns,       \* regexes an administrator may list
    DefaultContent, \* settings and baseline policy
    NoConfig,       \* the key is missing
    MaxVersion,     \* bound: no PUT arrives once this version is in force
    MaxFaults       \* bound: connection failures and restarts

Content == [limits : Limits, patterns : SUBSET Patterns]
Config == [version : Int, content : Content]

ASSUME ConfigAssumption ==
    /\ Limits \subseteq [allow : Int, monitor : Int, sanitize : Int]
    /\ DefaultContent \in Content
    /\ NoConfig \notin Config
    /\ MaxVersion \in Nat
    /\ MaxFaults \in Nat

VARIABLES
    stored,         \* the value under autodefense:runtime_config:v1
    snapshot,       \* its value in Redis's last snapshot
    slow,           \* whether the host may miss a regex probe's deadline
    pc,             \* pc[a]: what administrator a is doing
    shown,          \* shown[a]: cfg, the configuration a's panel last got
    draft,          \* draft[a]: what a has made of it
    incoming,       \* incoming[a]: the configuration inside a's PUT
    current,        \* current[a]: version loaded by a's PUT
    stale,          \* stale[a]: stored changed since a last read it (history)
    faults          \* failures so far

vars == <<stored, snapshot, slow, pc, shown, draft, incoming, current, stale,
          faults>>

Defaults == [version |-> 1, content |-> DefaultContent]

InForce == IF stored = NoConfig THEN Defaults ELSE stored

(***************************************************************************)
(* ConfigStore.load: patterns whose probe misses the 0.5 s deadline are    *)
(* dropped; the defaults are not probed.                                   *)
(***************************************************************************)
Loads ==
    IF slow /\ stored # NoConfig
    THEN {[stored EXCEPT !.content.patterns = ps] :
            ps \in SUBSET stored.content.patterns}
    ELSE {InForce}

\* ConfigStore.validate, of the thresholds (every pattern is a safe one).
IsValid(content) ==
    LET l == content.limits
    IN  0 <= l.allow /\ l.allow <= l.monitor /\ l.monitor <= l.sanitize
            /\ l.sanitize <= 100

Larger(m, n) == IF m > n THEN m ELSE n

Init ==
    /\ stored = NoConfig
    /\ snapshot = NoConfig
    /\ slow \in BOOLEAN
    /\ pc = [a \in Admins |-> "closed"]
    /\ shown = [a \in Admins |-> Defaults]
    /\ draft = [a \in Admins |-> Defaults]
    /\ incoming = [a \in Admins |-> Defaults]
    /\ current = [a \in Admins |-> 1]
    /\ stale = [a \in Admins |-> TRUE]
    /\ faults = 0

-------------------------------------------------------------------------------
\* The panel opens, or is opened again: GET /config.
Fetch(a) ==
    /\ pc[a] \in {"closed", "editing"}
    /\ \E cfg \in Loads :
          /\ shown' = [shown EXCEPT ![a] = cfg]
          /\ draft' = [draft EXCEPT ![a] = cfg]
    /\ pc' = [pc EXCEPT ![a] = "editing"]
    /\ stale' = [stale EXCEPT ![a] = FALSE]
    /\ UNCHANGED <<stored, snapshot, slow, incoming, current, faults>>

\* An edit; an API client may leave the version out, which makes it 1.
Edit(a) ==
    /\ pc[a] = "editing"
    /\ \E content \in Content, v \in {1, draft[a].version} :
          draft' = [draft EXCEPT ![a] = [version |-> v, content |-> content]]
    /\ UNCHANGED <<stored, snapshot, slow, pc, shown, incoming, current, stale,
                   faults>>

\* PUT /config arrives and passes validation (otherwise 400, no effect).
Put(a) ==
    /\ pc[a] = "editing" /\ InForce.version < MaxVersion
    /\ IsValid(draft[a].content)
    /\ incoming' = [incoming EXCEPT ![a] = draft[a]]
    /\ pc' = [pc EXCEPT ![a] = "load"]
    /\ UNCHANGED <<stored, snapshot, slow, shown, draft, current, stale, faults>>

\* current = await store.load()
PutLoad(a) ==
    /\ pc[a] = "load"
    /\ current' = [current EXCEPT ![a] = InForce.version]
    /\ stale' = [stale EXCEPT ![a] = FALSE]
    /\ pc' = [pc EXCEPT ![a] = "save"]
    /\ UNCHANGED <<stored, snapshot, slow, shown, draft, incoming, faults>>

\* Mutant of NextVersion: a version at least the current one is good enough.
NextVersionNotBumped(a) == Larger(current[a], incoming[a].version)

NextVersion(a) == Larger(current[a] + 1, incoming[a].version)

\* What a's PUT saves.
Saved(a) == [incoming[a] EXCEPT !.version = NextVersion(a)]

(***************************************************************************)
(* incoming.version = ...; await store.save(incoming).  From now on every  *)
(* other copy is out of date.                                              *)
(***************************************************************************)
PutSave(a) ==
    /\ pc[a] = "save"
    /\ stored' = Saved(a)
    /\ stale' = [b \in Admins |-> b # a]
    /\ incoming' = [incoming EXCEPT ![a] = Saved(a)]
    /\ pc' = [pc EXCEPT ![a] = "publish"]
    /\ UNCHANGED <<snapshot, slow, shown, draft, current, faults>>

\* The PUT is over, and with it what it held.
Answered(a) ==
    /\ pc' = [pc EXCEPT ![a] = "editing"]
    /\ incoming' = [incoming EXCEPT ![a] = Defaults]
    /\ current' = [current EXCEPT ![a] = 1]

\* Mutant of PutPublish: the panel keeps its draft instead of the answer.
PutPublishDraft(a) ==
    /\ pc[a] = "publish"
    /\ shown' = [shown EXCEPT ![a] = draft[a]]
    /\ Answered(a)
    /\ UNCHANGED <<stored, snapshot, slow, draft, stale, faults>>

\* Publish config.updated (no property needs it recorded) and answer; the
\* answer becomes the panel's cfg and draft.
PutPublish(a) ==
    /\ pc[a] = "publish"
    /\ shown' = [shown EXCEPT ![a] = incoming[a]]
    /\ draft' = [draft EXCEPT ![a] = incoming[a]]
    /\ Answered(a)
    /\ UNCHANGED <<stored, snapshot, slow, stale, faults>>

-------------------------------------------------------------------------------
Fault ==
    /\ faults < MaxFaults
    /\ faults' = faults + 1

(***************************************************************************)
(* The connection fails inside a PUT, which answers 500; the panel shows   *)
(* the error and keeps its draft.  A lost SET or XADD may have been done.  *)
(***************************************************************************)
PutFails(a) ==
    /\ Fault
    /\ \/ /\ pc[a] \in {"load", "save", "publish"}
          /\ stale' = [stale EXCEPT ![a] = TRUE]
          /\ UNCHANGED stored
       \/ /\ pc[a] = "save"
          /\ stored' = Saved(a)
          /\ stale' = [b \in Admins |-> TRUE]
    /\ Answered(a)
    /\ UNCHANGED <<snapshot, slow, shown, draft>>

\* Redis saves its data in the background.
RedisSaves ==
    /\ stored # snapshot
    /\ snapshot' = stored
    /\ UNCHANGED <<stored, slow, pc, shown, draft, incoming, current, stale,
                   faults>>

\* Redis comes back with its last snapshot, or empty in a new container.
RedisRestarts ==
    /\ Fault
    /\ snapshot' \in {snapshot, NoConfig}
    /\ stored' = snapshot'
    /\ stale' = [a \in Admins |-> TRUE]
    /\ UNCHANGED <<slow, pc, shown, draft, incoming, current>>

Serve(a) == PutLoad(a) \/ PutSave(a) \/ PutPublish(a)

Next ==
    \/ \E a \in Admins :
          Fetch(a) \/ Edit(a) \/ Put(a) \/ Serve(a) \/ PutFails(a)
    \/ RedisSaves \/ RedisRestarts

Spec == Init /\ [][Next]_vars

-------------------------------------------------------------------------------
\* Type invariant.
TypeOK ==
    /\ stored \in Config \union {NoConfig}
    /\ snapshot \in Config \union {NoConfig}
    /\ slow \in BOOLEAN
    /\ pc \in [Admins -> {"closed", "editing", "load", "save", "publish"}]
    /\ shown \in [Admins -> Config]
    /\ draft \in [Admins -> Config]
    /\ incoming \in [Admins -> Config]
    /\ current \in [Admins -> Int]
    /\ stale \in [Admins -> BOOLEAN]
    /\ faults \in 0..MaxFaults

(***************************************************************************)
(* The thresholds a request is decided by are ordered and within 0..100    *)
(* once a configuration is stored, whoever saves at the same time, though  *)
(* the environment's own are not checked.                                  *)
(***************************************************************************)
StoredIsValid == stored # NoConfig => IsValid(stored.content)

(***************************************************************************)
(* Without another save or a restart between its load and its save, a PUT  *)
(* stores a version above the one it replaces, whatever version it was     *)
(* sent with.                                                              *)
(***************************************************************************)
UndisturbedSaveAdvances ==
    \A a \in Admins :
        pc[a] = "save" /\ ~stale[a] => NextVersion(a) > InForce.version

(***************************************************************************)
(* A panel that is being edited shows the configuration in force unless    *)
(* it changed behind the panel's back or its last save failed; so an       *)
(* administrator working alone never edits an outdated one.  (On a host    *)
(* that meets the probes' deadline.)                                       *)
(***************************************************************************)
PanelIsCurrent ==
    ~slow =>
        \A a \in Admins :
            pc[a] = "editing" /\ ~stale[a] => shown[a] = InForce

(***************************************************************************)
(* docs/configuration.md:75: version is "incremented on change".  Two PUTs *)
(* that both load before either saves store the same version, or an older  *)
(* one after a newer one.                                                  *)
(***************************************************************************)
VersionIncremented ==
    [][stored # NoConfig /\ stored' # NoConfig /\ stored' # stored =>
          stored'.version > stored.version]_vars
===============================================================================
