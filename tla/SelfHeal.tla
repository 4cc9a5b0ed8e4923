------------------------------- MODULE SelfHeal -------------------------------
(***************************************************************************)
(* SelfHealingEngine.ingest_incident (backend/app/core/self_heal.py) and   *)
(* RulesStore.merge_update (backend/app/core/rules_store.py), as run by    *)
(* any number of requests at once: one action per Redis round trip, since  *)
(* every await of one is where another request, of this process or of      *)
(* another one sharing the Redis, may run.                                 *)
(***************************************************************************)
EXTENDS DynamicRules, FiniteSets

CONSTANTS
    Requests,       \* requests whose decision was sanitize or block_isolate
    Incidents,      \* the incidents they can raise
    MaxTries,       \* range(16) in merge_update
    MaxFaults       \* bound: connection failures per request

ASSUME SelfHealAssumption ==
    /\ Incidents \subseteq Incident
    /\ MaxTries \in Nat \ {0}
    /\ MaxFaults \in Nat

VARIABLES
    store,          \* the value under autodefense:dynamic_rules:v1
    applied,        \* self_heal.applied events that reached the Redis stream
    slow,           \* whether the host may miss a regex probe's deadline
    enabled,        \* settings.self_heal_enabled of the process
    incident,       \* incident[r]: what request r reports
    pc,             \* pc[r]: the await request r is at
    dirty,          \* dirty[r]: the watched key changed since r's WATCH
    built,          \* built[r]: dyn after the mutator, until it is announced
    patches,        \* patches[r]: the mutator's result, then r's own
    tries,          \* tries[r]: attempts of merge_update that failed
    faults,         \* faults[r]: connection failures r met
    start           \* start[r]: version stored when r began (history)

vars == <<store, applied, slow, enabled, incident, pc, dirty, built, patches,
          tries, faults, start>>

\* A request holds a WATCH on the key between these awaits.
Watching(r) == pc[r] \in {"get", "unwatch", "exec"}
Ended(r) == pc[r] \in {"done", "failed"}

\* The self_heal.applied event of request r.
Applied(r) == [request |-> r, rules_version |-> built[r].version,
               patches |-> patches[r]]

Init ==
    /\ store = EmptyRules
    /\ applied = {}
    /\ slow \in BOOLEAN
    /\ enabled \in BOOLEAN
    /\ incident \in [Requests -> Incidents]
    /\ pc = [r \in Requests |-> "idle"]
    /\ dirty = [r \in Requests |-> FALSE]
    /\ built = [r \in Requests |-> EmptyRules]
    /\ patches = [r \in Requests |-> {}]
    /\ tries = [r \in Requests |-> 0]
    /\ faults = [r \in Requests |-> 0]
    /\ start = [r \in Requests |-> 1]

-------------------------------------------------------------------------------
\* ingest_incident returns at once when self-healing is off in the settings.
Disabled(r) ==
    /\ pc[r] = "idle" /\ ~enabled
    /\ pc' = [pc EXCEPT ![r] = "done"]
    /\ UNCHANGED <<store, applied, slow, enabled, incident, dirty, built,
                   patches, tries, faults, start>>

\* Publish incident.detected (no property needs it recorded) and enter
\* merge_update.
Detect(r) ==
    /\ pc[r] = "idle" /\ enabled
    /\ pc' = [pc EXCEPT ![r] = "watch"]
    /\ start' = [start EXCEPT ![r] = store.version]
    /\ UNCHANGED <<store, applied, slow, enabled, incident, dirty, built, patches,
                   tries, faults>>

\* WATCH: Redis starts to track writes to the key for this connection.
Watch(r) ==
    /\ pc[r] = "watch"
    /\ dirty' = [dirty EXCEPT ![r] = FALSE]
    /\ pc' = [pc EXCEPT ![r] = "get"]
    /\ UNCHANGED <<store, applied, slow, enabled, incident, built, patches,
                   tries, faults, start>>

\* GET, decode and run the mutator; no await separates the three.
Get(r) ==
    /\ pc[r] = "get"
    /\ \E d \in Decoded(store, slow) :
          /\ patches' = [patches EXCEPT ![r] = Patches(d, incident[r])]
          /\ built' = [built EXCEPT ![r] = Built(d, incident[r])]
          /\ pc' = [pc EXCEPT ![r] =
                       IF Patches(d, incident[r]) = {} THEN "unwatch" ELSE "exec"]
    /\ UNCHANGED <<store, applied, slow, enabled, incident, dirty, tries,
                   faults, start>>

\* Nothing to save: drop the WATCH and return ([], None).
Unwatch(r) ==
    /\ pc[r] = "unwatch"
    /\ pc' = [pc EXCEPT ![r] = "done"]
    /\ built' = [built EXCEPT ![r] = EmptyRules]
    /\ UNCHANGED <<store, applied, slow, enabled, incident, dirty, patches,
                   tries, faults, start>>

\* Mutant of Retry: the stale transaction is executed again as it is.
RetryInPlace(r) ==
    /\ pc' = [pc EXCEPT ![r] = "exec"]
    /\ UNCHANGED <<patches, tries, built>>

\* Mutant of Retry: the first conflict already exhausts the loop.
RetryExhausted(r) ==
    /\ tries' = [tries EXCEPT ![r] = MaxTries]
    /\ patches' = [patches EXCEPT ![r] = {}]
    /\ built' = [built EXCEPT ![r] = EmptyRules]
    /\ pc' = [pc EXCEPT ![r] = "done"]

(***************************************************************************)
(* except WatchError: continue.  The attempt is counted; the sixteenth     *)
(* failed one logs an error and returns ([], None).                        *)
(***************************************************************************)
Retry(r) ==
    /\ tries' = [tries EXCEPT ![r] = @ + 1]
    /\ patches' = [patches EXCEPT ![r] = {}]
    /\ built' = [built EXCEPT ![r] = EmptyRules]
    /\ pc' = [pc EXCEPT ![r] =
                 IF tries[r] + 1 = MaxTries THEN "done" ELSE "watch"]

\* Mutant of Exec: a SET outside the transaction, whatever was watched.
ExecUnchecked(r) ==
    /\ pc[r] = "exec"
    /\ store' = built[r]
    /\ pc' = [pc EXCEPT ![r] = "publish"]
    /\ UNCHANGED <<applied, slow, enabled, incident, dirty, built, patches,
                   tries, faults, start>>

\* The server runs r's transaction: every other watcher of the key is spoiled.
Commit(r) ==
    /\ store' = built[r]
    /\ dirty' = [q \in Requests |-> IF q # r /\ Watching(q) THEN TRUE ELSE dirty[q]]

\* MULTI / SET / EXEC.
Exec(r) ==
    /\ pc[r] = "exec"
    /\ \/ /\ ~dirty[r]
          /\ Commit(r)
          /\ pc' = [pc EXCEPT ![r] = "publish"]
          /\ UNCHANGED <<patches, tries, built>>
       \/ /\ dirty[r]
          /\ Retry(r)
          /\ UNCHANGED <<store, dirty>>
    /\ UNCHANGED <<applied, slow, enabled, incident, faults, start>>

\* Publish self_heal.applied and return the patches.
Publish(r) ==
    /\ pc[r] = "publish"
    /\ applied' = applied \union {Applied(r)}
    /\ pc' = [pc EXCEPT ![r] = "done"]
    /\ built' = [built EXCEPT ![r] = EmptyRules]
    /\ UNCHANGED <<store, slow, enabled, incident, dirty, patches, tries,
                   faults, start>>

-------------------------------------------------------------------------------
(***************************************************************************)
(* Connection failures.  While a key is watched, redis-py turns a lost     *)
(* connection into WatchError, so merge_update tries again; if it was lost *)
(* at EXEC, the server may have run the transaction or not.  Outside a     *)
(* WATCH the error leaves ingest_incident and the request answers 500; a   *)
(* lost XADD may still have reached the stream.                            *)
(***************************************************************************)
Fault(r) ==
    /\ faults[r] < MaxFaults
    /\ faults' = [faults EXCEPT ![r] = @ + 1]

LinkFailsWatching(r) ==
    /\ Watching(r)
    /\ Fault(r)
    /\ Retry(r)
    /\ \/ UNCHANGED <<store, dirty>>
       \/ pc[r] = "exec" /\ ~dirty[r] /\ Commit(r)
    /\ UNCHANGED <<applied, slow, enabled, incident, start>>

LinkFailsPublishing(r) ==
    /\ \/ /\ pc[r] = "publish"
          /\ applied' \in {applied, applied \union {Applied(r)}}
       \/ /\ pc[r] = "watch" \/ (pc[r] = "idle" /\ enabled)
          /\ UNCHANGED applied
    /\ Fault(r)
    /\ pc' = [pc EXCEPT ![r] = "failed"]
    /\ built' = [built EXCEPT ![r] = EmptyRules]
    /\ UNCHANGED <<store, slow, enabled, incident, dirty, patches, tries,
                   start>>

\* Every request was answered; the system waits for traffic.
Quiet ==
    /\ \A r \in Requests : Ended(r)
    /\ UNCHANGED vars

Step(r) == Disabled(r) \/ Detect(r) \/ Watch(r) \/ Get(r) \/ Unwatch(r)
             \/ Exec(r) \/ Publish(r)

Next ==
    \/ \E r \in Requests : Step(r) \/ LinkFailsWatching(r) \/ LinkFailsPublishing(r)
    \/ Quiet

Spec == Init /\ [][Next]_vars

(***************************************************************************)
(* The event loop resumes every task whose reply came, and every reply     *)
(* comes or is given up on (socket_timeout = 5): each request keeps moving *)
(* while it has a step to take.  Failures are never forced to happen.      *)
(***************************************************************************)
FairSpec == Spec /\ \A r \in Requests : WF_vars(Step(r))

-------------------------------------------------------------------------------
PatchSet == SUBSET ({"injection", "exfil"} \X Regex)

Event == [request : Requests, rules_version : Nat \ {0}, patches : PatchSet]

\* Type invariant: in particular, no stored list outgrows MaxRuleGrowth.
TypeOK ==
    /\ store \in DynamicRule
    /\ applied \subseteq Event
    /\ slow \in BOOLEAN
    /\ enabled \in BOOLEAN
    /\ incident \in [Requests -> Incidents]
    /\ pc \in [Requests -> {"idle", "watch", "get", "unwatch", "exec",
                            "publish", "done", "failed"}]
    /\ dirty \in [Requests -> BOOLEAN]
    /\ built \in [Requests -> DynamicRule]
    /\ patches \in [Requests -> PatchSet]
    /\ tries \in [Requests -> 0..MaxTries]
    /\ faults \in [Requests -> 0..MaxFaults]
    /\ start \in [Requests -> Nat \ {0}]

\* The stored list a patch names.
ListOf(patch) == IF patch[1] = "injection" THEN store.injection ELSE store.exfil

(***************************************************************************)
(* A transaction that Redis would accept saves exactly what merging its    *)
(* incident into the value stored NOW gives: the optimistic lock of        *)
(* merge_update makes read-modify-write atomic.  (The strengthening on     *)
(* which the refinement of RuleLedger rests.)                              *)
(***************************************************************************)
UndisturbedMergeIsCurrent ==
    \A r \in Requests :
        pc[r] = "exec" /\ ~dirty[r] =>
            \E d \in Decoded(store, slow) :
                /\ patches[r] = Patches(d, incident[r])
                /\ patches[r] # {}
                /\ built[r] = Built(d, incident[r])

(***************************************************************************)
(* No two self_heal.applied events announce the same rules_version, and    *)
(* none announces a version that was never stored: the dashboard can order *)
(* rule updates by it even when the events arrive out of order.            *)
(***************************************************************************)
AppliedVersionsUnique ==
    \A e \in applied :
        /\ e.rules_version <= store.version
        /\ \A f \in applied : e.rules_version = f.rules_version => e = f

(***************************************************************************)
(* merge_update gives up on an incident, silently, after MaxTries failed   *)
(* attempts; each of them is paid for by a version stored since the        *)
(* request began or by a connection failure of its own.  So a quiet store  *)
(* never loses an incident.                                                *)
(***************************************************************************)
RetriesPaidFor ==
    \A r \in Requests : tries[r] <= (store.version - start[r]) + faults[r]

(***************************************************************************)
(* A pattern announced by self_heal.applied is in the stored list, or that *)
(* list is full: an update is dropped by the cap and by nothing else.      *)
(* (On a host that meets the probes' deadline.)                            *)
(***************************************************************************)
AppliedStoredOrFull ==
    ~slow =>
        \A e \in applied : \A p \in e.patches :
            p[2] \in Range(ListOf(p)) \/ Len(ListOf(p)) = MaxRuleGrowth

(***************************************************************************)
(* Learned rules stay: whatever requests run at once, a stored list is     *)
(* only ever extended at its end.  (Same proviso.)                         *)
(***************************************************************************)
RulesKept ==
    [][~slow => /\ IsPrefix(store.injection, store'.injection)
                /\ IsPrefix(store.exfil, store'.exfil)]_vars

\* The ledger's rules are the value under the key, whatever is in progress.
Ledger == INSTANCE RuleLedger WITH rules <- store, slow <- slow

(***************************************************************************)
(* merge_update implements the atomic merge of RuleLedger: no interleaving *)
(* of WATCH loops loses an update or builds on an older value.             *)
(***************************************************************************)
RefinesLedger == Ledger!LedgerSpec

(***************************************************************************)
(* Every request that enters self-healing leaves it, whatever conflicts    *)
(* and connection failures it meets.                                       *)
(***************************************************************************)
Terminates == \A r \in Requests : pc[r] = "watch" ~> Ended(r)
===============================================================================
