------------------------------- MODULE HostScan -------------------------------
(***************************************************************************)
(* Hosts scanned over and over, their reports ingested by the backend and  *)
(* shown by the dashboard: the scanners' scan_all and main, POST           *)
(* /scan/kernel, GET /kernel/status (backend/app/api/routes/kernel.py) and *)
(* KernelHealth.tsx.                                                       *)
(*                                                                         *)
(* A host keeps changing while its scanner runs from check to check.  A    *)
(* scanner waits for the answer to its report 15 s at most; the backend    *)
(* goes on without it.  All hosts share one status key.  Between their     *)
(* round trips to Redis the requests of this route and of others are       *)
(* interleaved in Pipeline; here the load of the configuration and the two *)
(* events are one step, the status and the answer one each.                *)
(***************************************************************************)
EXTENDS Scanners, FiniteSets

CONSTANTS
    Hosts,
    Subjects,       \* what can be looked at, on any host
    KindOf,         \* [Subjects -> kinds]
    Conditions,     \* [Subjects -> sets of conditions a subject can be in]
    Initially,      \* [Subjects -> conditions], before the first change
    Setups,         \* how the hosts may be set up: [Hosts -> Setup]
    Oversized,      \* subjects whose title or detail exceeds KernelFinding's
    Limits,         \* the thresholds in force
    MaxFindings,    \* KernelScanPayload.findings: 500
    MaxPasses,      \* bound: [Hosts -> passes of its scanner]
    MaxMishaps,     \* bound: changes of hosts, timeouts and faults
    Polls           \* fetches of one dashboard that may be on their way

\* The system, the scanner it was given, whether with a key to sign with, and
\* whether the backend takes its word: it has no key, or they agree.
Setup == [platform : Platforms, scanner : Platforms, signs : BOOLEAN,
          trusted : BOOLEAN, has : SUBSET Subjects]

ASSUME HostScanAssumption ==
    /\ IsFiniteSet(Subjects)
    /\ Initially \in [Subjects -> STRING]
    /\ \A s \in Subjects : Initially[s] \in Conditions[s]
    /\ \A s \in Subjects : Conditions[s] \subseteq STRING
    /\ Setups \subseteq [Hosts -> Setup]
    /\ MaxPasses \in [Hosts -> Nat] /\ MaxMishaps \in Nat

VARIABLES
    setup,          \* how the hosts are set up
    host,           \* the condition of every subject on every host
    phase,          \* of a scanner: asleep, scanning, or waiting for its POST
    passes,         \* passes a scanner began
    pending,        \* checks the pass has still to run
    listed,         \* processes /proc showed whose status is still unread
    found,          \* findings of the pass
    requests,       \* reports on their way through the backend
    decided,        \* the kernel.decision.* events, with their reports
    status,         \* the value under autodefense:kernel_status:v1
    polls,          \* answers on their way to the dashboard
    shown,          \* what KernelHealth shows
    steady,         \* history: subjects unchanged since the pass began
    answered,       \* history: last pass whose report was answered
    abandoned,      \* history: passes whose POST the scanner gave up
    failed,         \* history: passes whose report a fault stopped
    mishaps         \* changes, timeouts and faults so far

backend   == <<requests, decided, status>>
dashboard == <<polls, shown>>
history   == <<answered, abandoned, failed>>
scanner   == <<phase, passes, pending, listed, found>>
world     == <<setup, host, steady>>
vars == <<world, scanner, backend, dashboard, history, mishaps>>

NoStatus == [host |-> "none"]       \* {"scanned": False}
NoPoll   == [host |-> "no poll"]

\* The checks of the scanner that look at something this host has.
Checks(h) ==
    IF setup[h].scanner # setup[h].platform THEN {}
    ELSE {i \in DOMAIN Pass[setup[h].platform] :
            \E s \in setup[h].has : KindOf[s] \in Pass[setup[h].platform][i]}

\* Mutant: the checks look at what other hosts have.
MutLookedAtAll(h, i) ==
    {s \in Subjects : KindOf[s] \in Pass[setup[h].platform][i]}

LookedAt(h, i) ==
    {s \in setup[h].has : KindOf[s] \in Pass[setup[h].platform][i]}

CurrentFindings(h, s) ==
    FindingsOf(setup[h].platform, s, KindOf[s], host[h][s])

Init ==
    /\ setup \in Setups
    /\ host = [h \in Hosts |-> Initially]
    /\ phase = [h \in Hosts |-> "asleep"]
    /\ passes = [h \in Hosts |-> 0]
    /\ pending = [h \in Hosts |-> {}]
    /\ listed = [h \in Hosts |-> {}]
    /\ found = [h \in Hosts |-> {}]
    /\ requests = {} /\ decided = {} /\ status = NoStatus
    /\ polls = [i \in Polls |-> NoPoll] /\ shown = NoStatus
    /\ steady = [h \in Hosts |-> {}]
    /\ answered = [h \in Hosts |-> 0]
    /\ abandoned = {} /\ failed = {}
    /\ mishaps = 0

-------------------------------------------------------------------------------
(***************************************************************************)
(* The host: processes start, end and hide, files appear, settings change. *)
(***************************************************************************)
Change(h, s) ==
    /\ mishaps < MaxMishaps /\ mishaps' = mishaps + 1
    /\ s \in setup[h].has
    /\ \E c \in Conditions[s] \ {host[h][s]} :
          host' = [host EXCEPT ![h][s] = c]
    /\ steady' = [steady EXCEPT ![h] = @ \ {s}]
    /\ UNCHANGED <<setup, scanner, backend, dashboard, history>>

-------------------------------------------------------------------------------
(***************************************************************************)
(* The scanner: main's loop around scan_all.                               *)
(***************************************************************************)
\* Mutant: the findings of the last pass stay in the result.
MutStartPassKeeps(h) ==
    /\ phase[h] = "asleep" /\ passes[h] < MaxPasses[h]
    /\ phase' = [phase EXCEPT ![h] = "scanning"]
    /\ passes' = [passes EXCEPT ![h] = @ + 1]
    /\ pending' = [pending EXCEPT ![h] = Checks(h)]
    /\ steady' = [steady EXCEPT ![h] = setup[h].has]
    /\ UNCHANGED <<found, setup, host, listed, backend, dashboard, history,
                   mishaps>>

StartPass(h) ==
    /\ phase[h] = "asleep" /\ passes[h] < MaxPasses[h]
    /\ phase' = [phase EXCEPT ![h] = "scanning"]
    /\ passes' = [passes EXCEPT ![h] = @ + 1]
    /\ pending' = [pending EXCEPT ![h] = Checks(h)]
    /\ found' = [found EXCEPT ![h] = {}]
    /\ steady' = [steady EXCEPT ![h] = setup[h].has]
    /\ UNCHANGED <<setup, host, listed, backend, dashboard, history, mishaps>>

\* The pass comes to check i.
Due(h, i) ==
    /\ phase[h] = "scanning" /\ listed[h] = {}
    /\ i \in pending[h] /\ \A j \in pending[h] : i <= j
    /\ pending' = [pending EXCEPT ![h] = @ \ {i}]
    /\ UNCHANGED <<phase, passes, world, backend, dashboard, history, mishaps>>

IsListing(h, i) ==
    setup[h].platform = "linux" /\ "process" \in Pass["linux"][i]

\* Mutant: a check's findings replace those of the checks before.
MutCheckReplaces(h, i) ==
    /\ ~IsListing(h, i)
    /\ Due(h, i)
    /\ found' = [found EXCEPT ![h] =
                    UNION {CurrentFindings(h, s) : s \in LookedAt(h, i)}]
    /\ UNCHANGED listed

Check(h, i) ==
    /\ ~IsListing(h, i)
    /\ Due(h, i)
    /\ found' = [found EXCEPT ![h] =
                    @ \cup UNION {CurrentFindings(h, s) : s \in LookedAt(h, i)}]
    /\ UNCHANGED listed

\* check_hidden_processes: iterdir() takes the listing of /proc first.
ListProcesses(h, i) ==
    /\ IsListing(h, i)
    /\ Due(h, i)
    /\ listed' = [listed EXCEPT ![h] =
                     {s \in LookedAt(h, i) : host[h][s] # "none"}]
    /\ UNCHANGED found

Hidden(s) == [about |-> s, cat |-> "rootkit", sev |-> "critical"]

(***************************************************************************)
(* Then every status file is read: a FileNotFoundError is a hidden process *)
(* to it, whether the process hides or has ended since.                    *)
(***************************************************************************)
ReadStatus(h, s) ==
    /\ s \in listed[h]
    /\ listed' = [listed EXCEPT ![h] = @ \ {s}]
    /\ found' = IF host[h][s] \in {"hidden", "none"}
                THEN [found EXCEPT ![h] = @ \cup {Hidden(s)}]
                ELSE found
    /\ UNCHANGED <<phase, passes, pending, world, backend, dashboard, history,
                   mishaps>>

PassEnded(h) == phase[h] = "scanning" /\ pending[h] = {} /\ listed[h] = {}

\* _compute_hmac of two of the scanners names hashlib, which only the third
\* imports.
CannotSign(h) == setup[h].signs /\ setup[h].scanner \in {"darwin", "windows"}

\* main prints the NameError; the report is not sent.
PostRaises(h) ==
    /\ PassEnded(h) /\ CannotSign(h)
    /\ phase' = [phase EXCEPT ![h] = "asleep"]
    /\ UNCHANGED <<passes, pending, listed, found, world, backend, dashboard,
                   history, mishaps>>

Post(h) ==
    /\ PassEnded(h) /\ ~CannotSign(h)
    /\ phase' = [phase EXCEPT ![h] = "waiting"]
    /\ requests' = requests \cup
          {[host |-> h, no |-> passes[h], found |-> found[h],
            stage |-> "sent"]}
    /\ UNCHANGED <<passes, pending, listed, found, world, decided, status,
                   dashboard, history, mishaps>>

\* urlopen's timeout; main prints the error and sleeps.
Timeout(h) ==
    /\ mishaps < MaxMishaps /\ mishaps' = mishaps + 1
    /\ phase[h] = "waiting"
    /\ phase' = [phase EXCEPT ![h] = "asleep"]
    /\ abandoned' = abandoned \cup {<<h, passes[h]>>}
    /\ UNCHANGED <<passes, pending, listed, found, world, backend, dashboard,
                   answered, failed>>

-------------------------------------------------------------------------------
(***************************************************************************)
(* The backend: scan_kernel.                                               *)
(***************************************************************************)
\* The scanner whose report r is still waits for the answer.
Waits(r) == phase[r.host] = "waiting" /\ passes[r.host] = r.no

Released(r) == IF Waits(r) THEN [phase EXCEPT ![r.host] = "asleep"] ELSE phase

Fits(reported) ==
    /\ Cardinality(reported) <= MaxFindings
    /\ \A f \in reported : f.about \notin Oversized

\* 401 or 403 for the signature, 422 for the payload.
Refused(h, reported) == ~setup[h].trusted \/ ~Fits(reported)

\* The status, and the decision event as far as it matters here.
Verdict(r) == [host |-> r.host, no |-> r.no, found |-> r.found,
               action |-> KernelAction(r.found, Limits)]

Refuse(r) ==
    /\ r \in requests /\ r.stage = "sent" /\ Refused(r.host, r.found)
    /\ requests' = requests \ {r}
    /\ phase' = Released(r)
    /\ UNCHANGED <<passes, pending, listed, found, world, decided, status,
                   dashboard, history, mishaps>>

\* The request's next stage, with everything before it done.
Advanced(r, stage) == (requests \ {r}) \cup {[r EXCEPT !.stage = stage]}

Decide(r) ==
    /\ r \in requests /\ r.stage = "sent" /\ ~Refused(r.host, r.found)
    /\ requests' = Advanced(r, "decided")
    /\ decided' = decided \cup {Verdict(r)}
    /\ UNCHANGED <<scanner, world, status, dashboard, history, mishaps>>

SetStatus(r) ==
    /\ r \in requests /\ r.stage = "decided"
    /\ requests' = Advanced(r, "stored")
    /\ status' = Verdict(r)
    /\ UNCHANGED <<scanner, world, decided, dashboard, history, mishaps>>

\* Mutant: the answer does not wait for the status to be stored.
MutAnswerFirst(r) ==
    /\ r \in requests
    /\ \/ /\ r.stage = "decided" /\ Waits(r)
          /\ answered' = [answered EXCEPT ![r.host] = r.no]
          /\ requests' = requests
       \/ /\ r.stage = "stored"
          /\ answered' = answered
          /\ requests' = requests \ {r}
    /\ phase' = Released(r)
    /\ UNCHANGED <<passes, pending, listed, found, world, decided, status,
                   dashboard, abandoned, failed, mishaps>>

Answer(r) ==
    /\ r \in requests /\ r.stage = "stored"
    /\ requests' = requests \ {r}
    /\ phase' = Released(r)
    /\ answered' = IF Waits(r) THEN [answered EXCEPT ![r.host] = r.no]
                   ELSE answered
    /\ UNCHANGED <<passes, pending, listed, found, world, decided, status,
                   dashboard, abandoned, failed, mishaps>>

(***************************************************************************)
(* The request does not arrive, Redis fails at one of its awaits (a 500),  *)
(* or the answer is lost.  The scanner prints the error; nothing is sent   *)
(* again.                                                                  *)
(***************************************************************************)
Fails(r) ==
    /\ mishaps < MaxMishaps /\ mishaps' = mishaps + 1
    /\ r \in requests
    /\ requests' = requests \ {r}
    /\ phase' = Released(r)
    /\ failed' = failed \cup {<<r.host, r.no>>}
    /\ UNCHANGED <<passes, pending, listed, found, world, decided, status,
                   dashboard, answered, abandoned>>

-------------------------------------------------------------------------------
(***************************************************************************)
(* The dashboard: KernelHealth fetches the status every ten seconds.       *)
(***************************************************************************)
Poll(i) ==
    /\ polls[i] = NoPoll
    /\ polls' = [polls EXCEPT ![i] = status]
    /\ UNCHANGED <<shown, world, scanner, backend, history, mishaps>>

\* Mutant: the first scan fetched is the one that is shown.
MutArriveFirst(i) ==
    /\ polls[i] # NoPoll
    /\ polls' = [polls EXCEPT ![i] = NoPoll]
    /\ shown' = IF shown = NoStatus THEN polls[i] ELSE shown
    /\ UNCHANGED <<world, scanner, backend, history, mishaps>>

Arrive(i) ==
    /\ polls[i] # NoPoll
    /\ polls' = [polls EXCEPT ![i] = NoPoll]
    /\ shown' = polls[i]
    /\ UNCHANGED <<world, scanner, backend, history, mishaps>>

\* A fetch that fails leaves what is shown.
PollFails(i) ==
    /\ mishaps < MaxMishaps /\ mishaps' = mishaps + 1
    /\ polls[i] # NoPoll
    /\ polls' = [polls EXCEPT ![i] = NoPoll]
    /\ UNCHANGED <<shown, world, scanner, backend, history>>

-------------------------------------------------------------------------------
RunCheck(h) == \E i \in pending[h] : Check(h, i) \/ ListProcesses(h, i)

\* main: while True.
ScannerStep(h) == \/ StartPass(h)
                  \/ RunCheck(h)
                  \/ \E s \in listed[h] : ReadStatus(h, s)
                  \/ Post(h)
                  \/ PostRaises(h)

ScannerNext == \E h \in Hosts : ScannerStep(h) \/ Timeout(h)

Serve(r) == Refuse(r) \/ Decide(r) \/ SetStatus(r) \/ Answer(r)

BackendNext == \E r \in requests : Serve(r) \/ Fails(r)

Fetch(i) == Poll(i) \/ Arrive(i)

DashboardNext == \E i \in Polls : Fetch(i) \/ PollFails(i)

Next == \/ \E h \in Hosts, s \in Subjects : Change(h, s)
        \/ ScannerNext
        \/ BackendNext
        \/ DashboardNext

(***************************************************************************)
(* A scanner's loop goes on; the backend runs its requests, whose awaits   *)
(* end by Redis' answer or an error; the browser's timer fires and its     *)
(* fetches end.  Nothing makes a host change, a scanner give up or a       *)
(* fault happen.  (MaxPasses bounds the steps of the scanners and of the   *)
(* requests, so one condition for all of each is one for every one.)       *)
(***************************************************************************)
Fairness ==
    /\ WF_vars(\E h \in Hosts : ScannerStep(h))
    /\ WF_vars(\E r \in requests : Serve(r))
    /\ \A i \in Polls : WF_vars(Fetch(i))

Spec == Init /\ [][Next]_vars /\ Fairness

-------------------------------------------------------------------------------
Finding == [about : Subjects, cat : Categories, sev : Severities]
Report  == [host : Hosts, no : Nat, found : SUBSET Finding,
            action : Action]
Shown   == Report \cup {NoStatus}

(***************************************************************************)
(* Types; and a report never names a subject the host has not got.         *)
(***************************************************************************)
TypeOK ==
    /\ setup \in [Hosts -> Setup]
    /\ host \in [Hosts -> [Subjects -> STRING]]
    /\ \A h \in Hosts : \A s \in Subjects : host[h][s] \in Conditions[s]
    /\ phase \in [Hosts -> {"asleep", "scanning", "waiting"}]
    /\ passes \in [Hosts -> Nat]
    /\ \A h \in Hosts : passes[h] <= MaxPasses[h]
    /\ pending \in [Hosts -> SUBSET Nat]
    /\ listed \in [Hosts -> SUBSET Subjects]
    /\ found \in [Hosts -> SUBSET Finding]
    /\ \A h \in Hosts : listed[h] \subseteq setup[h].has
    /\ \A h \in Hosts : \A f \in found[h] : f.about \in setup[h].has
    /\ \A r \in requests :
          /\ r \in [host : Hosts, no : Nat, found : SUBSET Finding,
                    stage : {"sent", "decided", "stored"}]
          /\ r.no <= passes[r.host]
    /\ decided \subseteq Report
    /\ status \in Shown
    /\ polls \in [Polls -> Shown \cup {NoPoll}] /\ shown \in Shown
    /\ steady \in [Hosts -> SUBSET Subjects]
    /\ answered \in [Hosts -> Nat]
    /\ \A h \in Hosts : answered[h] <= passes[h]
    /\ abandoned \subseteq Hosts \X Nat
    /\ failed \subseteq Hosts \X Nat
    /\ mishaps \in 0..MaxMishaps

(***************************************************************************)
(* What a scan says of a subject that stayed as it was for the whole pass  *)
(* is exactly what the rules say of its condition: nothing is missed, and  *)
(* only a process that ended meanwhile is reported without cause.          *)
(***************************************************************************)
DoneWith(h, s) ==
    /\ s \notin listed[h]
    /\ \A i \in pending[h] : s \notin LookedAt(h, i)

SteadyIsExact ==
    \A h \in Hosts :
        (passes[h] > 0 /\ setup[h].scanner = setup[h].platform) =>
            \A s \in steady[h] :
                /\ {f \in found[h] : f.about = s}
                       \subseteq CurrentFindings(h, s)
                /\ DoneWith(h, s) => CurrentFindings(h, s) \subseteq found[h]

(***************************************************************************)
(* The answered report of a host is not undone by an older report of it,   *)
(* unless the scanner had given that one up while the backend went on.     *)
(* (Other hosts' reports, of whatever age, do replace it.)                 *)
(***************************************************************************)
StatusKeepsAnswered ==
    status # NoStatus =>
        \/ status.no >= answered[status.host]
        \/ <<status.host, status.no>> \in abandoned

(***************************************************************************)
(* Under the default thresholds a critical or high finding that is not a   *)
(* network one is answered by sanitize or block, whatever else a report    *)
(* holds, and a report without threats by allow.                           *)
(***************************************************************************)
GraveFindingsEscalate ==
    \A d \in decided :
        /\ (\E f \in d.found : /\ f.sev \in {"critical", "high"}
                               /\ f.cat # "network") =>
              Rank(d.action) >= Rank("sanitize")
        /\ (\A f \in d.found : ~IsThreat(f)) => d.action = "allow"

(***************************************************************************)
(* When a scanner is through with a pass and no report of its host is on   *)
(* its way, the threats that lasted through the pass have been decided     *)
(* upon, unless that report was refused (its signature, 500 findings, an   *)
(* overlong title), was lost, or could not be signed: docs/security.md:126 *)
(* has scanners of all three systems sign, two of them cannot.             *)
(***************************************************************************)
Lasting(h) ==
    {s \in steady[h] : \E f \in CurrentFindings(h, s) : IsThreat(f)}

Decided(h, s) ==
    \E d \in decided : /\ d.host = h /\ d.no = passes[h]
                       /\ CurrentFindings(h, s) \subseteq d.found

PassIsOver(h) ==
    /\ phase[h] = "asleep" /\ passes[h] > 0
    /\ setup[h].scanner = setup[h].platform
    /\ \A r \in requests : r.host # h
    /\ <<h, passes[h]>> \notin failed
    /\ ~Refused(h, found[h])

LastingThreatIsDecided ==
    \A h \in Hosts :
        PassIsOver(h) /\ ~CannotSign(h) => \A s \in Lasting(h) : Decided(h, s)

(***************************************************************************)
(* The scanners end their passes, the backend its requests, and then the   *)
(* dashboard comes to show the status, in whatever order its fetches were  *)
(* answered.                                                               *)
(***************************************************************************)
DashboardCatchesUp ==
    <>[](/\ \A h \in Hosts : phase[h] = "asleep"
         /\ requests = {}
         /\ shown = status)
===============================================================================
