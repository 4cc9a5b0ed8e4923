---------------------------- MODULE HostScanProofs ----------------------------
(***************************************************************************)
(* Proofs about HostScan, for any hosts, subjects and setups, any rules'   *)
(* conditions, any number of passes, changes, timeouts and faults.  What   *)
(* is known of the risk of a list of signals comes from CoordinatorProofs. *)
(***************************************************************************)
EXTENDS HostScan, CoordinatorProofs, FiniteSetTheorems, TLAPS

(***************************************************************************)
(* The rule tables and scan_all.                                           *)
(***************************************************************************)
WellFormed(rules) ==
    \A x \in rules : x[3] \in Categories /\ x[4] \in Severities

LEMMA LinuxWellFormed == WellFormed(Rules["linux"])
<1>1. WellFormed(LinuxRootkit) /\ WellFormed(LinuxZeroDay)
    BY DEF WellFormed, LinuxRootkit, LinuxZeroDay, Categories, Severities
<1>2. WellFormed(LinuxSysctl)
    BY DEF WellFormed, LinuxSysctl, SysctlGap, SysctlSeverity, Categories,
           Severities
<1>3. WellFormed(LinuxIntegrity) /\ WellFormed(LinuxSockets)
    BY DEF WellFormed, LinuxIntegrity, LinuxSockets, Categories, Severities
<1>4. WellFormed(LinuxSniffers)
    BY DEF WellFormed, LinuxSniffers, Categories, Severities
<1> QED BY <1>1, <1>2, <1>3, <1>4 DEF WellFormed, Rules

LEMMA MacWellFormed == WellFormed(Rules["darwin"])
<1>1. WellFormed(MacIntegrity)
    BY DEF WellFormed, MacIntegrity, Categories, Severities
<1>2. WellFormed(MacNetwork) /\ WellFormed(MacFiles)
    BY DEF WellFormed, MacNetwork, MacFiles, Categories, Severities
<1> QED BY <1>1, <1>2 DEF WellFormed, Rules

LEMMA WindowsWellFormed == WellFormed(Rules["windows"])
<1>1. WellFormed(WindowsControls)
    BY DEF WellFormed, WindowsControls, Categories, Severities
<1>2. WellFormed(WindowsServices) /\ WellFormed(WindowsNetwork)
    BY DEF WellFormed, WindowsServices, WindowsNetwork, Categories, Severities
<1>3. WellFormed(WindowsPersistence) /\ WellFormed(WindowsPlatform)
    BY DEF WellFormed, WindowsPersistence, WindowsPlatform, Categories,
           Severities
<1> QED BY <1>1, <1>2, <1>3 DEF WellFormed, Rules

\* What a rule reports is of a known category and severity.
LEMMA RulesWellFormed ==
    ASSUME NEW p \in Platforms
    PROVE  WellFormed(Rules[p])
BY LinuxWellFormed, MacWellFormed, WindowsWellFormed DEF Platforms

\* A process that is not hidden is no finding; one that is hidden is one.
LEMMA ProcessRules ==
    \A x \in Rules["linux"] :
        x[1] = "process" => x = <<"process", "hidden", "rootkit", "critical">>
<1> DEFINE P(rules) == \A x \in rules : x[1] = "process" =>
                           x = <<"process", "hidden", "rootkit", "critical">>
<1>1. P(LinuxRootkit) /\ P(LinuxZeroDay)
    BY DEF LinuxRootkit, LinuxZeroDay
<1>2. P(LinuxSysctl)
    BY DEF LinuxSysctl, SysctlGap
<1>3. P(LinuxIntegrity) /\ P(LinuxSockets) /\ P(LinuxSniffers)
    BY DEF LinuxIntegrity, LinuxSockets, LinuxSniffers
<1> QED BY <1>1, <1>2, <1>3 DEF Rules

(***************************************************************************)
(* scan_all runs a check for every kind the rules speak of.                *)
(***************************************************************************)
Covered(rules, pass) ==
    \A x \in rules : \E i \in DOMAIN pass : x[1] \in pass[i]

LEMMA LinuxPassChecks ==
    /\ DOMAIN LinuxPass = 1..19
    /\ LinuxPass[1] = {"container"} /\ LinuxPass[2] = {"process"}
    /\ LinuxPass[3] = {"ld_preload"} /\ LinuxPass[4] = {"known_path"}
    /\ LinuxPass[5] = {"dev_hidden"} /\ LinuxPass[6] = {"module"}
    /\ LinuxPass[7] = {"exe"} /\ LinuxPass[8] = {"tmp_file"}
    /\ LinuxPass[9] = {"set_id"} /\ LinuxPass[10] = {"raw_socket"}
    /\ LinuxPass[11] = {"kernel_version"} /\ LinuxPass[12] = DOMAIN SysctlGap
    /\ LinuxPass[13] = {"selinux", "apparmor", "mandatory_access"}
    /\ LinuxPass[14] = {"boot_file"} /\ LinuxPass[15] = {"listener"}
    /\ LinuxPass[16] = {"interface"} /\ LinuxPass[17] = {"sniffer"}
    /\ LinuxPass[18] = {"pcap"} /\ LinuxPass[19] = {"arp_mac"}
BY DEF LinuxPass

LEMMA LinuxCovered == Covered(Rules["linux"], LinuxPass)
<1>1. Covered(LinuxRootkit, LinuxPass)
    BY LinuxPassChecks DEF Covered, LinuxRootkit
<1>2. Covered(LinuxZeroDay, LinuxPass)
    BY LinuxPassChecks DEF Covered, LinuxZeroDay
<1>3. Covered(LinuxSysctl, LinuxPass)
    BY LinuxPassChecks DEF Covered, LinuxSysctl
<1>4. Covered(LinuxIntegrity, LinuxPass)
    BY LinuxPassChecks DEF Covered, LinuxIntegrity
<1>5. Covered(LinuxSockets, LinuxPass)
    BY LinuxPassChecks DEF Covered, LinuxSockets
<1>6. Covered(LinuxSniffers, LinuxPass)
    BY LinuxPassChecks DEF Covered, LinuxSniffers
<1> QED BY <1>1, <1>2, <1>3, <1>4, <1>5, <1>6 DEF Covered, Rules

LEMMA MacPassChecks ==
    /\ DOMAIN MacPass = 1..13
    /\ MacPass[1] = {"sip"} /\ MacPass[2] = {"gatekeeper"}
    /\ MacPass[3] = {"filevault"} /\ MacPass[4] = {"firewall", "stealth"}
    /\ MacPass[5] = {"version"} /\ MacPass[6] = {"xprotect"}
    /\ MacPass[7] = {"remote_login"} /\ MacPass[8] = {"listener"}
    /\ MacPass[9] = {"interface"} /\ MacPass[10] = {"sniffer"}
    /\ MacPass[11] = {"pcap"}
    /\ MacPass[12] = {"launch_daemon", "launch_agent"}
    /\ MacPass[13] = {"login_item"}
BY DEF MacPass

LEMMA MacCovered == Covered(Rules["darwin"], MacPass)
<1>1. Covered(MacIntegrity, MacPass)
    BY MacPassChecks DEF Covered, MacIntegrity
<1>2. Covered(MacNetwork, MacPass)
    BY MacPassChecks DEF Covered, MacNetwork
<1>3. Covered(MacFiles, MacPass)
    BY MacPassChecks DEF Covered, MacFiles
<1> QED BY <1>1, <1>2, <1>3 DEF Covered, Rules

LEMMA WindowsPassChecks ==
    /\ DOMAIN WindowsPass = 1..15
    /\ WindowsPass[1] = {"defender"} /\ WindowsPass[2] = {"firewall"}
    /\ WindowsPass[3] = {"uac"} /\ WindowsPass[4] = {"bitlocker"}
    /\ WindowsPass[5] = {"smb1"} /\ WindowsPass[6] = {"secure_boot"}
    /\ WindowsPass[7] = {"execution_policy"}
    /\ WindowsPass[8] = {"credential_guard"}
    /\ WindowsPass[9] = {"version"} /\ WindowsPass[10] = {"rdp"}
    /\ WindowsPass[11] = {"listener"} /\ WindowsPass[12] = {"sniffer"}
    /\ WindowsPass[13] = {"pcap"} /\ WindowsPass[14] = {"task"}
    /\ WindowsPass[15] = {"autorun"}
BY DEF WindowsPass

LEMMA WindowsCovered == Covered(Rules["windows"], WindowsPass)
<1>1. Covered(WindowsControls, WindowsPass)
    BY WindowsPassChecks DEF Covered, WindowsControls
<1>2. Covered(WindowsServices, WindowsPass)
    BY WindowsPassChecks DEF Covered, WindowsServices
<1>3. Covered(WindowsNetwork, WindowsPass)
    BY WindowsPassChecks DEF Covered, WindowsNetwork
<1>4. Covered(WindowsPersistence, WindowsPass)
    BY WindowsPassChecks DEF Covered, WindowsPersistence
<1>5. Covered(WindowsPlatform, WindowsPass)
    BY WindowsPassChecks DEF Covered, WindowsPlatform
<1> QED BY <1>1, <1>2, <1>3, <1>4, <1>5 DEF Covered, Rules

\* No rule speaks of a kind that no check of its platform looks at.
THEOREM EveryRuleIsChecked ==
    ASSUME NEW p \in Platforms
    PROVE  Covered(Rules[p], Pass[p])
BY LinuxCovered, MacCovered, WindowsCovered DEF Platforms, Pass

\* Pass is a sequence of checks for each platform.
LEMMA PassType ==
    ASSUME NEW p \in Platforms
    PROVE  DOMAIN Pass[p] \subseteq Nat
BY LinuxPassChecks, MacPassChecks, WindowsPassChecks DEF Platforms, Pass

\* The listing of /proc is the only check of processes, and of nothing else.
LEMMA ListingLooksAtProcesses ==
    ASSUME NEW i \in DOMAIN LinuxPass, "process" \in LinuxPass[i]
    PROVE  LinuxPass[i] = {"process"}
<1>1. i \in 1..19
    BY LinuxPassChecks
<1>2. LinuxPass[12] = DOMAIN SysctlGap /\ "process" \notin DOMAIN SysctlGap
    BY LinuxPassChecks DEF SysctlGap
<1> QED BY <1>1, <1>2, LinuxPassChecks

-------------------------------------------------------------------------------
(***************************************************************************)
(* Types.                                                                  *)
(***************************************************************************)
\* What the rules say of a subject is findings, all of them about it.
LEMMA CurrentFindingsType ==
    ASSUME TypeOK, NEW h \in Hosts, NEW s \in Subjects
    PROVE  /\ CurrentFindings(h, s) \in SUBSET Finding
           /\ \A f \in CurrentFindings(h, s) : f.about = s
<1>1. setup[h].platform \in Platforms
    BY DEF TypeOK, Setup
<1>2. WellFormed(Rules[setup[h].platform])
    BY <1>1, RulesWellFormed
<1> QED
    BY <1>2 DEF CurrentFindings, FindingsOf, WellFormed, Finding

\* The verdict on a report is a status.
LEMMA VerdictType ==
    ASSUME NEW r \in [host : Hosts, no : Nat, found : SUBSET Finding,
                      stage : {"sent", "decided", "stored"}]
    PROVE  Verdict(r) \in Report
<1>1. KernelAction(r.found, Limits) \in Action
    BY DEF KernelAction, ActionFor, Action
<1> QED BY <1>1 DEF Verdict, Report

\* What a check looks at, and the checks of a pass.
LEMMA ChecksType ==
    ASSUME TypeOK, NEW h \in Hosts
    PROVE  /\ setup[h].has \subseteq Subjects
           /\ Checks(h) \subseteq Nat
           /\ \A i \in Nat : LookedAt(h, i) \subseteq setup[h].has
<1>1. setup[h].platform \in Platforms /\ setup[h].has \subseteq Subjects
    BY DEF TypeOK, Setup
<1>2. DOMAIN Pass[setup[h].platform] \subseteq Nat
    BY <1>1, PassType
<1> QED BY <1>1, <1>2 DEF Checks, LookedAt

\* The scanner of a request that is over is released, if it still waits.
LEMMA ReleasedType ==
    ASSUME TypeOK, NEW r \in requests
    PROVE  Released(r) \in [Hosts -> {"asleep", "scanning", "waiting"}]
BY DEF TypeOK, Released

LEMMA TypeInit == Init => TypeOK
<1> SUFFICES ASSUME Init PROVE TypeOK
    OBVIOUS
<1>1. setup \in [Hosts -> Setup]
    BY HostScanAssumption DEF Init
<1>2. /\ host \in [Hosts -> [Subjects -> STRING]]
      /\ \A h \in Hosts : \A s \in Subjects : host[h][s] \in Conditions[s]
    BY HostScanAssumption DEF Init
<1>3. \A h \in Hosts : passes[h] <= MaxPasses[h]
    BY HostScanAssumption DEF Init
<1>4. mishaps \in 0..MaxMishaps
    BY HostScanAssumption DEF Init
<1> QED BY <1>1, <1>2, <1>3, <1>4 DEF Init, TypeOK, Shown

LEMMA TypeNext == TypeOK /\ [Next]_vars => TypeOK'
<1> SUFFICES ASSUME TypeOK, [Next]_vars PROVE TypeOK'
    OBVIOUS
<1> USE DEF world, scanner, backend, dashboard, history
<1>1. ASSUME NEW h \in Hosts, NEW s \in Subjects, Change(h, s) PROVE TypeOK'
    <2>1. PICK c \in Conditions[s] : host' = [host EXCEPT ![h][s] = c]
        BY <1>1 DEF Change
    <2>2. c \in STRING
        BY HostScanAssumption
    <2>3. /\ host' \in [Hosts -> [Subjects -> STRING]]
          /\ \A g \in Hosts : \A u \in Subjects : host'[g][u] \in Conditions[u]
        BY <2>1, <2>2 DEF TypeOK
    <2>4. steady' \in [Hosts -> SUBSET Subjects]
        BY <1>1 DEF Change, TypeOK
    <2>5. mishaps' \in 0..MaxMishaps
        BY <1>1, HostScanAssumption DEF Change, TypeOK
    <2> QED BY <1>1, <2>3, <2>4, <2>5 DEF Change, TypeOK
<1>2. ASSUME NEW h \in Hosts, StartPass(h) PROVE TypeOK'
    <2>1. Checks(h) \subseteq Nat /\ setup[h].has \subseteq Subjects
        BY ChecksType
    <2>2. /\ passes' \in [Hosts -> Nat]
          /\ \A g \in Hosts : passes'[g] <= MaxPasses[g] /\ passes[g] <= passes'[g]
        <3>1. /\ passes \in [Hosts -> Nat] /\ MaxPasses \in [Hosts -> Nat]
              /\ \A g \in Hosts : passes[g] <= MaxPasses[g]
            BY HostScanAssumption DEF TypeOK
        <3>2. passes[h] < MaxPasses[h] /\ passes' = [passes EXCEPT ![h] = @ + 1]
            BY <1>2 DEF StartPass
        <3> QED BY <3>1, <3>2
    <2>3. /\ pending' \in [Hosts -> SUBSET Nat]
          /\ steady' \in [Hosts -> SUBSET Subjects]
          /\ found' \in [Hosts -> SUBSET Finding]
          /\ \A g \in Hosts : found'[g] \subseteq found[g]
          /\ phase' \in [Hosts -> {"asleep", "scanning", "waiting"}]
        BY <1>2, <2>1 DEF StartPass, TypeOK
    <2>4. \A r \in requests : r.no <= passes'[r.host]
        BY <2>2 DEF TypeOK
    <2>5. \A g \in Hosts : answered[g] <= passes'[g]
        BY <2>2 DEF TypeOK
    <2> QED BY <1>2, <2>2, <2>3, <2>4, <2>5 DEF StartPass, TypeOK
<1>3. ASSUME NEW h \in Hosts, NEW i \in pending[h], Check(h, i) PROVE TypeOK'
    <2>1. i \in Nat /\ LookedAt(h, i) \subseteq setup[h].has
          /\ setup[h].has \subseteq Subjects
        BY ChecksType DEF TypeOK
    <2>2. \A s \in LookedAt(h, i) :
              /\ CurrentFindings(h, s) \in SUBSET Finding
              /\ \A f \in CurrentFindings(h, s) : f.about = s
        BY <2>1, CurrentFindingsType
    <2> DEFINE new == UNION {CurrentFindings(h, s) : s \in LookedAt(h, i)}
    <2>3. new \in SUBSET Finding /\ \A f \in new : f.about \in setup[h].has
        BY <2>1, <2>2
    <2>4. found' = [found EXCEPT ![h] = @ \cup new]
        BY <1>3 DEF Check
    <2> HIDE DEF new
    <2>5. /\ found' \in [Hosts -> SUBSET Finding]
          /\ \A g \in Hosts : \A f \in found'[g] : f.about \in setup[g].has
        BY <2>3, <2>4 DEF TypeOK
    <2>6. pending' \in [Hosts -> SUBSET Nat]
        BY <1>3 DEF Check, Due, TypeOK
    <2> QED BY <1>3, <2>5, <2>6 DEF Check, Due, TypeOK
<1>4. ASSUME NEW h \in Hosts, NEW i \in pending[h], ListProcesses(h, i)
      PROVE TypeOK'
    <2>1. LookedAt(h, i) \subseteq Subjects /\ LookedAt(h, i) \subseteq setup[h].has
        BY ChecksType DEF TypeOK
    <2>2. /\ listed' \in [Hosts -> SUBSET Subjects]
          /\ \A g \in Hosts : listed'[g] \subseteq setup[g].has
        BY <1>4, <2>1 DEF ListProcesses, TypeOK
    <2>3. pending' \in [Hosts -> SUBSET Nat]
        BY <1>4 DEF ListProcesses, Due, TypeOK
    <2> QED BY <1>4, <2>2, <2>3 DEF ListProcesses, Due, TypeOK
<1>5. ASSUME NEW h \in Hosts, NEW s \in listed[h], ReadStatus(h, s)
      PROVE  TypeOK'
    <2>1. s \in Subjects /\ s \in setup[h].has
        BY DEF TypeOK
    <2>2. Hidden(s) \in Finding /\ Hidden(s).about = s
        BY <2>1 DEF Hidden, Finding, Categories, Severities
    <2>3. /\ found' \in [Hosts -> SUBSET Finding]
          /\ \A g \in Hosts : \A f \in found'[g] : f.about \in setup[g].has
        BY <1>5, <2>1, <2>2 DEF ReadStatus, TypeOK
    <2>4. /\ listed' \in [Hosts -> SUBSET Subjects]
          /\ \A g \in Hosts : listed'[g] \subseteq listed[g]
        BY <1>5 DEF ReadStatus, TypeOK
    <2> QED BY <1>5, <2>3, <2>4 DEF ReadStatus, TypeOK
<1>6. ASSUME NEW h \in Hosts, Post(h) PROVE TypeOK'
    <2>1. [host |-> h, no |-> passes[h], found |-> found[h], stage |-> "sent"]
              \in [host : Hosts, no : Nat, found : SUBSET Finding,
                   stage : {"sent", "decided", "stored"}]
        BY DEF TypeOK
    <2>2. /\ phase' \in [Hosts -> {"asleep", "scanning", "waiting"}]
          /\ passes' = passes
        BY <1>6 DEF Post, TypeOK
    <2>3. \A r \in requests' :
              /\ r \in [host : Hosts, no : Nat, found : SUBSET Finding,
                        stage : {"sent", "decided", "stored"}]
              /\ r.no <= passes'[r.host]
        BY <1>6, <2>1, <2>2 DEF Post, TypeOK
    <2> QED BY <1>6, <2>2, <2>3 DEF Post, TypeOK
<1>7. ASSUME NEW h \in Hosts, Timeout(h) PROVE TypeOK'
    <2>1. mishaps' \in 0..MaxMishaps
        BY <1>7, HostScanAssumption DEF Timeout, TypeOK
    <2>2. <<h, passes[h]>> \in Hosts \X Nat
        BY DEF TypeOK
    <2> QED BY <1>7, <2>1, <2>2 DEF Timeout, TypeOK
<1>8. ASSUME NEW r \in requests, Refuse(r) PROVE TypeOK'
    BY <1>8, ReleasedType DEF Refuse, TypeOK
<1>9. ASSUME NEW r \in requests, Decide(r) PROVE TypeOK'
    <2>1. \A q \in requests' :
              /\ q \in [host : Hosts, no : Nat, found : SUBSET Finding,
                        stage : {"sent", "decided", "stored"}]
              /\ q.no <= passes[q.host]
        BY <1>9 DEF Decide, Advanced, TypeOK
    <2>2. Verdict(r) \in Report
        BY VerdictType DEF TypeOK
    <2> QED BY <1>9, <2>1, <2>2 DEF Decide, TypeOK
<1>10. ASSUME NEW r \in requests, SetStatus(r) PROVE TypeOK'
    <2>1. \A q \in requests' :
              /\ q \in [host : Hosts, no : Nat, found : SUBSET Finding,
                        stage : {"sent", "decided", "stored"}]
              /\ q.no <= passes[q.host]
        BY <1>10 DEF SetStatus, Advanced, TypeOK
    <2>2. Verdict(r) \in Report
        BY VerdictType DEF TypeOK
    <2> QED BY <1>10, <2>1, <2>2 DEF SetStatus, TypeOK, Shown
<1>11. ASSUME NEW r \in requests, Answer(r) PROVE TypeOK'
    <2>1. /\ answered' \in [Hosts -> Nat]
          /\ \A h \in Hosts : answered'[h] <= passes[h]
        BY <1>11 DEF Answer, TypeOK
    <2> QED BY <1>11, <2>1, ReleasedType DEF Answer, TypeOK
<1>12. ASSUME NEW r \in requests, Fails(r) PROVE TypeOK'
    <2>1. mishaps' \in 0..MaxMishaps
        BY <1>12, HostScanAssumption DEF Fails, TypeOK
    <2>2. <<r.host, r.no>> \in Hosts \X Nat
        BY DEF TypeOK
    <2> QED BY <1>12, <2>1, <2>2, ReleasedType DEF Fails, TypeOK
<1>13. ASSUME NEW i \in Polls, Poll(i) PROVE TypeOK'
    BY <1>13 DEF Poll, TypeOK
<1>14. ASSUME NEW i \in Polls, Arrive(i) PROVE TypeOK'
    BY <1>14 DEF Arrive, TypeOK
<1>15. ASSUME NEW i \in Polls, PollFails(i) PROVE TypeOK'
    <2>1. mishaps' \in 0..MaxMishaps
        BY <1>15, HostScanAssumption DEF PollFails, TypeOK
    <2> QED BY <1>15, <2>1 DEF PollFails, TypeOK
<1>16. CASE UNCHANGED vars
    BY <1>16 DEF vars, TypeOK
<1>17. ASSUME NEW h \in Hosts, PostRaises(h) PROVE TypeOK'
    BY <1>17 DEF PostRaises, TypeOK
<1> QED
    BY <1>1, <1>2, <1>3, <1>4, <1>5, <1>6, <1>7, <1>8, <1>9, <1>10, <1>11,
       <1>12, <1>13, <1>14, <1>15, <1>16, <1>17
    DEF Next, ScannerNext, ScannerStep, RunCheck, BackendNext, Serve,
        DashboardNext, Fetch

(***************************************************************************)
(* The type invariant; a report never names a subject the host has not     *)
(* got.                                                                    *)
(***************************************************************************)
THEOREM TypeCorrect == Spec => []TypeOK
BY TypeInit, TypeNext, PTL DEF Spec

-------------------------------------------------------------------------------
(***************************************************************************)
(* What a pass reports.  Outside a pass nothing is left to be looked at,   *)
(* and what waits to be read are processes that were listed: one that      *)
(* stayed as it was is still there.                                        *)
(***************************************************************************)
Resting ==
    \A h \in Hosts :
        /\ phase[h] # "scanning" => pending[h] = {} /\ listed[h] = {}
        /\ passes[h] = 0 => phase[h] = "asleep"
        /\ steady[h] \subseteq setup[h].has
        /\ pending[h] \subseteq DOMAIN Pass[setup[h].platform]

Reading ==
    \A h \in Hosts : \A s \in listed[h] :
        /\ setup[h].platform = "linux" /\ KindOf[s] = "process"
        /\ s \in steady[h] => host[h][s] # "none"

PassInv == TypeOK /\ Resting /\ Reading /\ SteadyIsExact

\* A hidden process is one finding, any other none.
LEMMA ProcessFindings ==
    ASSUME TypeOK, NEW h \in Hosts, NEW s \in Subjects,
           setup[h].platform = "linux", KindOf[s] = "process"
    PROVE  CurrentFindings(h, s) = IF host[h][s] = "hidden" THEN {Hidden(s)}
                                   ELSE {}
<1> DEFINE hidden == <<"process", "hidden", "rootkit", "critical">>
<1>1. hidden \in Rules["linux"]
    BY DEF Rules, LinuxRootkit
<1>2. \A x \in Rules["linux"] : x[1] = "process" => x = hidden
    BY ProcessRules
<1>3. hidden[1] = "process" /\ hidden[2] = "hidden"
      /\ hidden[3] = "rootkit" /\ hidden[4] = "critical"
    OBVIOUS
<1> HIDE DEF hidden
<1>4. {x \in Rules["linux"] : x[1] = "process" /\ x[2] = host[h][s]}
          = IF host[h][s] = "hidden" THEN {hidden} ELSE {}
    BY <1>1, <1>2, <1>3
<1> QED BY <1>3, <1>4 DEF CurrentFindings, FindingsOf, Hidden

\* A subject of no check's kinds is never a finding.
LEMMA UncheckedHasNoFindings ==
    ASSUME TypeOK, NEW h \in Hosts, NEW s \in setup[h].has,
           setup[h].scanner = setup[h].platform,
           \A i \in Checks(h) : s \notin LookedAt(h, i)
    PROVE  CurrentFindings(h, s) = {}
<1>1. setup[h].platform \in Platforms
    BY DEF TypeOK, Setup
<1>2. Covered(Rules[setup[h].platform], Pass[setup[h].platform])
    BY <1>1, EveryRuleIsChecked
<1>3. \A i \in DOMAIN Pass[setup[h].platform] :
          KindOf[s] \notin Pass[setup[h].platform][i]
    BY DEF Checks, LookedAt
<1>4. \A x \in Rules[setup[h].platform] : x[1] # KindOf[s]
    BY <1>2, <1>3 DEF Covered
<1> QED BY <1>4 DEF CurrentFindings, FindingsOf

LEMMA PassInit == Init => PassInv
<1> SUFFICES ASSUME Init PROVE PassInv
    OBVIOUS
<1>1. TypeOK
    BY TypeInit
<1>2. Resting /\ Reading
    BY DEF Init, Resting, Reading
<1>3. SteadyIsExact
    BY DEF Init, SteadyIsExact
<1> QED BY <1>1, <1>2, <1>3 DEF PassInv

\* What a pass reports depends on the host and the scanner alone.
LEMMA PassUntouched ==
    ASSUME PassInv, TypeOK', UNCHANGED <<world, passes, pending, listed, found>>,
           \A h \in Hosts : \/ phase'[h] = phase[h]
                            \/ phase[h] = "waiting" /\ phase'[h] = "asleep"
    PROVE  PassInv'
<1>1. Resting' /\ Reading'
    BY DEF PassInv, Resting, Reading, world
<1>2. \A h \in Hosts, s \in Subjects :
          /\ CurrentFindings(h, s)' = CurrentFindings(h, s)
          /\ DoneWith(h, s)' = DoneWith(h, s)
    BY DEF CurrentFindings, DoneWith, LookedAt, world
<1>3. \A h \in Hosts : steady[h] \subseteq Subjects
    BY DEF PassInv, TypeOK
<1>4. SteadyIsExact'
    BY <1>2, <1>3 DEF PassInv, SteadyIsExact, world
<1> QED BY <1>1, <1>4 DEF PassInv

\* Other subjects are as they were, and their findings with them.
LEMMA PassChange ==
    ASSUME PassInv, TypeOK', NEW h \in Hosts, NEW s \in Subjects, Change(h, s)
    PROVE  PassInv'
<1> USE DEF scanner, backend, dashboard, history
<1>1. PICK c \in Conditions[s] : host' = [host EXCEPT ![h][s] = c]
    BY DEF Change
<1>2. /\ setup' = setup /\ phase' = phase /\ passes' = passes
      /\ pending' = pending /\ listed' = listed /\ found' = found
      /\ steady' = [steady EXCEPT ![h] = @ \ {s}]
    BY DEF Change
<1>3. \A g \in Hosts : /\ steady'[g] \subseteq steady[g]
                       /\ steady[g] \subseteq Subjects
                       /\ listed[g] \subseteq Subjects
                       /\ s \notin steady'[h]
    BY <1>2 DEF PassInv, TypeOK
<1>4. \A g \in Hosts : \A u \in Subjects :
          g # h \/ u # s => host'[g][u] = host[g][u]
    BY <1>1 DEF PassInv, TypeOK
<1>5. Resting'
    BY <1>2, <1>3 DEF PassInv, Resting
<1>6. Reading'
    BY <1>2, <1>3, <1>4 DEF PassInv, Reading
<1>7. \A g \in Hosts : \A u \in steady'[g] :
          CurrentFindings(g, u)' = CurrentFindings(g, u)
    BY <1>2, <1>3, <1>4 DEF CurrentFindings
<1>8. \A g \in Hosts : \A u \in Subjects : DoneWith(g, u)' = DoneWith(g, u)
    BY <1>2 DEF DoneWith, LookedAt
<1>9. SteadyIsExact'
    BY <1>2, <1>3, <1>7, <1>8 DEF PassInv, SteadyIsExact
<1> QED BY <1>5, <1>6, <1>9 DEF PassInv

\* A pass begins with nothing found and every check before it.
LEMMA PassStart ==
    ASSUME PassInv, TypeOK', NEW h \in Hosts, StartPass(h)
    PROVE  PassInv'
<1> USE DEF backend, dashboard, history
<1>1. /\ setup' = setup /\ host' = host /\ listed' = listed
      /\ phase' = [phase EXCEPT ![h] = "scanning"]
      /\ passes' = [passes EXCEPT ![h] = @ + 1]
      /\ pending' = [pending EXCEPT ![h] = Checks(h)]
      /\ found' = [found EXCEPT ![h] = {}]
      /\ steady' = [steady EXCEPT ![h] = setup[h].has]
    BY DEF StartPass
<1>2. /\ phase \in [Hosts -> {"asleep", "scanning", "waiting"}]
      /\ passes \in [Hosts -> Nat] /\ pending \in [Hosts -> SUBSET Nat]
      /\ found \in [Hosts -> SUBSET Finding]
      /\ steady \in [Hosts -> SUBSET Subjects]
      /\ \A g \in Hosts : setup[g].has \subseteq Subjects
    BY ChecksType DEF PassInv, TypeOK
<1>3. listed[h] = {}
    BY DEF PassInv, Resting, StartPass
<1>4. \A g \in Hosts : \A u \in Subjects :
          CurrentFindings(g, u)' = CurrentFindings(g, u)
    BY <1>1 DEF CurrentFindings
<1>5. Resting'
    <2>1. Checks(h) \subseteq DOMAIN Pass[setup[h].platform]
        BY DEF Checks
    <2> QED BY <1>1, <1>2, <2>1 DEF PassInv, Resting
<1>6. Reading'
    <2>1. \A g \in Hosts : g # h => steady'[g] = steady[g]
        BY <1>1, <1>2
    <2> QED BY <1>1, <1>3, <2>1 DEF PassInv, Reading
<1>7. SteadyIsExact'
    <2> SUFFICES ASSUME NEW g \in Hosts, passes'[g] > 0,
                        setup[g].scanner = setup[g].platform,
                        NEW u \in steady'[g]
                 PROVE  /\ {f \in found'[g] : f.about = u}
                               \subseteq CurrentFindings(g, u)
                        /\ DoneWith(g, u)' =>
                               CurrentFindings(g, u) \subseteq found'[g]
        <3>1. \A g \in Hosts : steady'[g] \subseteq Subjects
            BY <1>1, <1>2
        <3> QED BY <1>1, <1>4, <3>1 DEF SteadyIsExact
    <2>1. CASE g = h
        <3>1. found'[g] = {} /\ pending'[g] = Checks(g) /\ u \in setup[g].has
            BY <1>1, <1>2, <2>1
        <3>2. DoneWith(g, u)' => \A i \in Checks(g) : u \notin LookedAt(g, i)
            BY <1>1, <3>1 DEF DoneWith, LookedAt
        <3>3. DoneWith(g, u)' => CurrentFindings(g, u) = {}
            BY <3>1, <3>2, UncheckedHasNoFindings DEF PassInv
        <3> QED BY <3>1, <3>3
    <2>2. CASE g # h
        <3>1. /\ found'[g] = found[g] /\ pending'[g] = pending[g]
              /\ steady'[g] = steady[g] /\ passes'[g] = passes[g]
            BY <1>1, <1>2, <2>2
        <3>2. DoneWith(g, u)' = DoneWith(g, u)
            BY <1>1, <3>1 DEF DoneWith, LookedAt
        <3> QED BY <3>1, <3>2 DEF PassInv, SteadyIsExact
    <2> QED BY <2>1, <2>2
<1> QED BY <1>5, <1>6, <1>7 DEF PassInv

\* A check leaves the findings of what it looked at with the others.
LEMMA PassCheck ==
    ASSUME PassInv, TypeOK', NEW h \in Hosts, NEW i \in pending[h], Check(h, i)
    PROVE  PassInv'
<1> USE DEF backend, dashboard, history, world
<1> DEFINE new == UNION {CurrentFindings(h, s) : s \in LookedAt(h, i)}
<1>1. /\ setup' = setup /\ host' = host /\ listed' = listed
      /\ phase' = phase /\ passes' = passes /\ steady' = steady
      /\ pending' = [pending EXCEPT ![h] = @ \ {i}]
      /\ found' = [found EXCEPT ![h] = @ \cup new]
    BY DEF Check, Due
<1>2. /\ pending \in [Hosts -> SUBSET Nat]
      /\ found \in [Hosts -> SUBSET Finding]
      /\ steady \in [Hosts -> SUBSET Subjects]
      /\ LookedAt(h, i) \subseteq Subjects
    BY ChecksType DEF PassInv, TypeOK
<1>3. \A g \in Hosts : \A u \in Subjects :
          CurrentFindings(g, u)' = CurrentFindings(g, u)
    BY <1>1 DEF CurrentFindings
<1>4. \A s \in LookedAt(h, i) : \A f \in CurrentFindings(h, s) : f.about = s
    BY <1>2, CurrentFindingsType DEF PassInv
<1>5. \A s \in LookedAt(h, i) : CurrentFindings(h, s) \subseteq new
    OBVIOUS
<1>6. \A f \in new : f \in CurrentFindings(h, f.about)
    BY <1>4
<1> HIDE DEF new
<1>7. Resting' /\ Reading'
    BY <1>1, <1>2 DEF PassInv, Resting, Reading
<1>8. SteadyIsExact'
    <2> SUFFICES ASSUME NEW g \in Hosts, passes[g] > 0,
                        setup[g].scanner = setup[g].platform,
                        NEW u \in steady[g]
                 PROVE  /\ {f \in found'[g] : f.about = u}
                               \subseteq CurrentFindings(g, u)
                        /\ DoneWith(g, u)' =>
                               CurrentFindings(g, u) \subseteq found'[g]
        BY <1>1, <1>2, <1>3 DEF SteadyIsExact
    <2>1. /\ {f \in found[g] : f.about = u} \subseteq CurrentFindings(g, u)
          /\ DoneWith(g, u) => CurrentFindings(g, u) \subseteq found[g]
        BY DEF PassInv, SteadyIsExact
    <2>2. CASE g = h
        <3>1. found'[g] = found[g] \cup new /\ pending'[g] = pending[g] \ {i}
            BY <1>1, <1>2, <2>2
        <3>2. CASE u \in LookedAt(h, i)
            BY <1>5, <1>6, <2>1, <2>2, <3>1, <3>2
        <3>3. CASE u \notin LookedAt(h, i)
            <4>1. DoneWith(g, u)' => DoneWith(g, u)
                BY <1>1, <2>2, <3>1, <3>3 DEF DoneWith, LookedAt
            <4> QED BY <1>6, <2>1, <2>2, <3>1, <4>1
        <3> QED BY <3>2, <3>3
    <2>3. CASE g # h
        <3>1. found'[g] = found[g] /\ pending'[g] = pending[g]
            BY <1>1, <1>2, <2>3
        <3>2. DoneWith(g, u)' = DoneWith(g, u)
            BY <1>1, <3>1 DEF DoneWith, LookedAt
        <3> QED BY <2>1, <3>1, <3>2
    <2> QED BY <2>2, <2>3
<1> QED BY <1>7, <1>8 DEF PassInv

\* The listing has everything but what is not there, of which nothing is said.
LEMMA PassList ==
    ASSUME PassInv, TypeOK', NEW h \in Hosts, NEW i \in pending[h],
           ListProcesses(h, i)
    PROVE  PassInv'
<1> USE DEF backend, dashboard, history, world
<1> DEFINE there == {s \in LookedAt(h, i) : host[h][s] # "none"}
<1>1. /\ setup' = setup /\ host' = host /\ found' = found
      /\ phase' = phase /\ passes' = passes /\ steady' = steady
      /\ pending' = [pending EXCEPT ![h] = @ \ {i}]
      /\ listed' = [listed EXCEPT ![h] = there]
      /\ phase[h] = "scanning" /\ listed[h] = {}
    BY DEF ListProcesses, Due
<1>2. /\ pending \in [Hosts -> SUBSET Nat]
      /\ listed \in [Hosts -> SUBSET Subjects]
      /\ steady \in [Hosts -> SUBSET Subjects]
      /\ LookedAt(h, i) \subseteq Subjects
    BY ChecksType DEF PassInv, TypeOK
<1>3. /\ setup[h].platform = "linux"
      /\ \A s \in LookedAt(h, i) : KindOf[s] = "process"
    <2>1. setup[h].platform = "linux" /\ i \in DOMAIN LinuxPass
          /\ "process" \in LinuxPass[i]
        BY DEF PassInv, Resting, ListProcesses, IsListing, Pass
    <2>2. LinuxPass[i] = {"process"}
        BY <2>1, ListingLooksAtProcesses
    <2> QED BY <2>1, <2>2 DEF LookedAt, Pass
<1>4. \A s \in LookedAt(h, i) : host[h][s] = "none" =>
          CurrentFindings(h, s) = {}
    BY <1>2, <1>3, ProcessFindings DEF PassInv
<1>5. \A s : s \in there <=> s \in LookedAt(h, i) /\ host[h][s] # "none"
    OBVIOUS
<1> HIDE DEF there
<1>6. Resting'
    BY <1>1, <1>2 DEF PassInv, Resting
<1>7. Reading'
    BY <1>1, <1>2, <1>3, <1>5 DEF PassInv, Reading
<1>8. SteadyIsExact'
    <2> SUFFICES ASSUME NEW g \in Hosts, passes[g] > 0,
                        setup[g].scanner = setup[g].platform,
                        NEW u \in steady[g]
                 PROVE  /\ {f \in found[g] : f.about = u}
                               \subseteq CurrentFindings(g, u)
                        /\ DoneWith(g, u)' =>
                               CurrentFindings(g, u) \subseteq found[g]
        <3>1. \A g \in Hosts : \A u \in Subjects :
                  CurrentFindings(g, u)' = CurrentFindings(g, u)
            BY <1>1 DEF CurrentFindings
        <3> QED BY <1>1, <1>2, <3>1 DEF SteadyIsExact
    <2>1. /\ {f \in found[g] : f.about = u} \subseteq CurrentFindings(g, u)
          /\ DoneWith(g, u) => CurrentFindings(g, u) \subseteq found[g]
        BY DEF PassInv, SteadyIsExact
    <2>2. CASE g = h
        <3>1. listed'[g] = there /\ pending'[g] = pending[g] \ {i}
            BY <1>1, <1>2, <2>2
        <3>2. CASE u \in LookedAt(h, i)
            <4>1. DoneWith(g, u)' => u \notin there
                BY <2>2, <3>1 DEF DoneWith
            <4> QED BY <1>4, <1>5, <2>1, <2>2, <3>2, <4>1
        <3>3. CASE u \notin LookedAt(h, i)
            <4>1. DoneWith(g, u)' => DoneWith(g, u)
                BY <1>1, <2>2, <3>1, <3>3 DEF DoneWith, LookedAt
            <4> QED BY <2>1, <4>1
        <3> QED BY <3>2, <3>3
    <2>3. CASE g # h
        <3>1. listed'[g] = listed[g] /\ pending'[g] = pending[g]
            BY <1>1, <1>2, <2>3
        <3>2. DoneWith(g, u)' = DoneWith(g, u)
            BY <1>1, <3>1 DEF DoneWith, LookedAt
        <3> QED BY <2>1, <3>2
    <2> QED BY <2>2, <2>3
<1> QED BY <1>6, <1>7, <1>8 DEF PassInv

\* A process without a status file is called hidden; one that stayed as it was
\* since the pass began is.
LEMMA PassRead ==
    ASSUME PassInv, TypeOK', NEW h \in Hosts, NEW s \in listed[h],
           ReadStatus(h, s)
    PROVE  PassInv'
<1> USE DEF backend, dashboard, history, world
<1>1. /\ setup' = setup /\ host' = host /\ pending' = pending
      /\ phase' = phase /\ passes' = passes /\ steady' = steady
      /\ listed' = [listed EXCEPT ![h] = @ \ {s}]
      /\ found' = IF host[h][s] \in {"hidden", "none"}
                  THEN [found EXCEPT ![h] = @ \cup {Hidden(s)}] ELSE found
    BY DEF ReadStatus
<1>2. /\ listed \in [Hosts -> SUBSET Subjects]
      /\ found \in [Hosts -> SUBSET Finding]
      /\ steady \in [Hosts -> SUBSET Subjects]
      /\ s \in Subjects
    BY DEF PassInv, TypeOK
<1>3. /\ CurrentFindings(h, s) = IF host[h][s] = "hidden" THEN {Hidden(s)}
                                 ELSE {}
      /\ s \in steady[h] => host[h][s] # "none"
      /\ Hidden(s).about = s
    BY <1>2, ProcessFindings DEF PassInv, Reading, Hidden
<1>4. Resting' /\ Reading'
    BY <1>1, <1>2 DEF PassInv, Resting, Reading
<1>5. SteadyIsExact'
    <2> SUFFICES ASSUME NEW g \in Hosts, passes[g] > 0,
                        setup[g].scanner = setup[g].platform,
                        NEW u \in steady[g]
                 PROVE  /\ {f \in found'[g] : f.about = u}
                               \subseteq CurrentFindings(g, u)
                        /\ DoneWith(g, u)' =>
                               CurrentFindings(g, u) \subseteq found'[g]
        <3>1. \A g \in Hosts : \A u \in Subjects :
                  CurrentFindings(g, u)' = CurrentFindings(g, u)
            BY <1>1 DEF CurrentFindings
        <3> QED BY <1>1, <1>2, <3>1 DEF SteadyIsExact
    <2>1. /\ {f \in found[g] : f.about = u} \subseteq CurrentFindings(g, u)
          /\ DoneWith(g, u) => CurrentFindings(g, u) \subseteq found[g]
        BY DEF PassInv, SteadyIsExact
    <2>2. found[g] \subseteq found'[g]
        BY <1>1, <1>2
    <2>3. CASE g = h /\ u = s
        <3>1. found'[g] = IF host[h][s] = "hidden"
                          THEN found[g] \cup {Hidden(s)} ELSE found[g]
            BY <1>1, <1>2, <1>3, <2>3
        <3> QED BY <1>3, <2>1, <2>3, <3>1
    <2>4. CASE ~(g = h /\ u = s)
        <3>1. {f \in found'[g] : f.about = u} = {f \in found[g] : f.about = u}
            BY <1>1, <1>2, <1>3, <2>4
        <3>2. DoneWith(g, u)' => DoneWith(g, u)
            BY <1>1, <1>2, <2>4 DEF DoneWith, LookedAt
        <3> QED BY <2>1, <2>2, <3>1, <3>2
    <2> QED BY <2>3, <2>4
<1> QED BY <1>4, <1>5 DEF PassInv

\* The report goes out, or not, when nothing is left to be looked at.
LEMMA PassPost ==
    ASSUME PassInv, TypeOK', NEW h \in Hosts, Post(h) \/ PostRaises(h)
    PROVE  PassInv'
<1> USE DEF dashboard, history, world
<1>1. /\ UNCHANGED <<world, passes, pending, listed, found>>
      /\ \/ phase' = [phase EXCEPT ![h] = "waiting"]
         \/ phase' = [phase EXCEPT ![h] = "asleep"]
      /\ phase[h] = "scanning" /\ pending[h] = {} /\ listed[h] = {}
    BY DEF Post, PostRaises, PassEnded
<1>2. Resting' /\ Reading'
    BY <1>1 DEF PassInv, TypeOK, Resting, Reading
<1>3. \A g \in Hosts, u \in Subjects :
          /\ CurrentFindings(g, u)' = CurrentFindings(g, u)
          /\ DoneWith(g, u)' = DoneWith(g, u)
    BY <1>1 DEF CurrentFindings, DoneWith, LookedAt
<1>4. \A g \in Hosts : steady[g] \subseteq Subjects
    BY DEF PassInv, TypeOK
<1>5. SteadyIsExact'
    BY <1>1, <1>3, <1>4 DEF PassInv, SteadyIsExact
<1> QED BY <1>2, <1>5 DEF PassInv

LEMMA PassNext == PassInv /\ [Next]_vars => PassInv'
<1> SUFFICES ASSUME PassInv, [Next]_vars PROVE PassInv'
    OBVIOUS
<1>1. TypeOK'
    BY TypeNext DEF PassInv
<1>2. ASSUME NEW h \in Hosts, NEW s \in Subjects, Change(h, s)
      PROVE  PassInv'
    BY <1>1, <1>2, PassChange
<1>3. ASSUME NEW h \in Hosts, ScannerStep(h) PROVE PassInv'
    BY <1>1, <1>3, PassStart, PassCheck, PassList, PassRead, PassPost
    DEF ScannerStep, RunCheck
<1>4. ASSUME NEW h \in Hosts, Timeout(h) PROVE PassInv'
    <2>1. /\ UNCHANGED <<world, passes, pending, listed, found>>
          /\ phase' = [phase EXCEPT ![h] = "asleep"] /\ phase[h] = "waiting"
        BY <1>4 DEF Timeout, backend, dashboard, world
    <2>2. \A g \in Hosts : \/ phase'[g] = phase[g]
                           \/ phase[g] = "waiting" /\ phase'[g] = "asleep"
        BY <2>1 DEF PassInv, TypeOK
    <2> QED BY <1>1, <2>1, <2>2, PassUntouched
<1>5. ASSUME NEW r \in requests, Serve(r) \/ Fails(r) PROVE PassInv'
    <2>1. /\ UNCHANGED <<world, passes, pending, listed, found>>
          /\ phase' = Released(r) \/ phase' = phase
        BY <1>5 DEF Serve, Refuse, Decide, SetStatus, Answer, Fails, scanner,
                    dashboard, history
    <2>2. \A g \in Hosts : \/ phase'[g] = phase[g]
                           \/ phase[g] = "waiting" /\ phase'[g] = "asleep"
        BY <2>1 DEF PassInv, TypeOK, Released, Waits
    <2> QED BY <1>1, <2>1, <2>2, PassUntouched
<1>6. ASSUME \/ \E i \in Polls : Fetch(i) \/ PollFails(i)
             \/ UNCHANGED vars
      PROVE  PassInv'
    <2>1. UNCHANGED <<world, scanner>>
        BY <1>6 DEF Fetch, Poll, Arrive, PollFails, vars
    <2>2. UNCHANGED <<world, passes, pending, listed, found>> /\ phase' = phase
        BY <2>1 DEF scanner
    <2> QED BY <1>1, <2>2, PassUntouched
<1> QED
    BY <1>2, <1>3, <1>4, <1>5, <1>6 DEF Next, ScannerNext, BackendNext,
                                        DashboardNext

LEMMA PassInvariant == Spec => []PassInv
BY PassInit, PassNext, PTL DEF Spec

(***************************************************************************)
(* Whatever happens on a host while it is scanned, what a scan says of a   *)
(* subject that stayed as it was is exactly what the rules say of it.      *)
(***************************************************************************)
THEOREM SteadyHolds == Spec => []SteadyIsExact
<1>1. PassInv => SteadyIsExact
    BY DEF PassInv
<1> QED BY <1>1, PassInvariant, PTL

-------------------------------------------------------------------------------
(***************************************************************************)
(* What becomes of the reports.  A report the backend still works on is    *)
(* either awaited by its scanner or given up, it carries what its pass     *)
(* found, and what the backend has done for it is on record.  The report   *)
(* of a host's last pass is somewhere: on its way, decided upon, refused,  *)
(* lost or never sent.                                                     *)
(***************************************************************************)
Known(r) == Waits(r) \/ <<r.host, r.no>> \in abandoned

OnRecord(h, n, reported) ==
    \E d \in decided : d.host = h /\ d.no = n /\ d.found = reported

Outstanding ==
    \A r \in requests :
        /\ Known(r)
        /\ phase[r.host] = "scanning" => r.no < passes[r.host]
        /\ r.no = passes[r.host] => r.found = found[r.host]
        /\ r.stage # "sent" => OnRecord(r.host, r.no, r.found)
        /\ (r.stage = "stored" /\ status # NoStatus /\ status.host = r.host) =>
              (status.no >= r.no \/ <<status.host, status.no>> \in abandoned)

Unique == \A r, q \in requests : r.host = q.host /\ r.no = q.no => r = q

Underway(h) == \E r \in requests : r.host = h /\ r.no = passes[h]

Settled(h) == \/ <<h, passes[h]>> \in failed
              \/ Refused(h, found[h])
              \/ CannotSign(h)
              \/ OnRecord(h, passes[h], found[h])

Accounted ==
    \A h \in Hosts :
        /\ phase[h] = "waiting" => Underway(h)
        /\ phase[h] = "asleep" /\ passes[h] > 0 => Underway(h) \/ Settled(h)

ReportInv == Outstanding /\ Unique /\ Accounted /\ StatusKeepsAnswered

LEMMA ReportInit == Init => ReportInv
BY DEF Init, ReportInv, Outstanding, Unique, Accounted, StatusKeepsAnswered

\* Steps that leave the reports and the scanners' results alone.
LEMMA ReportUntouched ==
    ASSUME ReportInv, TypeOK,
           UNCHANGED <<setup, phase, passes, requests, decided, status, answered,
                       abandoned, failed>>,
           \A h \in Hosts : phase[h] # "scanning" => found'[h] = found[h]
    PROVE  ReportInv'
<1>1. \A r \in requests : r.host \in Hosts /\ r.no \in Nat
    BY DEF TypeOK
<1>2. Outstanding'
    <2>1. \A r \in requests : r.no = passes[r.host] => found'[r.host] = found[r.host]
        BY <1>1 DEF ReportInv, Outstanding, TypeOK
    <2> QED BY <1>1, <2>1 DEF ReportInv, Outstanding, Known, Waits, OnRecord
<1>3. Accounted'
    BY DEF ReportInv, Accounted, Underway, Settled, Refused, CannotSign, OnRecord
<1> QED
    BY <1>2, <1>3 DEF ReportInv, Unique, StatusKeepsAnswered

\* A new pass; the reports of the ones before, given up, stay behind it.
LEMMA ReportStart ==
    ASSUME ReportInv, TypeOK, NEW h \in Hosts, StartPass(h)
    PROVE  ReportInv'
<1> USE DEF backend, dashboard, history
<1>1. /\ UNCHANGED <<setup, requests, decided, status, answered, abandoned,
                     failed>>
      /\ phase[h] = "asleep" /\ phase' = [phase EXCEPT ![h] = "scanning"]
      /\ passes' = [passes EXCEPT ![h] = @ + 1]
      /\ found' = [found EXCEPT ![h] = {}]
    BY DEF StartPass
<1>2. /\ phase \in [Hosts -> {"asleep", "scanning", "waiting"}]
      /\ passes \in [Hosts -> Nat] /\ found \in [Hosts -> SUBSET Finding]
      /\ \A r \in requests : /\ r.host \in Hosts /\ r.no \in Nat
                             /\ r.no <= passes[r.host]
    BY DEF TypeOK
<1>3. \A r \in requests : r.host = h =>
          <<r.host, r.no>> \in abandoned /\ r.no < passes'[h]
    BY <1>1, <1>2 DEF ReportInv, Outstanding, Known, Waits
<1>4. \A g \in Hosts : g # h =>
          phase'[g] = phase[g] /\ passes'[g] = passes[g] /\ found'[g] = found[g]
    BY <1>1, <1>2
<1>5. Outstanding'
    <2> SUFFICES ASSUME NEW r \in requests
                 PROVE  /\ Known(r)'
                        /\ phase'[r.host] = "scanning" => r.no < passes'[r.host]
                        /\ r.no = passes'[r.host] => r.found = found'[r.host]
                        /\ r.stage # "sent" => OnRecord(r.host, r.no, r.found)
                        /\ (/\ r.stage = "stored" /\ status # NoStatus
                            /\ status.host = r.host) =>
                              (\/ status.no >= r.no
                               \/ <<status.host, status.no>> \in abandoned)
        BY <1>1 DEF Outstanding, OnRecord
    <2>1. CASE r.host = h
        BY <1>1, <1>2, <1>3, <2>1 DEF ReportInv, Outstanding, Known
    <2>2. CASE r.host # h
        BY <1>1, <1>2, <1>4, <2>2 DEF ReportInv, Outstanding, Known, Waits
    <2> QED BY <2>1, <2>2
<1>6. Accounted'
    BY <1>1, <1>2, <1>4 DEF ReportInv, Accounted, Underway, Settled, Refused, CannotSign,
                            OnRecord
<1> QED
    BY <1>1, <1>5, <1>6 DEF ReportInv, Unique, StatusKeepsAnswered

\* The report of a pass goes out once.
LEMMA ReportPost ==
    ASSUME ReportInv, TypeOK, NEW h \in Hosts, Post(h)
    PROVE  ReportInv'
<1>0. PICK new : new = [host |-> h, no |-> passes[h], found |-> found[h],
                        stage |-> "sent"]
    OBVIOUS
<1>1. /\ UNCHANGED <<setup, passes, found, decided, status, answered, abandoned,
                     failed>>
      /\ phase[h] = "scanning" /\ phase' = [phase EXCEPT ![h] = "waiting"]
      /\ requests' = requests \cup {new}
    BY <1>0 DEF Post, PassEnded, world, history
<1>2. /\ phase \in [Hosts -> {"asleep", "scanning", "waiting"}]
      /\ passes \in [Hosts -> Nat]
      /\ \A r \in requests : r.host \in Hosts /\ r.no \in Nat
    BY DEF TypeOK
<1>3. \A r \in requests : r.host = h => r.no < passes[h]
    BY <1>1 DEF ReportInv, Outstanding
<1>4. \A r \in requests : Known(r)'
    BY <1>1, <1>2, <1>3 DEF ReportInv, Outstanding, Known, Waits
<1>5. /\ new.host = h /\ new.no = passes[h] /\ new.found = found[h]
      /\ new.stage = "sent"
    BY <1>0
<1>6. Known(new)'
    BY <1>1, <1>2, <1>5 DEF Known, Waits
<1>7. Outstanding'
    <2>1. \A r \in requests' :
              phase'[r.host] = "scanning" => r.no < passes[r.host]
        BY <1>1, <1>2, <1>5 DEF ReportInv, Outstanding
    <2>2. ASSUME NEW r \in requests PROVE /\ OnRecord(r.host, r.no, r.found)'
                                             <=> OnRecord(r.host, r.no, r.found)
                                          /\ r \in requests'
        BY <1>1 DEF OnRecord
    <2> QED BY <1>1, <1>4, <1>5, <1>6, <2>1, <2>2 DEF ReportInv, Outstanding
<1>8. Unique'
    BY <1>1, <1>2, <1>3, <1>5 DEF ReportInv, Unique
<1>9. Accounted'
    <2>1. Underway(h)'
        BY <1>1, <1>5 DEF Underway
    <2>2. \A g \in Hosts : g # h => phase'[g] = phase[g]
        BY <1>1, <1>2
    <2> QED BY <1>1, <2>1, <2>2 DEF ReportInv, Accounted, Underway, Settled,
                                    Refused, CannotSign, OnRecord
<1> QED
    BY <1>1, <1>7, <1>8, <1>9 DEF ReportInv, StatusKeepsAnswered

\* A scanner that cannot sign is done, and its report settled.
LEMMA ReportRaises ==
    ASSUME ReportInv, TypeOK, NEW h \in Hosts, PostRaises(h)
    PROVE  ReportInv'
<1>1. /\ UNCHANGED <<setup, passes, found, requests, decided, status, answered,
                     abandoned, failed>>
      /\ phase[h] = "scanning" /\ phase' = [phase EXCEPT ![h] = "asleep"]
      /\ CannotSign(h)
    BY DEF PostRaises, PassEnded, world, backend, history
<1>2. /\ phase \in [Hosts -> {"asleep", "scanning", "waiting"}]
      /\ \A r \in requests : r.host \in Hosts /\ r.no \in Nat
    BY DEF TypeOK
<1>3. \A r \in requests : Known(r)'
    BY <1>1, <1>2 DEF ReportInv, Outstanding, Known, Waits
<1>4. Outstanding'
    BY <1>1, <1>2, <1>3 DEF ReportInv, Outstanding, OnRecord
<1>5. Accounted'
    BY <1>1, <1>2 DEF ReportInv, Accounted, Underway, Settled, Refused, CannotSign,
                      OnRecord
<1> QED
    BY <1>1, <1>4, <1>5 DEF ReportInv, Unique, StatusKeepsAnswered

\* A scanner that gives up its report leaves it to the backend.
LEMMA ReportTimeout ==
    ASSUME ReportInv, TypeOK, NEW h \in Hosts, Timeout(h)
    PROVE  ReportInv'
<1>1. /\ UNCHANGED <<setup, passes, found, requests, decided, status, answered,
                     failed>>
      /\ phase[h] = "waiting" /\ phase' = [phase EXCEPT ![h] = "asleep"]
      /\ abandoned' = abandoned \cup {<<h, passes[h]>>}
    BY DEF Timeout, world, backend
<1>2. /\ phase \in [Hosts -> {"asleep", "scanning", "waiting"}]
      /\ \A r \in requests : r.host \in Hosts /\ r.no \in Nat
    BY DEF TypeOK
<1>3. \A r \in requests : Known(r)'
    BY <1>1, <1>2 DEF ReportInv, Outstanding, Known, Waits
<1>4. Outstanding'
    BY <1>1, <1>2, <1>3 DEF ReportInv, Outstanding, OnRecord
<1>5. Accounted'
    BY <1>1, <1>2 DEF ReportInv, Accounted, Underway, Settled, Refused, CannotSign, OnRecord
<1> QED
    BY <1>1, <1>4, <1>5 DEF ReportInv, Unique, StatusKeepsAnswered

\* The request of a report is over, and the report accounted for.
LEMMA ReportOver ==
    ASSUME ReportInv, TypeOK, NEW r \in requests,
           UNCHANGED <<setup, passes, found, decided, status, abandoned>>,
           requests' = requests \ {r}, phase' = Released(r),
           failed \subseteq failed',
           r.no = passes[r.host] => Settled(r.host)',
           StatusKeepsAnswered'
    PROVE  ReportInv'
<1>1. /\ phase \in [Hosts -> {"asleep", "scanning", "waiting"}]
      /\ \A q \in requests : q.host \in Hosts /\ q.no \in Nat
    BY DEF TypeOK
<1>2. \A h \in Hosts : \/ phase'[h] = phase[h]
                       \/ h = r.host /\ Waits(r) /\ phase'[h] = "asleep"
    BY <1>1 DEF Released
<1>3. Waits(r) => phase'[r.host] = "asleep"
    BY <1>1 DEF Released
<1>4. \A q \in requests' : q \in requests /\ q # r
    OBVIOUS
<1>5. \A q \in requests' : Known(q)'
    <2> SUFFICES ASSUME NEW q \in requests' PROVE Known(q)'
        OBVIOUS
    <2>1. q \in requests /\ q # r /\ Known(q)
        BY <1>4 DEF ReportInv, Outstanding
    <2>2. ~(Waits(q) /\ Waits(r) /\ q.host = r.host)
        BY <2>1 DEF ReportInv, Unique, Waits
    <2>3. Waits(q) => phase'[q.host] = phase[q.host]
        BY <1>1, <1>2, <2>1, <2>2
    <2> QED BY <2>1, <2>3 DEF Known, Waits
<1>6. Outstanding'
    BY <1>1, <1>2, <1>4, <1>5 DEF ReportInv, Outstanding, OnRecord
<1>7. Unique'
    BY <1>4 DEF ReportInv, Unique
<1>8. ASSUME NEW h \in Hosts
      PROVE  /\ phase'[h] = "waiting" => Underway(h)'
             /\ phase'[h] = "asleep" /\ passes[h] > 0 =>
                    Underway(h)' \/ Settled(h)'
    <2>1. Settled(h) => Settled(h)'
        BY DEF Settled, Refused, CannotSign, OnRecord
    <2>2. Underway(h) => \/ Underway(h)'
                         \/ h = r.host /\ r.no = passes[h]
        BY DEF Underway
    <2>3. CASE phase'[h] = "waiting"
        <3>1. phase[h] = "waiting" /\ Underway(h)
            BY <1>2, <2>3 DEF ReportInv, Accounted
        <3>2. ~(h = r.host /\ r.no = passes[h])
            BY <1>3, <2>3, <3>1 DEF Waits
        <3> QED BY <2>2, <2>3, <3>1, <3>2
    <2>4. CASE phase'[h] = "asleep" /\ passes[h] > 0
        <3>1. Underway(h) \/ Settled(h)
            <4>1. phase[h] \in {"asleep", "waiting"}
                BY <1>2, <2>4 DEF Waits
            <4> QED BY <2>4, <4>1 DEF ReportInv, Accounted
        <3> QED BY <2>1, <2>2, <2>4, <3>1
    <2> QED BY <2>3, <2>4
<1>9. Accounted'
    BY <1>8 DEF Accounted
<1> QED BY <1>6, <1>7, <1>9 DEF ReportInv

LEMMA ReportRefuse ==
    ASSUME ReportInv, TypeOK, NEW r \in requests, Refuse(r)
    PROVE  ReportInv'
<1> USE DEF world, dashboard, history
<1>1. r.no = passes[r.host] => Settled(r.host)'
    BY DEF Refuse, ReportInv, Outstanding, Settled, Refused
<1>2. StatusKeepsAnswered'
    BY DEF Refuse, ReportInv, StatusKeepsAnswered
<1> QED BY <1>1, <1>2, ReportOver DEF Refuse

LEMMA ReportFails ==
    ASSUME ReportInv, TypeOK, NEW r \in requests, Fails(r)
    PROVE  ReportInv'
<1> USE DEF world, dashboard
<1>1. r.no = passes[r.host] => Settled(r.host)'
    BY DEF Fails, Settled
<1>2. StatusKeepsAnswered'
    BY DEF Fails, ReportInv, StatusKeepsAnswered
<1> QED BY <1>1, <1>2, ReportOver DEF Fails

\* A status stored before the answer is no older than the answered report.
LEMMA ReportAnswer ==
    ASSUME ReportInv, TypeOK, NEW r \in requests, Answer(r)
    PROVE  ReportInv'
<1> USE DEF world, dashboard
<1>1. /\ UNCHANGED <<setup, passes, found, decided, status, abandoned, failed>>
      /\ r.stage = "stored"
      /\ answered' = IF Waits(r) THEN [answered EXCEPT ![r.host] = r.no]
                     ELSE answered
    BY DEF Answer
<1>2. r.no = passes[r.host] => Settled(r.host)'
    BY <1>1 DEF ReportInv, Outstanding, Settled, OnRecord
<1>3. StatusKeepsAnswered'
    <2> SUFFICES ASSUME status # NoStatus
                 PROVE  \/ status.no >= answered'[status.host]
                        \/ <<status.host, status.no>> \in abandoned
        BY <1>1 DEF StatusKeepsAnswered
    <2>1. status.host \in Hosts
        BY DEF TypeOK, Shown, Report
    <2>2. \/ answered'[status.host] = answered[status.host]
          \/ status.host = r.host /\ answered'[status.host] = r.no
        BY <1>1, <2>1 DEF TypeOK
    <2> QED BY <1>1, <2>2 DEF ReportInv, StatusKeepsAnswered, Outstanding
<1> QED BY <1>1, <1>2, <1>3, ReportOver DEF Answer

\* One report moves on; nothing else about the reports changes.
LEMMA AdvancedReports ==
    ASSUME ReportInv, TypeOK, NEW r \in requests,
           NEW stage \in {"decided", "stored"}, requests' = Advanced(r, stage)
    PROVE  /\ Unique'
           /\ \A q \in requests' :
                 \E p \in requests :
                    /\ p.host = q.host /\ p.no = q.no /\ p.found = q.found
                    /\ p = q \/ (p = r /\ q.stage = stage)
           /\ \A q \in requests :
                 \E p \in requests' : p.host = q.host /\ p.no = q.no
<1>1. PICK a : a = [r EXCEPT !.stage = stage]
    OBVIOUS
<1>2. /\ r \in [host : Hosts, no : Nat, found : SUBSET Finding,
                stage : {"sent", "decided", "stored"}]
    BY DEF TypeOK
<1>3. a.host = r.host /\ a.no = r.no /\ a.found = r.found /\ a.stage = stage
    BY <1>1, <1>2
<1>4. requests' = (requests \ {r}) \cup {a}
    BY <1>1 DEF Advanced
<1>5. Unique'
    BY <1>3, <1>4 DEF ReportInv, Unique
<1> QED BY <1>3, <1>4, <1>5

\* The verdict is on record before the report moves on.
LEMMA ReportDecide ==
    ASSUME ReportInv, TypeOK, NEW r \in requests, Decide(r)
    PROVE  ReportInv'
<1> USE DEF scanner, world, dashboard, history
<1>1. /\ UNCHANGED <<setup, phase, passes, found, status, answered, abandoned,
                     failed>>
      /\ requests' = Advanced(r, "decided")
      /\ decided' = decided \cup {Verdict(r)}
    BY DEF Decide
<1>2. /\ Unique'
      /\ \A q \in requests' :
            \E p \in requests :
               /\ p.host = q.host /\ p.no = q.no /\ p.found = q.found
               /\ p = q \/ (p = r /\ q.stage = "decided")
      /\ \A q \in requests :
            \E p \in requests' : p.host = q.host /\ p.no = q.no
    BY <1>1, AdvancedReports
<1>3. \A h, n, f : OnRecord(h, n, f) => OnRecord(h, n, f)'
    BY <1>1 DEF OnRecord
<1>4. OnRecord(r.host, r.no, r.found)'
    <2>1. PICK v : v = Verdict(r)
        OBVIOUS
    <2>2. v.host = r.host /\ v.no = r.no /\ v.found = r.found
        BY <2>1 DEF Verdict
    <2>3. v \in decided'
        BY <1>1, <2>1
    <2> QED BY <2>2, <2>3 DEF OnRecord
<1>5. Outstanding'
    <2> SUFFICES ASSUME NEW q \in requests'
                 PROVE  /\ Known(q)'
                        /\ phase[q.host] = "scanning" => q.no < passes[q.host]
                        /\ q.no = passes[q.host] => q.found = found[q.host]
                        /\ q.stage # "sent" => OnRecord(q.host, q.no, q.found)'
                        /\ (/\ q.stage = "stored" /\ status # NoStatus
                            /\ status.host = q.host) =>
                              (\/ status.no >= q.no
                               \/ <<status.host, status.no>> \in abandoned)
        BY <1>1 DEF Outstanding
    <2>1. PICK p \in requests :
             /\ p.host = q.host /\ p.no = q.no /\ p.found = q.found
             /\ p = q \/ (p = r /\ q.stage = "decided")
        BY <1>2
    <2>2. Known(q)'
        BY <1>1, <2>1 DEF ReportInv, Outstanding, Known, Waits
    <2>3. q.stage # "sent" => OnRecord(q.host, q.no, q.found)'
        BY <1>3, <1>4, <2>1 DEF ReportInv, Outstanding
    <2> QED BY <2>1, <2>2, <2>3 DEF ReportInv, Outstanding
<1>6. Accounted'
    <2>1. \A h \in Hosts : Underway(h) => Underway(h)'
        BY <1>1, <1>2 DEF Underway
    <2>2. \A h \in Hosts : Settled(h) => Settled(h)'
        BY <1>1, <1>3 DEF Settled, Refused, CannotSign
    <2> QED BY <1>1, <2>1, <2>2 DEF ReportInv, Accounted
<1> QED
    BY <1>1, <1>2, <1>5, <1>6 DEF ReportInv, StatusKeepsAnswered

\* The status that replaces another is no older than what was answered, unless
\* its scanner gave it up.
LEMMA ReportStore ==
    ASSUME ReportInv, TypeOK, NEW r \in requests, SetStatus(r)
    PROVE  ReportInv'
<1> USE DEF scanner, world, dashboard, history
<1>1. /\ UNCHANGED <<setup, phase, passes, found, decided, answered, abandoned,
                     failed>>
      /\ r.stage = "decided"
      /\ requests' = Advanced(r, "stored")
      /\ status'.host = r.host /\ status'.no = r.no
    BY DEF SetStatus, Verdict
<1>2. /\ Unique'
      /\ \A q \in requests' :
            \E p \in requests :
               /\ p.host = q.host /\ p.no = q.no /\ p.found = q.found
               /\ p = q \/ (p = r /\ q.stage = "stored")
      /\ \A q \in requests :
            \E p \in requests' : p.host = q.host /\ p.no = q.no
    BY <1>1, AdvancedReports
<1>3. /\ passes \in [Hosts -> Nat] /\ answered \in [Hosts -> Nat]
      /\ \A q \in requests : /\ q.host \in Hosts /\ q.no \in Nat
                             /\ q.no <= passes[q.host]
      /\ \A h \in Hosts : answered[h] <= passes[h]
    BY DEF TypeOK
<1>4. r.no = passes[r.host] \/ <<r.host, r.no>> \in abandoned
    BY DEF ReportInv, Outstanding, Known, Waits
<1>5. Outstanding'
    <2> SUFFICES ASSUME NEW q \in requests'
                 PROVE  /\ Known(q)'
                        /\ phase[q.host] = "scanning" => q.no < passes[q.host]
                        /\ q.no = passes[q.host] => q.found = found[q.host]
                        /\ q.stage # "sent" => OnRecord(q.host, q.no, q.found)'
                        /\ r.host = q.host => (\/ r.no >= q.no
                                               \/ <<r.host, r.no>> \in abandoned)
        BY <1>1 DEF Outstanding
    <2>1. PICK p \in requests :
             /\ p.host = q.host /\ p.no = q.no /\ p.found = q.found
             /\ p = q \/ (p = r /\ q.stage = "stored")
        BY <1>2
    <2>2. Known(q)'
        BY <1>1, <2>1 DEF ReportInv, Outstanding, Known, Waits
    <2>3. q.stage # "sent" => OnRecord(q.host, q.no, q.found)
        BY <1>1, <2>1 DEF ReportInv, Outstanding
    <2>4. OnRecord(q.host, q.no, q.found) => OnRecord(q.host, q.no, q.found)'
        BY <1>1 DEF OnRecord
    <2> QED BY <1>3, <1>4, <2>1, <2>2, <2>3, <2>4 DEF ReportInv, Outstanding
<1>6. Accounted'
    <2>1. \A h \in Hosts : Underway(h) => Underway(h)'
        BY <1>1, <1>2 DEF Underway
    <2>2. \A h \in Hosts : Settled(h) => Settled(h)'
        BY <1>1 DEF Settled, Refused, CannotSign, OnRecord
    <2> QED BY <1>1, <2>1, <2>2 DEF ReportInv, Accounted
<1>7. StatusKeepsAnswered'
    BY <1>1, <1>3, <1>4 DEF StatusKeepsAnswered
<1> QED
    BY <1>2, <1>5, <1>6, <1>7 DEF ReportInv

LEMMA ReportNext == PassInv /\ ReportInv /\ [Next]_vars => ReportInv'
<1> SUFFICES ASSUME PassInv, ReportInv, [Next]_vars PROVE ReportInv'
    OBVIOUS
<1>0. TypeOK
    BY DEF PassInv
<1>1. ASSUME NEW h \in Hosts, NEW s \in Subjects, Change(h, s)
      PROVE  ReportInv'
    <2>1. UNCHANGED <<setup, phase, passes, requests, decided, status, answered,
                      abandoned, failed, found>>
        BY <1>1 DEF Change, scanner, backend, dashboard, history
    <2> QED BY <1>0, <2>1, ReportUntouched
<1>2. ASSUME NEW h \in Hosts,
             RunCheck(h) \/ \E s \in listed[h] : ReadStatus(h, s)
      PROVE  ReportInv'
    <2>1. UNCHANGED <<setup, phase, passes, requests, decided, status, answered,
                      abandoned, failed>>
        BY <1>2 DEF RunCheck, Check, ListProcesses, Due, ReadStatus, world,
                    backend, dashboard, history
    <2>2. phase[h] = "scanning"
        BY <1>2 DEF RunCheck, Check, ListProcesses, Due, PassInv, Resting
    <2>3. \A g \in Hosts : g # h => found'[g] = found[g]
        BY <1>2 DEF RunCheck, Check, ListProcesses, Due, ReadStatus, PassInv,
                    TypeOK
    <2>4. \A g \in Hosts : phase[g] # "scanning" => found'[g] = found[g]
        BY <2>2, <2>3
    <2> QED BY <1>0, <2>1, <2>4, ReportUntouched
<1>3. ASSUME NEW h \in Hosts,
             StartPass(h) \/ Post(h) \/ PostRaises(h) \/ Timeout(h)
      PROVE  ReportInv'
    BY <1>0, <1>3, ReportStart, ReportPost, ReportRaises, ReportTimeout
<1>4. ASSUME NEW r \in requests, Serve(r) \/ Fails(r) PROVE ReportInv'
    BY <1>0, <1>4, ReportRefuse, ReportDecide, ReportStore, ReportAnswer,
       ReportFails
    DEF Serve
<1>5. ASSUME \/ \E i \in Polls : Fetch(i) \/ PollFails(i)
             \/ UNCHANGED vars
      PROVE  ReportInv'
    <2>1. UNCHANGED <<setup, phase, passes, requests, decided, status, answered,
                      abandoned, failed, found>>
        BY <1>5 DEF Fetch, Poll, Arrive, PollFails, vars, world, scanner,
                    backend, history
    <2> QED BY <1>0, <2>1, ReportUntouched
<1> QED
    BY <1>1, <1>2, <1>3, <1>4, <1>5
    DEF Next, ScannerNext, ScannerStep, BackendNext, DashboardNext

LEMMA ReportInvariant == Spec => [](PassInv /\ ReportInv)
BY PassInit, ReportInit, PassNext, ReportNext, PTL DEF Spec

(***************************************************************************)
(* The stored status of a host is no older than its last answered report,  *)
(* unless it is a report its scanner had given up.                         *)
(***************************************************************************)
THEOREM StatusHolds == Spec => []StatusKeepsAnswered
<1>1. ReportInv => StatusKeepsAnswered
    BY DEF ReportInv
<1> QED BY <1>1, ReportInvariant, PTL

(***************************************************************************)
(* When a scanner rests and no report of its host is on its way, what      *)
(* lasted through the pass has been decided upon, or the report was        *)
(* refused or lost, or the scanner is one that cannot sign and was told    *)
(* to.                                                                     *)
(***************************************************************************)
THEOREM ThreatsAreDecided == Spec => []LastingThreatIsDecided
<1>1. ASSUME PassInv, ReportInv PROVE LastingThreatIsDecided
    <2> SUFFICES ASSUME NEW h \in Hosts, phase[h] = "asleep", passes[h] > 0,
                        setup[h].scanner = setup[h].platform,
                        \A r \in requests : r.host # h,
                        <<h, passes[h]>> \notin failed,
                        ~Refused(h, found[h]), ~CannotSign(h),
                        NEW s \in Lasting(h)
                 PROVE  Decided(h, s)
        BY DEF LastingThreatIsDecided, PassIsOver
    <2>1. s \in steady[h]
        BY DEF Lasting
    <2>2. DoneWith(h, s)
        BY <1>1 DEF PassInv, Resting, DoneWith
    <2>3. CurrentFindings(h, s) \subseteq found[h]
        BY <1>1, <2>1, <2>2 DEF PassInv, SteadyIsExact
    <2>4. OnRecord(h, passes[h], found[h])
        BY <1>1 DEF ReportInv, Accounted, Underway, Settled
    <2> QED BY <2>3, <2>4 DEF OnRecord, Decided
<1> QED BY <1>1, ReportInvariant, PTL

-------------------------------------------------------------------------------
(***************************************************************************)
(* The answer to a report.  Its findings are finitely many, so they make a *)
(* list of signals in which every threat has its own.                      *)
(***************************************************************************)
\* A finite set in some order has all its elements.
LEMMA SetToSeqLists ==
    ASSUME NEW S, IsFiniteSet(S)
    PROVE  /\ SetToSeq(S) \in Seq(S)
           /\ \A x \in S : \E i \in 1..Len(SetToSeq(S)) : SetToSeq(S)[i] = x
<1> DEFINE n == Cardinality(S)
           f == SetToSeq(S)
<1>1. n \in Nat /\ ExistsBijection(1..n, S)
    BY FS_CardinalityType
<1>2. PICK g \in Bijection(1..n, S) : TRUE
    BY <1>1 DEF ExistsBijection
<1>3. g \in [1..n -> S] /\ IsInjective(g)
    BY <1>2 DEF Bijection, Injection, IsInjective
<1>4. f \in [1..n -> S] /\ IsInjective(f)
    BY <1>3 DEF SetToSeq
<1>5. f \in Injection(1..n, S)
    BY <1>4 DEF Injection, IsInjective
<1>6. Cardinality(1..n) = n
    BY <1>1, FS_Interval
<1>7. f \in Surjection(1..n, S)
    BY <1>5, <1>6, FS_Injection
<1>8. f \in Seq(S) /\ Len(f) = n
    BY <1>1, <1>4
<1> QED BY <1>7, <1>8 DEF Surjection

LEMMA FiveAreFinite ==
    ASSUME NEW a, NEW b, NEW c, NEW d, NEW e
    PROVE  IsFiniteSet({a, b, c, d}) /\ IsFiniteSet({a, b, c, d, e})
<1>1. \A S, x : IsFiniteSet(S) => IsFiniteSet(S \cup {x})
    BY FS_AddElement
<1>2. IsFiniteSet({a})
    BY FS_Singleton
<1>3. IsFiniteSet({a, b})
    <2>1. {a, b} = {a} \cup {b}
        OBVIOUS
    <2> QED BY <1>1, <1>2, <2>1
<1>4. IsFiniteSet({a, b, c})
    <2>1. {a, b, c} = {a, b} \cup {c}
        OBVIOUS
    <2> QED BY <1>1, <1>3, <2>1
<1>5. IsFiniteSet({a, b, c, d})
    <2>1. {a, b, c, d} = {a, b, c} \cup {d}
        OBVIOUS
    <2> QED BY <1>1, <1>4, <2>1
<1>6. IsFiniteSet({a, b, c, d, e})
    <2>1. {a, b, c, d, e} = {a, b, c, d} \cup {e}
        OBVIOUS
    <2> QED BY <1>1, <1>5, <2>1
<1> QED BY <1>5, <1>6

\* What a report can hold is finite.
LEMMA FindingsFinite ==
    ASSUME NEW F \in SUBSET Finding
    PROVE  IsFiniteSet(F)
<1> DEFINE Triples == Subjects \X (Categories \X Severities)
           f == [x \in Finding |-> <<x.about, <<x.cat, x.sev>>>>]
<1>1. IsFiniteSet(Categories)
    BY FiveAreFinite DEF Categories
<1>2. IsFiniteSet(Severities)
    BY FiveAreFinite DEF Severities
<1>3. IsFiniteSet(Triples)
    BY <1>1, <1>2, HostScanAssumption, FS_Product
<1>4. f \in Injection(Finding, Triples)
    BY DEF Injection, IsInjective, Finding
<1>5. IsFiniteSet(Finding)
    BY <1>3, <1>4, FS_Injection
<1> QED BY <1>5, FS_Subset

\* KernelAgent.analyze: one signal for every finding but the infos.
LEMMA ThreatsAreSignalled ==
    ASSUME NEW F \in SUBSET Finding
    PROVE  /\ Signals(F) \in Seq(Signal)
           /\ \A f \in F : IsThreat(f) =>
                 \E i \in 1..Len(Signals(F)) : Signals(F)[i] = SignalOf(f)
<1> DEFINE T == {f \in F : IsThreat(f)}
           l == SetToSeq(T)
<1>1. IsFiniteSet(T)
    BY FindingsFinite
<1>2. /\ l \in Seq(T)
      /\ \A x \in T : \E i \in 1..Len(l) : l[i] = x
    BY <1>1, SetToSeqLists
<1>3. \A f \in T : SignalOf(f) \in Signal
    BY DEF SignalOf, Signal, IsThreat, Finding, Categories, Severities,
           SeverityScore, SeverityConf, CategoryThreat, Threats, DefaultWeights
<1>4. Signals(F) = [i \in DOMAIN l |-> SignalOf(l[i])]
    BY DEF Signals
<1> HIDE DEF l, T
<1>5. DOMAIN l = 1..Len(l) /\ Len(l) \in Nat /\ \A i \in 1..Len(l) : l[i] \in T
    BY <1>2
<1>6. Signals(F) \in Seq(Signal) /\ Len(Signals(F)) = Len(l)
    BY <1>3, <1>4, <1>5
<1> QED BY <1>2, <1>4, <1>5, <1>6 DEF T

\* A critical or high finding, with its floor, is worth 61 points at least.
LEMMA GraveIsSanitized ==
    ASSUME NEW F \in SUBSET Finding, NEW f \in F,
           f.sev \in {"critical", "high"}, f.cat # "network"
    PROVE  Rank(KernelAction(F, DefaultThresholds)) >= Rank("sanitize")
<1> DEFINE e == Gathered(Signals(F))
           U == e.total + Point * (Bump(e.strong) + e.floor)
<1>1. f \in Finding /\ IsThreat(f)
    BY DEF IsThreat
<1>2. PICK k \in 1..Len(Signals(F)) : Signals(F)[k] = SignalOf(f)
    BY <1>1, ThreatsAreSignalled
<1>3. /\ Contribution(SignalOf(f)) >= 80 * 15 * 180
      /\ SignalOf(f).threat \in Floored
    <2>1. /\ SignalOf(f).agent = "kernel"
          /\ \/ SignalOf(f).score = 95 /\ SignalOf(f).conf = 90
             \/ SignalOf(f).score = 80 /\ SignalOf(f).conf = 80
        BY DEF SignalOf, SeverityScore, SeverityConf
    <2>2. DefaultWeights["kernel"] = 15
        BY DEF DefaultWeights
    <2>3. f.cat \in {"rootkit", "zero_day", "integrity"}
        BY <1>1 DEF Finding, Categories
    <2>4. SignalOf(f).threat \in Floored
        BY <2>3 DEF SignalOf, CategoryThreat, Threats, Floored
    <2>5. Contribution(SignalOf(f)) >= 80 * 15 * 180
        BY <2>1, <2>2, SMT DEF Contribution
    <2> QED BY <2>4, <2>5
<1>4. Signals(F) \in Seq(Signal)
    BY ThreatsAreSignalled
<1>5. /\ e.total >= Contribution(Signals(F)[k])
      /\ Signals(F)[k].threat \in Floored => e.floor = 50
    BY <1>4, SignalCounts
<1>6. e \in Evidence
    BY <1>4, GatheredType
<1>7. Contribution(SignalOf(f)) \in Nat
    <2>1. SignalOf(f) \in Signal
        BY <1>2, <1>4
    <2> QED BY <2>1, ContributionNat
<1>8. e.total >= 80 * 15 * 180 /\ e.floor = 50 /\ e.total \in Nat
    BY <1>2, <1>3, <1>5, <1>6, <1>7, SMT DEF Evidence
<1>9. Bump(e.strong) \in 0..15
    BY <1>6, BumpMonotone DEF Evidence
<1> HIDE DEF e, U
<1>10. U \in Nat /\ 80 * 15 * 180 + Point * 50 <= U
    <2>1. PICK b \in 0..15 : b = Bump(e.strong)
        BY <1>9
    <2>2. PICK t \in Nat : t = e.total /\ t >= 80 * 15 * 180
        BY <1>8, SMT
    <2>3. U = t + 20000 * (b + 50)
        BY <1>8, <2>1, <2>2, SMT DEF U, Point
    <2>4. t \in Nat /\ t >= 80 * 15 * 180 /\ b \in 0..15
        BY <2>1, <2>2
    <2>5. PICK w : w = t + 20000 * (b + 50)
        OBVIOUS
    <2>6. w \in Nat /\ w >= 80 * 15 * 180 + Point * 50
        BY <2>4, <2>5, SMT DEF Point
    <2>7. U = w
        BY <2>3, <2>5, SMT
    <2>8. Point \in Nat
        BY PointSize
    <2> QED BY <2>6, <2>7, <2>8, SMT
<1>11. Rounded(80 * 15 * 180 + Point * 50) = 61
    BY SMT DEF Rounded, Point
<1>12. Rounded(U) \in Nat /\ 61 <= Rounded(U)
    <2>1. PICK low \in Nat : low = 80 * 15 * 180 + Point * 50
        BY SMT DEF Point
    <2> QED BY <1>10, <1>11, <2>1, RoundedMonotone, SMT
<1>13. AggregateRisk(Signals(F)) = ClampInt(U)
    BY DEF AggregateRisk, RiskOf, e, U
<1>14. AggregateRisk(Signals(F)) \in Nat /\ AggregateRisk(Signals(F)) > 60
    <2>1. PICK q : q = Rounded(U)
        OBVIOUS
    <2>2. ClampInt(U) = IF q > 100 THEN 100 ELSE q
        BY <2>1 DEF ClampInt
    <2>3. q \in Nat /\ 61 <= q
        BY <1>12, <2>1
    <2> QED BY <1>13, <2>2, <2>3
<1>15. KernelAction(F, DefaultThresholds)
          = ActionFor(AggregateRisk(Signals(F)), DefaultThresholds)
    BY <1>1 DEF KernelAction, KernelRisk
<1> QED BY <1>14, <1>15 DEF ActionFor, DefaultThresholds, Rank

(***************************************************************************)
(* Under the default thresholds a critical or high finding that is not a   *)
(* network one is answered by sanitize or block, whatever else the report  *)
(* holds, and a report without threats by allow.                           *)
(***************************************************************************)
THEOREM GraveIsEscalated ==
    ASSUME Limits = DefaultThresholds
    PROVE  Spec => []GraveFindingsEscalate
<1> DEFINE IInv == \A d \in decided : d.action = KernelAction(d.found, Limits)
<1>1. Init => IInv
    BY DEF Init
<1>2. ASSUME IInv, [Next]_vars PROVE IInv'
    <2>1. ASSUME NEW r, Decide(r) PROVE IInv'
        <3>1. decided' = decided \cup {Verdict(r)}
            BY <2>1 DEF Decide
        <3>2. PICK v : v = Verdict(r)
            OBVIOUS
        <3>3. v.action = KernelAction(v.found, Limits)
            BY <3>2 DEF Verdict
        <3> QED BY <1>2, <3>1, <3>2, <3>3
    <2>2. CASE decided' = decided
        BY <1>2, <2>2
    <2>3. decided' = decided \/ \E r \in requests : Decide(r)
        BY <1>2 DEF Next, vars, scanner, world, backend, dashboard, history, Change,
           ScannerNext, ScannerStep, StartPass, RunCheck, Check, ListProcesses, Due,
           ReadStatus, Post, PostRaises, Timeout, BackendNext, Serve, Refuse, SetStatus, Answer,
           Fails, DashboardNext, Fetch, Poll, Arrive, PollFails
    <2> QED BY <2>1, <2>2, <2>3
<1>3. ASSUME TypeOK, IInv PROVE GraveFindingsEscalate
    <2> SUFFICES ASSUME NEW d \in decided
                 PROVE  /\ (\E f \in d.found : /\ f.sev \in {"critical", "high"}
                                               /\ f.cat # "network") =>
                              Rank(d.action) >= Rank("sanitize")
                        /\ (\A f \in d.found : ~IsThreat(f)) => d.action = "allow"
        BY DEF GraveFindingsEscalate
    <2>1. d.found \in SUBSET Finding
        BY <1>3 DEF TypeOK, Report
    <2>2. d.action = KernelAction(d.found, DefaultThresholds)
        BY <1>3
    <2>3. (\A f \in d.found : ~IsThreat(f)) => d.action = "allow"
        BY <2>2 DEF KernelAction
    <2> QED BY <2>1, <2>2, <2>3, GraveIsSanitized
<1> QED BY <1>1, <1>2, <1>3, TypeCorrect, PTL DEF Spec
===============================================================================
