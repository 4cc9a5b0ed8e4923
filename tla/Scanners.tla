------------------------------- MODULE Scanners -------------------------------
(***************************************************************************)
(* The host scanners (kernel/scanner.py, macos/scanner.py,                 *)
(* windows/scanner.py) and what KernelAgent makes of their findings.       *)
(*                                                                         *)
(* A host is seen as a number of subjects: a process, a file, a socket, a  *)
(* setting.  Each is of a kind, and in one condition at a time: what the   *)
(* scanner's commands and reads say of it.  A rule <<kind, condition,      *)
(* category, severity>> is one call of finding().  Conditions without a    *)
(* rule are the branches that report nothing: nothing wrong, permission    *)
(* denied, a failed command ("unknown"), a file below the sixth level or   *)
(* after the 25,000th of a walk ("unreached").                             *)
(***************************************************************************)
EXTENDS Integers, Sequences, SequencesExt, Risk

Categories == {"rootkit", "zero_day", "integrity", "network"}
Severities == {"critical", "high", "medium", "low", "info"}
Platforms  == {"linux", "darwin", "windows"}

\* check_hidden_processes ... check_kernel_modules
LinuxRootkit ==
    {<<"process",    "hidden",    "rootkit", "critical">>,
     <<"ld_preload", "set",       "rootkit", "high">>,
     <<"known_path", "present",   "rootkit", "critical">>,
     <<"dev_hidden", "present",   "rootkit", "high">>,
     <<"module",     "rootkit",   "rootkit", "critical">>,
     <<"module",     "tainting_rootkit", "rootkit", "critical">>,
     <<"module",     "tainting_rootkit", "rootkit", "medium">>,
     <<"module",     "foreign",   "rootkit", "medium">>}

\* check_deleted_exe_processes ... check_raw_sockets
LinuxZeroDay ==
    {<<"exe",        "deleted",    "zero_day", "high">>,
     <<"tmp_file",   "executable", "zero_day", "high">>,
     <<"set_id",     "outside",    "zero_day", "high">>,
     <<"raw_socket", "open",       "zero_day", "medium">>}

(***************************************************************************)
(* SYSCTL_HARDENING: the values below a setting's expected minimum.  The   *)
(* minimum of sysrq is 0, so no value of it is ever a gap.                 *)
(***************************************************************************)
SysctlGap ==
    [randomize_va_space |-> {"0", "1"}, kptr_restrict |-> {"0"},
     dmesg_restrict |-> {"0"}, ptrace_scope |-> {"0"},
     unprivileged_bpf_disabled |-> {"0"}, sysrq |-> {}]

SysctlSeverity ==
    [randomize_va_space |-> "high", kptr_restrict |-> "medium",
     dmesg_restrict |-> "low", ptrace_scope |-> "medium",
     unprivileged_bpf_disabled |-> "medium", sysrq |-> "low"]

\* check_sysctl_hardening
LinuxSysctl ==
    UNION {{<<k, v, "integrity", SysctlSeverity[k]>> : v \in SysctlGap[k]} :
             k \in DOMAIN SysctlGap}

\* check_kernel_version, check_security_modules, check_boot_integrity and the
\* container entry of scan_all
LinuxIntegrity ==
    {<<"container",        "inside",     "integrity", "info">>,
     <<"kernel_version",   "eol",        "integrity", "high">>,
     <<"selinux",          "permissive", "integrity", "medium">>,
     <<"apparmor",         "disabled",   "integrity", "medium">>,
     <<"mandatory_access", "absent",     "integrity", "medium">>,
     <<"boot_file",        "hashed",     "integrity", "info">>}

\* check_network_listeners, check_promiscuous_interfaces
LinuxSockets ==
    {<<"listener",  "unexpected",  "network", "medium">>,
     <<"interface", "promiscuous", "network", "high">>}

\* check_sniffer_processes, check_pcap_files, check_arp_anomalies
LinuxSniffers ==
    {<<"sniffer", "running", "network", "high">>,
     <<"pcap",    "present", "network", "medium">>,
     <<"arp_mac", "shared",  "network", "critical">>}

\* check_sip ... check_macos_version, check_xprotect
MacIntegrity ==
    {<<"sip",        "enabled",  "integrity", "info">>,
     <<"sip",        "disabled", "integrity", "critical">>,
     <<"gatekeeper", "enabled",  "integrity", "info">>,
     <<"gatekeeper", "disabled", "integrity", "high">>,
     <<"filevault",  "enabled",  "integrity", "info">>,
     <<"filevault",  "disabled", "integrity", "high">>,
     <<"firewall",   "enabled",  "integrity", "info">>,
     <<"firewall",   "disabled", "integrity", "medium">>,
     <<"stealth",    "disabled", "integrity", "low">>,
     <<"version",    "eol",      "integrity", "high">>,
     <<"xprotect",   "present",  "integrity", "info">>}

\* check_remote_login ... check_promiscuous
MacNetwork ==
    {<<"remote_login", "on",          "network", "medium">>,
     <<"listener",     "unexpected",  "network", "medium">>,
     <<"interface",    "promiscuous", "network", "high">>,
     <<"sniffer",      "running",     "network", "high">>}

\* check_persistence, check_login_items, check_pcap_files
MacFiles ==
    {<<"launch_daemon", "third_party", "rootkit",   "medium">>,
     <<"launch_agent",  "third_party", "rootkit",   "low">>,
     <<"login_item",    "present",     "integrity", "info">>,
     <<"pcap",          "present",     "network",   "medium">>}

(***************************************************************************)
(* check_defender ... check_bitlocker.  A firewall profile is a subject of *)
(* its own.  The condition of Defender is which of its two parts are off.  *)
(***************************************************************************)
WindowsControls ==
    {<<"defender",  "unknown",    "integrity", "medium">>,
     <<"defender",  "active",     "integrity", "info">>,
     <<"defender",  "off",        "integrity", "critical">>,
     <<"defender",  "off",        "integrity", "high">>,
     <<"defender",  "av_off",     "integrity", "critical">>,
     <<"defender",  "rtp_off",    "integrity", "high">>,
     <<"firewall",  "enabled",    "integrity", "info">>,
     <<"firewall",  "disabled",   "integrity", "high">>,
     <<"uac",       "enabled",    "integrity", "info">>,
     <<"uac",       "disabled",   "integrity", "critical">>,
     <<"bitlocker", "enabled",    "integrity", "info">>,
     <<"bitlocker", "disabled",   "integrity", "high">>}

\* check_rdp, check_smb_v1, check_execution_policy
WindowsServices ==
    {<<"rdp",              "enabled",      "network",   "medium">>,
     <<"smb1",             "enabled",      "integrity", "critical">>,
     <<"execution_policy", "unrestricted", "integrity", "medium">>}

\* check_open_ports, check_sniffer_processes
WindowsNetwork ==
    {<<"listener", "unexpected", "network", "medium">>,
     <<"sniffer",  "running",    "network", "high">>}

\* check_scheduled_tasks ("unlisted" after the twentieth), check_autorun
WindowsPersistence ==
    {<<"task",    "third_party", "rootkit", "low">>,
     <<"autorun", "present",     "rootkit", "info">>}

\* check_secure_boot ... check_credential_guard
WindowsPlatform ==
    {<<"secure_boot",      "enabled",  "integrity", "info">>,
     <<"secure_boot",      "disabled", "integrity", "high">>,
     <<"version",          "eol",      "integrity", "critical">>,
     <<"pcap",             "present",  "network",   "medium">>,
     <<"credential_guard", "enabled",  "integrity", "info">>,
     <<"credential_guard", "disabled", "integrity", "medium">>}

Rules ==
    [linux   |-> LinuxRootkit \cup LinuxZeroDay \cup LinuxSysctl
                   \cup LinuxIntegrity \cup LinuxSockets \cup LinuxSniffers,
     darwin  |-> MacIntegrity \cup MacNetwork \cup MacFiles,
     windows |-> WindowsControls \cup WindowsServices \cup WindowsNetwork
                   \cup WindowsPersistence \cup WindowsPlatform]

-------------------------------------------------------------------------------
(***************************************************************************)
(* scan_all: the kinds each check looks at, in the order it runs them.     *)
(***************************************************************************)
LinuxPass ==
    <<{"container"}, {"process"}, {"ld_preload"}, {"known_path"},
      {"dev_hidden"}, {"module"}, {"exe"}, {"tmp_file"}, {"set_id"},
      {"raw_socket"}, {"kernel_version"}, DOMAIN SysctlGap,
      {"selinux", "apparmor", "mandatory_access"}, {"boot_file"},
      {"listener"}, {"interface"}, {"sniffer"}, {"pcap"}, {"arp_mac"}>>

MacPass ==
    <<{"sip"}, {"gatekeeper"}, {"filevault"}, {"firewall", "stealth"},
      {"version"}, {"xprotect"}, {"remote_login"}, {"listener"},
      {"interface"}, {"sniffer"}, {"pcap"},
      {"launch_daemon", "launch_agent"}, {"login_item"}>>

WindowsPass ==
    <<{"defender"}, {"firewall"}, {"uac"}, {"bitlocker"}, {"smb1"},
      {"secure_boot"}, {"execution_policy"}, {"credential_guard"},
      {"version"}, {"rdp"}, {"listener"}, {"sniffer"}, {"pcap"}, {"task"},
      {"autorun"}>>

Pass == [linux |-> LinuxPass, darwin |-> MacPass, windows |-> WindowsPass]

\* The entries of result["findings"] about subject s in a condition.
FindingsOf(platform, s, kind, condition) ==
    {[about |-> s, cat |-> r[3], sev |-> r[4]] :
       r \in {x \in Rules[platform] : x[1] = kind /\ x[2] = condition}}

-------------------------------------------------------------------------------
(***************************************************************************)
(* KernelAgent.analyze: a signal for every finding but the infos.          *)
(***************************************************************************)
SeverityScore == [critical |-> 95, high |-> 80, medium |-> 55, low |-> 30]
SeverityConf  == [critical |-> 90, high |-> 80, medium |-> 70, low |-> 60]

\* Mutant: a rootkit is an anomaly like any other.
MutCategoryThreat == [rootkit |-> "anomaly", zero_day |-> "kernel_exploit",
                      integrity |-> "kernel_integrity", network |-> "anomaly"]

CategoryThreat == [rootkit |-> "rootkit", zero_day |-> "kernel_exploit",
                   integrity |-> "kernel_integrity", network |-> "anomaly"]

IsThreat(f) == f.sev # "info"

SignalOf(f) == [agent |-> "kernel", threat |-> CategoryThreat[f.cat],
                score |-> SeverityScore[f.sev], conf |-> SeverityConf[f.sev]]

Signals(found) ==
    LET threats == SetToSeq({f \in found : IsThreat(f)})
    IN  [i \in DOMAIN threats |-> SignalOf(threats[i])]

\* scan_kernel: no signals, no risk; otherwise the ladder without an engine.
KernelRisk(found) == IF \E f \in found : IsThreat(f)
                     THEN AggregateRisk(Signals(found)) ELSE 0

KernelAction(found, thresholds) ==
    IF \E f \in found : IsThreat(f)
    THEN ActionFor(KernelRisk(found), thresholds) ELSE "allow"
===============================================================================
