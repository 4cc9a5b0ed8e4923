------------------------------ MODULE MCHostScan ------------------------------
(***************************************************************************)
(* Two hosts.  In the first setup a Linux host, which signs, and a Windows *)
(* host, which does not, of a backend without a key; in the second a Linux *)
(* host whose signing key is wrong and a Mac whose key is right; in the    *)
(* third a Mac that was given the Linux scanner, its key wrong too, and a  *)
(* Linux host with a file whose path is overlong; in the fourth a Windows  *)
(* host that signs and a Mac that does not, of a backend without a key.    *)
(***************************************************************************)
EXTENDS HostScan

MCSubjects == {"pid", "payload", "kptr", "fw", "public", "sip", "daemon"}

MCKindOf == [pid |-> "process", payload |-> "tmp_file",
             kptr |-> "kptr_restrict", fw |-> "firewall",
             public |-> "firewall", sip |-> "sip",
             daemon |-> "launch_daemon"]

MCConditions == [pid |-> {"none", "visible", "hidden"},
                 payload |-> {"none", "executable"},
                 kptr |-> {"0", "1"},
                 fw |-> {"enabled", "disabled"},
                 public |-> {"enabled", "disabled"},
                 sip |-> {"enabled", "disabled", "unknown"},
                 daemon |-> {"none", "third_party"}]

MCInitially == [pid |-> "visible", payload |-> "none", kptr |-> "0",
                fw |-> "disabled", public |-> "enabled",
                sip |-> "enabled", daemon |-> "none"]

Machine(sys, tool, key, ok, subjects) ==
    [platform |-> sys, scanner |-> tool, signs |-> key, trusted |-> ok,
     has |-> subjects]

MCSetups ==
    {[h \in {"a", "b"} |-> IF h = "a"
        THEN Machine("linux", "linux", TRUE, TRUE, {"pid"})
        ELSE Machine("windows", "windows", FALSE, TRUE, {"fw"})],
     [h \in {"a", "b"} |-> IF h = "a"
        THEN Machine("linux", "linux", TRUE, FALSE, {"kptr"})
        ELSE Machine("darwin", "darwin", TRUE, TRUE, {"sip"})],
     [h \in {"a", "b"} |-> IF h = "a"
        THEN Machine("darwin", "linux", TRUE, FALSE, {"sip", "public"})
        ELSE Machine("linux", "linux", TRUE, TRUE, {"payload"})],
     [h \in {"a", "b"} |-> IF h = "a"
        THEN Machine("windows", "windows", TRUE, TRUE, {"fw"})
        ELSE Machine("darwin", "darwin", FALSE, TRUE, {"sip", "fw", "daemon"})]}

MCMaxPasses == [h \in {"a", "b"} |-> IF h = "a" THEN 2 ELSE 1]
===============================================================================
