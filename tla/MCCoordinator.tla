---------------------------- MODULE MCCoordinator ----------------------------
(* Instance of Coordinator: signals the agents emit, weak and strong ones  *)
(* of every agent that has a weight, with and without a floor.             *)
EXTENDS Coordinator

Sig(a, t, s, c) == [agent |-> a, threat |-> t, score |-> s, conf |-> c]

MCSignals == {
    Sig("sentinel", "prompt_injection", 35, 75),
    Sig("sentinel", "prompt_injection", 95, 75),
    Sig("sentinel", "jailbreak", 80, 80),
    Sig("sentinel", "data_exfiltration", 35, 70),
    Sig("sentinel", "prompt_injection", 40, 65),
    Sig("policy", "policy_violation", 90, 85),
    Sig("behavior", "tool_abuse", 60, 70),
    Sig("behavior", "tool_abuse", 90, 85),
    Sig("behavior", "data_exfiltration", 75, 70),
    Sig("behavior", "anomaly", 55, 60),
    Sig("artifact", "anomaly", 40, 80),
    Sig("artifact", "malware_in_file", 92, 85),
    Sig("artifact", "policy_violation", 92, 95),
    Sig("kernel", "rootkit", 95, 90),
    Sig("kernel", "kernel_exploit", 30, 60),
    Sig("kernel", "anomaly", 80, 80)}

\* The defaults, a strict and a lax configuration, and one an unchecked
\* environment gives: allow above monitor.
MCLimits == {
    DefaultThresholds,
    [allow |-> 0, monitor |-> 50, sanitize |-> 60],
    [allow |-> 70, monitor |-> 75, sanitize |-> 100],
    [allow |-> 60, monitor |-> 20, sanitize |-> 80]}
===============================================================================
