------------------------------ MODULE MCPipeline ------------------------------
(***************************************************************************)
(* Instance of Pipeline: two attacks that teach different patterns while   *)
(* there is room for one, a variant that only the learned rule makes       *)
(* suspicious enough, an artifact scan and a host's report; the default    *)
(* thresholds with self-healing on, stricter ones with it off; hosts that  *)
(* meet the probes' deadline and slow ones.  Of two requests that differ   *)
(* in nothing but their names, it is enough to take one order of inputs.   *)
(***************************************************************************)
EXTENDS Pipeline

CONSTANTS p1, p2, r1, r2

In(kind, pattern, risk, learned) ==
    [kind |-> kind, pattern |-> pattern, risk |-> risk, learnedRisk |-> learned]

Asked == <<In("analyze", p1, 66, 85), In("analyze", p1, 20, 61),
           In("analyze", p2, 70, 70), In("scan", NoPattern, 60, 60),
           In("kernel", NoPattern, 92, 92)>>

MCInputs == Range(Asked)

MCConfigs == {[limits |-> DefaultThresholds, healing |-> TRUE],
              [limits |-> [allow |-> 10, monitor |-> 40, sanitize |-> 60],
               healing |-> FALSE]}

InOrder == \E i, j \in DOMAIN Asked :
              i <= j /\ input[r1] = Asked[i] /\ input[r2] = Asked[j]

MCInit == Init /\ InOrder

MCSpec == MCInit /\ [][Next]_vars /\ \A r \in Requests : WF_vars(Step(r))
===============================================================================
