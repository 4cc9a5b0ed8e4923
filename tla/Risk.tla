--------------------------------- MODULE Risk ---------------------------------
(***************************************************************************)
(* How one decision is computed from the agents' signals: aggregate_risk   *)
(* (backend/app/core/risk.py), the ladder from risk to action and          *)
(* ResponseEngine.apply (backend/app/core/response_engine.py).             *)
(*                                                                         *)
(* Scores run from 0 to 100 as in the code; weights and confidences are    *)
(* hundredths.  One point of risk is Point units, so that a contribution   *)
(* is an integer.  The code adds floats, which could put a sum next to a   *)
(* half on its other side; for the signals of the checked instance the two *)
(* agree on every list, in every order.                                    *)
(***************************************************************************)
EXTENDS Integers, Sequences, SequencesExt

Threats == {"prompt_injection", "jailbreak", "data_exfiltration", "tool_abuse",
            "anomaly", "policy_violation", "malware_in_file", "rootkit",
            "kernel_exploit", "kernel_integrity", "unknown"}

DefaultWeights == [sentinel |-> 35, policy |-> 20, behavior |-> 20,
                   artifact |-> 15, kernel |-> 15, forensics |-> 10]

Signal == [agent : DOMAIN DefaultWeights, threat : Threats,
           score : 0..100, conf : 0..100]

\* Hundredths of a weight, two-hundredths of the confidence factor.
Point == 100 * 200

\* score * weight * (0.5 + 0.5 * confidence)
Contribution(s) == s.score * DefaultWeights[s.agent] * (100 + s.conf)

\* Signals that count towards the bump for several strong ones.
IsStrong(s) == s.score >= 70 /\ s.conf >= 60

\* Threat types with a deterministic floor (both groups add 50).
Floored == Threats \ {"anomaly", "unknown"}

-------------------------------------------------------------------------------
(***************************************************************************)
(* What the three loops of aggregate_risk have gathered from the signals   *)
(* seen so far.                                                            *)
(***************************************************************************)
Evidence == [total : Nat, strong : Nat, floor : {0, 50}]

NoEvidence == [total |-> 0, strong |-> 0, floor |-> 0]

\* Mutant of Weigh: the last signal's floor replaces the highest so far.
WeighLastFloor(ev, s) ==
    [total  |-> ev.total + Contribution(s),
     strong |-> ev.strong + (IF IsStrong(s) THEN 1 ELSE 0),
     floor  |-> IF s.threat \in Floored THEN 50 ELSE 0]

\* Mutant of Weigh: a threat gets its floor only when the signal is strong.
WeighStrongFloor(ev, s) ==
    [total  |-> ev.total + Contribution(s),
     strong |-> ev.strong + (IF IsStrong(s) THEN 1 ELSE 0),
     floor  |-> IF s.threat \in Floored /\ IsStrong(s) THEN 50 ELSE ev.floor]

Weigh(ev, s) ==
    [total  |-> ev.total + Contribution(s),
     strong |-> ev.strong + (IF IsStrong(s) THEN 1 ELSE 0),
     floor  |-> IF s.threat \in Floored THEN 50 ELSE ev.floor]

Bump(strong) == IF strong < 2 THEN 0
                ELSE IF strong < 4 THEN 5 * (strong - 1) ELSE 15

\* round(): to the nearest point, a half to the even one.
Rounded(units) ==
    LET q == units \div Point
        r == units % Point
    IN  IF 2 * r > Point \/ (2 * r = Point /\ q % 2 = 1) THEN q + 1 ELSE q

ClampInt(units) == IF Rounded(units) > 100 THEN 100 ELSE Rounded(units)

RiskOf(ev) == ClampInt(ev.total + Point * (Bump(ev.strong) + ev.floor))

\* The evidence of a whole list, weighed from its first signal on.
Gathered(signals) ==
    LET weighed[n \in 0..Len(signals)] ==
            IF n = 0 THEN NoEvidence ELSE Weigh(weighed[n-1], signals[n])
    IN  weighed[Len(signals)]

AggregateRisk(signals) == RiskOf(Gathered(signals))

-------------------------------------------------------------------------------
Action == {"allow", "log_monitor", "sanitize", "block_isolate"}

\* The order of severity in ResponseEngine.apply.
Rank(action) == CASE action = "allow"         -> 0
                  [] action = "log_monitor"   -> 1
                  [] action = "sanitize"      -> 2
                  [] action = "block_isolate" -> 3

(***************************************************************************)
(* Thresholds as the environment or a stored configuration gives them.     *)
(* PUT /config insists on 0 <= allow <= monitor <= sanitize <= 100; the    *)
(* environment is not checked, so nothing below relies on their order.     *)
(***************************************************************************)
Thresholds == [allow : Int, monitor : Int, sanitize : Int]

DefaultThresholds == [allow |-> 30, monitor |-> 60, sanitize |-> 80]

\* risk_score_to_decision_action
ActionFor(risk, t) ==
    IF risk <= t.allow THEN "allow"
    ELSE IF risk <= t.monitor THEN "log_monitor"
    ELSE IF risk <= t.sanitize THEN "sanitize"
    ELSE "block_isolate"

\* ResponseEngine.apply: the requested action wins when it is stricter.
Enforced(requested, risk, t) ==
    IF Rank(requested) > Rank(ActionFor(risk, t)) THEN requested
    ELSE ActionFor(risk, t)
===============================================================================
