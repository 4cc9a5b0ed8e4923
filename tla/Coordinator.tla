------------------------------ MODULE Coordinator ------------------------------
(***************************************************************************)
(* One decision, from the first signal to the action enforced:             *)
(* CoordinatorAgent.decide (backend/app/agents/coordinator.py) aggregates  *)
(* the signals in the order the pipeline concatenated them and asks for an *)
(* action, then ResponseEngine.apply enforces it.  The signal list is an   *)
(* input; each step of the loops over it picks the next one.               *)
(***************************************************************************)
EXTENDS Risk

CONSTANTS
    AgentSignals,   \* the signals the agents emit
    ConfiguredLimits,   \* the thresholds that may be in force
    MaxSignals      \* bound: signals per request

ASSUME CoordinatorAssumption ==
    /\ AgentSignals \subseteq Signal
    /\ ConfiguredLimits \subseteq Thresholds
    /\ MaxSignals \in Nat

VARIABLES
    thresholds,     \* risk_thresholds(cfg)
    evidence,       \* what the signals weighed so far add up to
    threats,        \* decision.explain.threat_types
    taken,          \* how many signals were weighed
    decision,       \* decide's action, "none" until it returns
    enforced        \* the response's action, "none" until apply returns

decisionVars == <<thresholds, evidence, threats, taken, decision, enforced>>

DecisionInit ==
    /\ thresholds \in ConfiguredLimits
    /\ evidence = NoEvidence
    /\ threats = {}
    /\ taken = 0
    /\ decision = "none"
    /\ enforced = "none"

\* One more signal of the list.
Take(s) ==
    /\ decision = "none"
    /\ taken < MaxSignals
    /\ evidence' = Weigh(evidence, s)
    /\ threats' = IF s.score > 0 THEN threats \union {s.threat} ELSE threats
    /\ taken' = taken + 1
    /\ UNCHANGED <<thresholds, decision, enforced>>

\* The list is exhausted: risk, action and explanation are fixed.
ChooseAction ==
    /\ decision = "none"
    /\ decision' = ActionFor(RiskOf(evidence), thresholds)
    /\ UNCHANGED <<thresholds, evidence, threats, taken, enforced>>

\* The response engine looks at the same risk and thresholds again.
Apply ==
    /\ decision # "none" /\ enforced = "none"
    /\ enforced' = Enforced(decision, RiskOf(evidence), thresholds)
    /\ UNCHANGED <<thresholds, evidence, threats, taken, decision>>

DecisionNext == (\E s \in AgentSignals : Take(s)) \/ ChooseAction \/ Apply

DecisionSpec == DecisionInit /\ [][DecisionNext]_decisionVars

-------------------------------------------------------------------------------
\* Type invariant; the risk never leaves 0..100 (AnalyzeResponse rejects it).
DecisionTypeOK ==
    /\ thresholds \in Thresholds
    /\ evidence \in Evidence
    /\ threats \subseteq Threats
    /\ taken \in 0..MaxSignals
    /\ decision \in Action \union {"none"}
    /\ enforced \in Action \union {"none"}
    /\ RiskOf(evidence) \in 0..100

(***************************************************************************)
(* More evidence never weakens the answer: whatever signal joins the list, *)
(* and wherever, the action its risk calls for does not go down the        *)
(* ladder, for any thresholds, ordered or not.  So an agent that sees more *)
(* can only make the decision stricter.                                    *)
(***************************************************************************)
EvidenceNeverWeakens ==
    [][Rank(ActionFor(RiskOf(evidence'), thresholds'))
         >= Rank(ActionFor(RiskOf(evidence), thresholds))]_decisionVars

(***************************************************************************)
(* The floor of aggregate_risk: once any signal names a high-impact        *)
(* threat, the risk is at least 50 whatever follows, so no request with    *)
(* such a threat is answered with allow unless allow_max was raised to 50. *)
(***************************************************************************)
ThreatsNeverAllowed ==
    threats \intersect Floored # {} =>
        /\ RiskOf(evidence) >= 50
        /\ decision = "allow" => thresholds.allow >= 50
===============================================================================
