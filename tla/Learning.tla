------------------------------- MODULE Learning -------------------------------
(***************************************************************************)
(* The feedback loop between analysis and self-healing: DefensePipeline    *)
(* (backend/app/services/pipeline.py) answers one request after another    *)
(* with the rules learned so far, and a request answered with sanitize or  *)
(* block_isolate may teach it new ones.  Overlapping requests are          *)
(* SelfHeal's subject: there each merge is shown to be the one step it is  *)
(* here.  Hosts meet the deadline of the regex probes, so the rules are    *)
(* read as they are stored; SelfHeal and Pipeline have the slow ones.      *)
(***************************************************************************)
EXTENDS Agents

CONSTANTS
    Inputs,             \* the requests that may arrive
    Policy,             \* [blocked]: the configured patterns
    SuggestInjection,   \* the patterns of _suggest_injection_regex, in order
    SuggestJailbreak,
    SuggestExfil,
    SuggestToolAbuse,
    MaxVersion          \* bound: updates of the rules

ASSUME LearningAssumption ==
    /\ Inputs \subseteq AnalyzeRequest
    /\ Policy \in [blocked : SUBSET Regex]
    /\ \A list \in {SuggestInjection, SuggestJailbreak, SuggestExfil,
                    SuggestToolAbuse} : list \in Seq(Regex)
    /\ MaxVersion \in Nat

\* Each pattern of _suggest_injection_regex narrows one of
\* BASE_INJECTION_REGEXES: what it matches, the base pattern matches.
ASSUME SuggestionsAreKnown ==
    \A r \in Range(SuggestInjection), p \in Phrase :
        Finds(r, {p}) => \E b \in BaseInjection : Finds(b, {p})

VARIABLES
    rules,              \* the value under autodefense:dynamic_rules:v1
    healing,            \* self_heal_enabled, in settings and configuration
    answered            \* the last request, <<>> before the first (history)

loopVars == <<rules, healing, answered>>

-------------------------------------------------------------------------------
\* Mutant of Signals: what the artifacts raise is not passed on.
SignalsWithoutArtifacts(req, dyn) ==
    PolicySignals(SentinelText(req, dyn), Policy)
      \o SentinelSignals(req, dyn)
      \o BehaviorSignals(req)

\* The signals of /analyze under rules dyn, in the pipeline's order.
Signals(req, dyn) ==
    ArtifactSignals(req.artifacts)
      \o PolicySignals(SentinelText(req, dyn), Policy)
      \o SentinelSignals(req, dyn)
      \o BehaviorSignals(req)

Verdict(req, dyn) ==
    LET risk   == AggregateRisk(Signals(req, dyn))
        wanted == ActionFor(risk, DefaultThresholds)
    IN  Enforced(wanted, risk, DefaultThresholds)

\* The verdict of /scan on the artifacts alone.
ScanVerdict(artifacts) ==
    ActionFor(AggregateRisk(ArtifactSignals(artifacts)), DefaultThresholds)

\* decision.explain.threat_types
ThreatTypes(req, dyn) == {s.threat : s \in Range(Signals(req, dyn))}

\* A _suggest_* function: its first pattern found in the text.
Suggest(patterns, text) ==
    LET found == {i \in DOMAIN patterns : Finds(patterns[i], text)}
    IN  IF found = {} THEN NoRegex ELSE patterns[Min(found)]

(***************************************************************************)
(* What _build_patches takes from a request: it searches the first 2000    *)
(* characters as they came, req.plain, not the normalised text the         *)
(* sentinel searched.                                                      *)
(***************************************************************************)
IncidentOf(req, threats) ==
    LET For(threat, patterns) ==
            IF threat \in threats THEN Suggest(patterns, req.plain) ELSE NoRegex
    IN  [prompt_injection  |-> For("prompt_injection", SuggestInjection),
         jailbreak         |-> For("jailbreak", SuggestJailbreak),
         data_exfiltration |-> For("data_exfiltration", SuggestExfil),
         tool_abuse        |-> For("tool_abuse", SuggestToolAbuse)]

LoopInit ==
    /\ rules = EmptyRules
    /\ healing \in BOOLEAN
    /\ answered = <<>>

\* Mutant of Run: the action does not matter, only that a threat was named.
RunUnflagged(req) ==
    LET incident == IncidentOf(req, ThreatTypes(req, rules))
        learns   == healing /\ Patches(rules, incident) # {}
    IN  /\ rules.version < MaxVersion
        /\ rules' = IF learns THEN Built(rules, incident) ELSE rules
        /\ answered' = <<req>>
        /\ UNCHANGED healing

\* DefensePipeline.run, the answer being Verdict(req, rules).
Run(req) ==
    LET incident == IncidentOf(req, ThreatTypes(req, rules))
        learns   == /\ Verdict(req, rules) \in {"sanitize", "block_isolate"}
                    /\ healing
                    /\ Patches(rules, incident) # {}
    IN  /\ rules.version < MaxVersion
        /\ rules' = IF learns THEN Built(rules, incident) ELSE rules
        /\ answered' = <<req>>
        /\ UNCHANGED healing

LoopNext == \E req \in Inputs : Run(req)

LoopSpec == LoopInit /\ [][LoopNext]_loopVars

-------------------------------------------------------------------------------
\* Type invariant: in particular, no learned list outgrows MaxRuleGrowth.
LoopTypeOK ==
    /\ rules \in DynamicRule
    /\ healing \in BOOLEAN
    /\ answered \in {<<>>} \union {<<req>> : req \in Inputs}

Learned(dyn) == Range(dyn.injection) \union Range(dyn.exfil)

Full(list) == Len(list) = MaxRuleGrowth

(***************************************************************************)
(* Learned rules defend: whatever else a request holds, one with a phrase  *)
(* some learned rule finds is not simply allowed.                          *)
(***************************************************************************)
LearnedNeverAllowed ==
    \A req \in Inputs :
        (\E r \in Learned(rules) : Finds(r, req.input)) =>
            Verdict(req, rules) # "allow"

(***************************************************************************)
(* A repeated attack teaches once: below the cap, handling the request     *)
(* that was just handled leaves the rules and their version alone, so a    *)
(* replayed or retried request does not churn them.  (A pattern searched   *)
(* as the text came may find what normalisation hid from the sentinel:     *)
(* such a request can be named an injection, and suggest one more pattern, *)
(* only once its own rule was learned.)                                    *)
(***************************************************************************)
RepeatTeachesNothing ==
    [][(/\ answered' = answered
        /\ answered'[1].plain \subseteq answered'[1].input
        /\ ~Full(rules.injection) /\ ~Full(rules.exfil)) =>
          rules' = rules]_loopVars

(***************************************************************************)
(* A request's policy violation can be hidden from the policy agent, which *)
(* sees the sentinel's redacted text: by a pattern that finds the very     *)
(* phrase, or by the role-line rule.                                       *)
(***************************************************************************)
Hideable(req) ==
    LET suggested == UNION {Range(SuggestInjection), Range(SuggestJailbreak),
                            Range(SuggestExfil), Range(SuggestToolAbuse)}
    IN  \E b \in Policy.blocked : \E p \in req.input :
            /\ <<b, p>> \in Matching
            /\ req.role \/ \E r \in suggested : <<r, p>> \in Matching

(***************************************************************************)
(* Learning never weakens the verdict on a request, unless it hides a      *)
(* policy violation.                                                       *)
(***************************************************************************)
LearningWeakensOnlyByHiding ==
    [][\A req \in Inputs :
          ~Hideable(req) =>
              Rank(Verdict(req, rules')) >= Rank(Verdict(req, rules))]_loopVars

(***************************************************************************)
(* docs/architecture.md:95-96: new patterns are loaded on every request,   *)
(* "immediately defending against similar attacks".  The code lets a       *)
(* learned pattern redact what blocked_input_regexes would have found.     *)
(***************************************************************************)
LearningNeverWeakens ==
    [][\A req \in Inputs :
          Rank(Verdict(req, rules')) >= Rank(Verdict(req, rules))]_loopVars

(***************************************************************************)
(* /analyze never answers artifacts more leniently than /scan does, however *)
(* harmless the text they come with.                                       *)
(***************************************************************************)
AnalyzeAtLeastScan ==
    \A req \in Inputs :
        Rank(Verdict(req, rules)) >= Rank(ScanVerdict(req.artifacts))

(***************************************************************************)
(* Only flagged traffic teaches: rules change only while self-healing is   *)
(* on, by a request answered with sanitize or block_isolate, and each new  *)
(* pattern finds that request's text as it came.                           *)
(***************************************************************************)
OnlyFlaggedTeach ==
    [][rules' # rules =>
          /\ healing
          /\ Rank(Verdict(answered'[1], rules)) >= Rank("sanitize")
          /\ \A r \in Learned(rules') \ Learned(rules) : Finds(r, answered'[1].plain)]_loopVars
===============================================================================
