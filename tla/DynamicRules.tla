----------------------------- MODULE DynamicRules -----------------------------
(***************************************************************************)
(* The value stored under autodefense:dynamic_rules:v1 and the pure part   *)
(* of self-healing: what one incident adds to it                           *)
(* (SelfHealingEngine._build_patches, backend/app/core/self_heal.py) and   *)
(* what reading it back can return (RulesStore._decode_from_raw and        *)
(* _filter_safe_regexes, backend/app/core/rules_store.py).                 *)
(***************************************************************************)
EXTENDS Integers, Sequences, SequencesExt

CONSTANTS
    Regex,          \* the patterns, those the four _suggest_* lists hold among them
    NoRegex,        \* no suggestion: the threat is absent or no pattern matches
    MaxRuleGrowth   \* settings.self_heal_max_rule_growth

ASSUME RulesAssumption ==
    /\ NoRegex \notin Regex
    /\ MaxRuleGrowth \in Nat

(***************************************************************************)
(* An incident is the request and the decision handed to ingest_incident,  *)
(* reduced to what _build_patches takes from them: for each threat type,   *)
(* the pattern its _suggest_* function returns for the input text, NoRegex *)
(* when the threat is not among the decision's or nothing matches.         *)
(***************************************************************************)
Incident == [prompt_injection : Regex \union {NoRegex},
             jailbreak        : Regex \union {NoRegex},
             data_exfiltration : Regex \union {NoRegex},
             tool_abuse       : Regex \union {NoRegex}]

\* A rule list no longer than the cap, which is all a save ever writes.
RuleList == UNION {[1..n -> Regex] : n \in 0..MaxRuleGrowth}

DynamicRule == [version : Nat \ {0}, injection : RuleList, exfil : RuleList]

\* What a missing key decodes to.
EmptyRules == [version |-> 1, injection |-> <<>>, exfil |-> <<>>]

-------------------------------------------------------------------------------
(***************************************************************************)
(* _build_patches appends each suggestion its list does not hold yet;      *)
(* injection, jailbreak and tool-abuse patterns share one list.            *)
(***************************************************************************)
AppendNew(list, r) ==
    IF r = NoRegex \/ r \in Range(list) THEN list ELSE Append(list, r)

GrownInjection(d, inc) ==
    AppendNew(AppendNew(AppendNew(d.injection, inc.prompt_injection),
                        inc.jailbreak),
              inc.tool_abuse)

GrownExfil(d, inc) == AppendNew(d.exfil, inc.data_exfiltration)

\* Mutant of Patches: every suggestion is handed back, new or not.
PatchesAlways(d, inc) ==
    ({"injection"} \X ({inc.prompt_injection, inc.jailbreak, inc.tool_abuse}
                          \ {NoRegex}))
        \union
    ({"exfil"} \X ({inc.data_exfiltration} \ {NoRegex}))

\* The patches handed back: a pair of list and pattern for each appended one.
Patches(d, inc) ==
    ({"injection"} \X (Range(GrownInjection(d, inc)) \ Range(d.injection)))
        \union
    ({"exfil"} \X (Range(GrownExfil(d, inc)) \ Range(d.exfil)))

\* Mutant of Capped: no truncation.
Uncapped(list) == list

\* list[: self_heal_max_rule_growth]: the oldest entries survive.
Capped(list) ==
    IF Len(list) <= MaxRuleGrowth THEN list ELSE SubSeq(list, 1, MaxRuleGrowth)

\* Mutant of Built: the payload keeps the exfiltration list as it was read.
BuiltWithoutExfil(d, inc) == [version   |-> d.version + 1,
                              injection |-> Capped(GrownInjection(d, inc)),
                              exfil     |-> d.exfil]

\* The rules a merge writes: grown, capped, and one version further.
Built(d, inc) == [version   |-> d.version + 1,
                  injection |-> Capped(GrownInjection(d, inc)),
                  exfil     |-> Capped(GrownExfil(d, inc))]

-------------------------------------------------------------------------------
(***************************************************************************)
(* Decoding probes every stored pattern in a thread and waits 0.5 s for it *)
(* (regex_probe_timed).  On a host too slow to finish a probe in time the  *)
(* pattern is dropped, so a read may return any subsequence of each list;  *)
(* otherwise it returns the lists themselves, every suggested pattern      *)
(* being a safe one.                                                       *)
(***************************************************************************)
IsSubsequence(t, s) ==
    \E f \in [DOMAIN t -> DOMAIN s] :
        /\ \A i \in DOMAIN t : t[i] = s[f[i]]
        /\ \A i, j \in DOMAIN t : i < j => f[i] < f[j]

Filtered(list, slow) ==
    IF slow THEN {t \in RuleList : IsSubsequence(t, list)} ELSE {list}

Decoded(d, slow) ==
    {[version |-> d.version, injection |-> i, exfil |-> x] :
        i \in Filtered(d.injection, slow), x \in Filtered(d.exfil, slow)}
===============================================================================
