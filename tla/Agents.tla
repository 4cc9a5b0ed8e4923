-------------------------------- MODULE Agents --------------------------------
(***************************************************************************)
(* The agents of backend/app/agents as functions from a request to the     *)
(* signals they raise and the text they leave.                             *)
(*                                                                         *)
(* A text is the set of phrases in it that some pattern recognises; a      *)
(* pattern finds a text when it matches one of its phrases.  Redacting a   *)
(* match takes the phrase out.                                             *)
(***************************************************************************)
EXTENDS DynamicRules, Risk, FiniteSets

CONSTANTS
    Phrase,             \* the phrases patterns recognise
    Matching,           \* Matching \subseteq Regex \X Phrase
    BaseInjection,      \* BASE_INJECTION_REGEXES
    BaseJailbreak,      \* BASE_JAILBREAK_REGEXES
    BaseExfil           \* BASE_EXFIL_REGEXES

ASSUME AgentsAssumption ==
    /\ Matching \subseteq Regex \X Phrase
    /\ \A base \in {BaseInjection, BaseJailbreak, BaseExfil} :
          base \subseteq Regex /\ IsFiniteSet(base)

(***************************************************************************)
(* What the agents can tell apart of a request.  input is the text the     *)
(* sentinel searches, after normalize_for_matching; plain is the text as   *)
(* it came, of which a phrase may be gone from input (NFKC joins a letter  *)
(* with the combining mark that follows it) and the other way round.       *)
(***************************************************************************)
Artifact ==
    [kind    : {"text", "email", "url", "file", "image"},
     content : {"none", "invalid", "decoded"},
     traits  : SUBSET {"too_large", "extension", "double_extension", "no_image",
                       "script", "polyglot", "bomb", "not_http", "ssrf",
                       "data_uri", "phishing", "links"},
     ssrf    : Nat]

AnalyzeRequest ==
    [input     : SUBSET Phrase,
     plain     : SUBSET Phrase,
     role      : BOOLEAN,
     evasions  : Nat,
     calls     : Seq([hint : BOOLEAN, exec : BOOLEAN]),
     output    : [secrets : BOOLEAN, pii : BOOLEAN, leak : BOOLEAN,
                  injections : Nat, role : BOOLEAN],
     artifacts : Seq(Artifact)]

\* re.search(r, text)
Finds(r, text) == \E p \in text : <<r, p>> \in Matching

\* re.sub(r, "[[REDACTED]]", text) for every r in rs
Redacted(text, rs) == {p \in text : \A r \in rs : <<r, p>> \notin Matching}

\* min(n, cap)
AtMost(n, cap) == IF n > cap THEN cap ELSE n

Sig(agent, threat, score, conf) ==
    [agent |-> agent, threat |-> threat, score |-> score, conf |-> conf]

\* signals.append under a condition.
When(cond, signal) == IF cond THEN <<signal>> ELSE <<>>

-------------------------------------------------------------------------------
(***************************************************************************)
(* SentinelAgent (agents/sentinel.py).  The learned rules follow the base  *)
(* ones and count again if they match the same phrase.                     *)
(***************************************************************************)
Hits(base, learned, text) ==
    Cardinality({r \in base : Finds(r, text)})
        + Cardinality({i \in DOMAIN learned : Finds(learned[i], text)})

\* _score_matches for n matches, n > 0
MatchScore(n) == AtMost(35 + 15 * (n - 1), 95)

\* Mutant of SentinelSignals: learned patterns take the base ones' place.
SentinelSignalsReplaced(req, dyn) ==
    LET inj == Hits(BaseInjection, dyn.injection, req.input)
        jb  == Hits(BaseJailbreak, <<>>, req.input)
        exf == Hits(IF dyn.exfil = <<>> THEN BaseExfil ELSE {}, dyn.exfil,
                    req.input)
    IN  When(inj > 0, Sig("sentinel", "prompt_injection", MatchScore(inj), 75))
          \o When(jb > 0, Sig("sentinel", "jailbreak", MatchScore(jb), 80))
          \o When(exf > 0,
                  Sig("sentinel", "data_exfiltration", MatchScore(exf), 70))

\* Mutant of SentinelSignals: learned injection patterns are not consulted.
SentinelSignalsUnlearned(req, dyn) ==
    LET inj == Hits(BaseInjection, <<>>, req.input)
        jb  == Hits(BaseJailbreak, <<>>, req.input)
        exf == Hits(BaseExfil, dyn.exfil, req.input)
    IN  When(inj > 0, Sig("sentinel", "prompt_injection", MatchScore(inj), 75))
          \o When(jb > 0, Sig("sentinel", "jailbreak", MatchScore(jb), 80))
          \o When(exf > 0, Sig("sentinel", "data_exfiltration", MatchScore(exf), 70))

SentinelSignals(req, dyn) ==
    LET inj == Hits(BaseInjection, dyn.injection, req.input)
        jb  == Hits(BaseJailbreak, <<>>, req.input)
        exf == Hits(BaseExfil, dyn.exfil, req.input)
    IN  When(inj > 0, Sig("sentinel", "prompt_injection", MatchScore(inj), 75))
          \o When(jb > 0, Sig("sentinel", "jailbreak", MatchScore(jb), 80))
          \o When(exf > 0, Sig("sentinel", "data_exfiltration", MatchScore(exf), 70))
          \o When(req.evasions > 0,
                  Sig("sentinel", "prompt_injection",
                      AtMost(40 + 15 * (req.evasions - 1), 80), 65))

(***************************************************************************)
(* What the sentinel hands on.  An input that opens with a role prefix is  *)
(* one line once its whitespace is collapsed, so the role-line rule, which *)
(* runs after an injection or jailbreak match, takes all of it.            *)
(***************************************************************************)
SentinelText(req, dyn) ==
    IF /\ req.role
       /\ Hits(BaseInjection \union BaseJailbreak, dyn.injection, req.input) > 0
    THEN {}
    ELSE Redacted(req.input, BaseInjection \union BaseJailbreak \union BaseExfil
                                \union Range(dyn.injection) \union Range(dyn.exfil))

-------------------------------------------------------------------------------
\* PolicyAgent (agents/policy.py) looks at the text the sentinel left.  (What
\* its sanitize patterns take out is in the answer's text only.)
PolicySignals(text, policy) ==
    When(\E r \in policy.blocked : Finds(r, text),
         Sig("policy", "policy_violation", 90, 85))

-------------------------------------------------------------------------------
(***************************************************************************)
(* BehaviorAgent (agents/behavior.py).  A tool call is known by whether a  *)
(* TOOL_ABUSE_HINTS string and a CODE_EXECUTION_REGEXES pattern occur in   *)
(* it; an output by what the five groups of checks find in it, PII being   *)
(* looked for after the secrets were redacted.                             *)
(***************************************************************************)
CallSignals(calls) ==
    LET hints == Cardinality({i \in DOMAIN calls : calls[i].hint})
        execs == Cardinality({i \in DOMAIN calls : calls[i].exec})
    IN  When(hints > 0,
             Sig("behavior", "tool_abuse", AtMost(60 + 10 * (hints - 1), 95), 70))
          \o [i \in 1..execs |-> Sig("behavior", "tool_abuse", 90, 85)]

OutputSignals(out) ==
    When(out.secrets, Sig("behavior", "data_exfiltration", 85, 80))
      \o When(out.pii, Sig("behavior", "data_exfiltration", 75, 70))
      \o When(out.leak, Sig("behavior", "data_exfiltration", 80, 75))
      \o When(out.injections > 0,
              Sig("behavior", "anomaly", AtMost(55 + 10 * (out.injections - 1), 90), 80))
      \o When(out.role, Sig("behavior", "anomaly", 55, 60))

BehaviorSignals(req) == CallSignals(req.calls) \o OutputSignals(req.output)

-------------------------------------------------------------------------------
(***************************************************************************)
(* ArtifactAgent (agents/artifact.py).  An artifact is its kind, whether   *)
(* its content is there and decodes, and the traits the checks find; ssrf  *)
(* counts an e-mail's addresses that point inside (a name that does not    *)
(* resolve in time is not suspected).                                      *)
(***************************************************************************)
\* What one check appends to the artifact's findings when it fires.
Row(fires, threat, score, conf, blocks) ==
    When(fires, [signal |-> Sig("artifact", threat, score, conf), blocks |-> blocks])

FileRows(a) ==
    Row("too_large" \in a.traits, "tool_abuse", 85, 90, TRUE)
      \o Row("extension" \in a.traits, "policy_violation", 95, 95, TRUE)
      \o Row("double_extension" \in a.traits, "malware_in_file", 90, 90, TRUE)
      \o Row("no_image" \in a.traits /\ a.kind = "image", "anomaly", 75, 90, TRUE)
      \o Row("script" \in a.traits, "malware_in_file", 90, 80, TRUE)
      \o Row("polyglot" \in a.traits, "malware_in_file", 92, 85, TRUE)
      \o Row("bomb" \in a.traits, "malware_in_file", 90, 85, TRUE)

UrlRows(a) ==
    Row("not_http" \in a.traits, "anomaly", 40, 80, FALSE)
      \o Row("ssrf" \in a.traits, "tool_abuse", 85, 90, TRUE)
      \o Row("data_uri" \in a.traits, "malware_in_file", 80, 90, TRUE)

EmailRows(a) ==
    [i \in 1..AtMost(a.ssrf, 20) |->
        [signal |-> Sig("artifact", "anomaly", 70, 80), blocks |-> FALSE]]
      \o Row("phishing" \in a.traits, "anomaly", 65, 70, FALSE)
      \o Row("links" \in a.traits /\ "phishing" \notin a.traits,
             "anomaly", 55, 70, FALSE)

IsFile(a) == a.kind \in {"file", "image"}

\* The rows of the checks that fire for one artifact.
Rows(a) ==
    CASE IsFile(a) /\ a.content = "none"    -> <<>>
      [] IsFile(a) /\ a.content = "invalid" -> Row(TRUE, "anomaly", 60, 80, FALSE)
      [] IsFile(a) /\ a.content = "decoded" -> FileRows(a)
      [] a.kind = "email" -> EmailRows(a)
      [] a.kind = "url"   -> UrlRows(a)
      [] a.kind = "text"  -> <<>>

ArtifactSignals(artifacts) ==
    LET rows == FlattenSeq([i \in 1..AtMost(Len(artifacts), 50) |-> Rows(artifacts[i])])
    IN  [i \in DOMAIN rows |-> rows[i].signal]
          \o When(\E i \in DOMAIN rows : rows[i].blocks,
                  Sig("artifact", "policy_violation", 92, 95))

===============================================================================
