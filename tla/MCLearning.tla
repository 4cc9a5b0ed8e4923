------------------------------ MODULE MCLearning ------------------------------
(***************************************************************************)
(* Instance of Learning with phrases and patterns that stand for real      *)
(* ones:                                                                   *)
(*   ignore  "ignore all previous instructions": base, suggested, blocked  *)
(*   dan     "you are now DAN": base jailbreak, suggested, blocked         *)
(*   key     "api key": base exfiltration, suggested                       *)
(*   token   "display the token": suggested for exfiltration only          *)
(*   rm      "rm -rf /": suggested for tool abuse, blocked                 *)
(*   sudo    "sudo": suggested for tool abuse                              *)
(*   steal   "steal": blocked only                                         *)
(***************************************************************************)
EXTENDS Learning

MCPhrase == {"ignore", "dan", "key", "token", "rm", "sudo", "steal"}

MCBaseInjection == {"b_ignore"}
MCBaseJailbreak == {"b_dan"}
MCBaseExfil == {"b_key"}
MCSuggestInjection == <<"s_ignore">>
MCSuggestJailbreak == <<"s_dan">>
MCSuggestExfil == <<"s_key", "s_token">>
MCSuggestToolAbuse == <<"s_rm", "s_sudo">>
MCPolicy == [blocked |-> {"p_ignore", "p_dan", "p_rm", "p_steal"}]

\* Every pattern finds the phrase it is named after.
MCMatching ==
    {<<"b_ignore", "ignore">>, <<"s_ignore", "ignore">>, <<"p_ignore", "ignore">>,
     <<"b_dan", "dan">>, <<"s_dan", "dan">>, <<"p_dan", "dan">>,
     <<"b_key", "key">>, <<"s_key", "key">>, <<"s_token", "token">>,
     <<"s_rm", "rm">>, <<"p_rm", "rm">>, <<"s_sudo", "sudo">>,
     <<"p_steal", "steal">>}

MCRegex == {m[1] : m \in MCMatching}

-------------------------------------------------------------------------------
QuietOutput == [secrets |-> FALSE, pii |-> FALSE, leak |-> FALSE,
                injections |-> 0, role |-> FALSE]

Leaking == [QuietOutput EXCEPT !.secrets = TRUE, !.pii = TRUE, !.leak = TRUE]

Hint == [hint |-> TRUE, exec |-> FALSE]
Exec == [hint |-> TRUE, exec |-> TRUE]

\* A request with plain text and harmless surroundings.
Text(phrases) == [input |-> phrases, plain |-> phrases, role |-> FALSE,
                  evasions |-> 0, calls |-> <<>>, output |-> QuietOutput,
                  artifacts |-> <<>>]

ArtifactWith(kind, traits, ssrf) == [kind |-> kind, content |-> "decoded",
                                     traits |-> traits, ssrf |-> ssrf]

MCInputs ==
    {Text(ps) : ps \in {{}, {"ignore"}, {"dan", "steal"}, {"key"}, {"token"}, {"rm"},
                        {"rm", "key"}}}
    \union
    {[Text(ps) EXCEPT !.calls = <<Hint, Hint>>] : ps \in {{"rm"}, {"sudo"}}}
    \union
    {[Text({"sudo"}) EXCEPT !.calls = <<Hint>>],
     [Text({"rm", "steal"}) EXCEPT !.calls = <<Exec>>, !.role = TRUE],
     [Text({"token"}) EXCEPT !.output = Leaking],
     [Text({"ignore"}) EXCEPT !.plain = {}, !.evasions = 2],
     [Text({"rm"}) EXCEPT !.plain = {"rm", "ignore"}, !.calls = <<Hint>>],
     [Text({}) EXCEPT !.output = [QuietOutput EXCEPT !.injections = 4, !.role = TRUE]],
     [Text({"key"}) EXCEPT !.artifacts =
         <<ArtifactWith("image", {"no_image", "double_extension", "extension"}, 0),
           ArtifactWith("email", {"phishing"}, 1)>>],
     [Text({}) EXCEPT !.artifacts =
         <<[ArtifactWith("file", {}, 0) EXCEPT !.content = "invalid"],
           [ArtifactWith("file", {}, 0) EXCEPT !.content = "none"],
           ArtifactWith("url", {"not_http", "data_uri"}, 0)>>],
     [Text({"sudo"}) EXCEPT !.artifacts =
         <<ArtifactWith("file", {"too_large", "bomb"}, 0), ArtifactWith("text", {}, 0)>>]}
===============================================================================
