------------------------------ MODULE MCSelfHeal ------------------------------
(* Instance of SelfHeal: two requests, whose incidents compete for the     *)
(* same list, touch both lists, or repeat one another.                     *)
EXTENDS SelfHeal

CONSTANTS a, b, c, none

MCIncidents ==
    {[prompt_injection |-> a, jailbreak |-> none,
      data_exfiltration |-> none, tool_abuse |-> c],
     [prompt_injection |-> none, jailbreak |-> b,
      data_exfiltration |-> c, tool_abuse |-> none]}
===============================================================================
