------------------------------ MODULE RuleLedger ------------------------------
(***************************************************************************)
(* What self-healing promises of the dynamic rules: the stored value only  *)
(* ever changes by one incident's patches being merged, in one step, into  *)
(* the value that is stored at that moment.  No update is lost, none is    *)
(* computed from an older value, and each one takes the next version.      *)
(***************************************************************************)
EXTENDS DynamicRules

CONSTANT Incidents      \* the incidents the traffic can raise

VARIABLES
    rules,              \* the value under autodefense:dynamic_rules:v1
    slow                \* whether the host may miss a regex probe's deadline

LedgerInit ==
    /\ rules = EmptyRules
    /\ slow \in BOOLEAN

Merge(inc) ==
    /\ \E d \in Decoded(rules, slow) :
          /\ Patches(d, inc) # {}
          /\ rules' = Built(d, inc)
    /\ UNCHANGED slow

LedgerNext == \E inc \in Incidents : Merge(inc)

LedgerSpec == LedgerInit /\ [][LedgerNext]_<<rules, slow>>
===============================================================================
