------------------------------- MODULE MCAtRest -------------------------------
(***************************************************************************)
(* Two backends; two data keys; a Redis that is empty or holds what an     *)
(* earlier release wrote, in the clear, in a "none" envelope or under the  *)
(* first key in the v1 or v2 format.  There is room for one of two rules.  *)
(* The envelope in the clear holds one, without a version (which reads as  *)
(* 1); there hosts may be slow, and two merges may drop and add.           *)
(***************************************************************************)
EXTENDS AtRest, TLC

CONSTANTS p, q

Symmetry == Permutations({p, q})

Base == [env |-> "shared", api |-> TRUE, hmac |-> "unset", encryption |-> TRUE,
         data |-> 1, transport |-> "ok"]

MCSettings ==
    {Base, [Base EXCEPT !.data = 2],
     [Base EXCEPT !.env = "local", !.data = NoDataKey],
     [Base EXCEPT !.env = "local", !.encryption = FALSE, !.hmac = "ok"],
     [Base EXCEPT !.data = NoDataKey]}

Old(alg, v, label, k, aad, origin) ==
    [alg |-> alg, v |-> v, label |-> label, key |-> k, aad |-> aad,
     content |-> [version |-> 2, items |-> {}], origin |-> origin]

Clear(n)   == Old("absent", 0, "none", NoKey, n, <<FALSE, NoDataKey>>)
Unkeyed(n) == Old("none", 1, "none", NoKey, n, <<FALSE, NoDataKey>>)
Learned(n) == [Unkeyed(n) EXCEPT !.content = [version |-> 1, items |-> {"x"}]]
V1(n) == Old("AES-256-GCM", 1, "master", DataKey(1), n, <<TRUE, 1>>)
V2(n) == Old("AES-256-GCM-DOUBLE", 2, "inner-outer-v2", DataKey(1), n,
             <<TRUE, 1>>)

MCLegacy ==
    {[n \in Names |-> Nothing],
     [n \in Names |-> IF n = "runtime_config" THEN Clear(n)
                      ELSE IF n = "dynamic_rules" THEN Learned(n) ELSE Unkeyed(n)],
     [n \in Names |-> IF n = "runtime_config" THEN V1(n)
                      ELSE IF n = "dynamic_rules" THEN V2(n) ELSE Nothing]}

SlowWhereLearned ==
    slow => redis["dynamic_rules"] = Learned("dynamic_rules")

MCInit == Init /\ SlowWhereLearned

MCSpec == MCInit /\ [][Next]_vars
===============================================================================
