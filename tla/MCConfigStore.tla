---------------------------- MODULE MCConfigStore ----------------------------
(* Instance of ConfigStore: two administrators, one threshold triple that  *)
(* validates and one that does not (and which the environment may set).    *)
EXTENDS ConfigStore, TLC

Triple(a, m, s) == [allow |-> a, monitor |-> m, sanitize |-> s]

MCLimits == {Triple(30, 60, 80), Triple(60, 30, 80)}

MCDefaultContent == [limits |-> Triple(60, 30, 80), patterns |-> Patterns]

\* The administrators are interchangeable.
Symmetry == Permutations(Admins)
===============================================================================
