----------------------------- MODULE MCRateLimit -----------------------------
(***************************************************************************)
(* Instance of RateLimit: three requests of two clients over two workers   *)
(* and four windows.                                                       *)
(***************************************************************************)
EXTENDS RateLimit, TLC

CONSTANTS r1, r2, r3, x1, x2, a1, a2

MCSymmetry ==
    Permutations({r1, r2, r3}) \union Permutations({x1, x2})
        \union Permutations({a1, a2})

===============================================================================
