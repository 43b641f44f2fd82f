--------------------------- MODULE MCApiWorkspace ---------------------------
(* Two requests, two tabs and two sends over one collections store.         *)
EXTENDS ApiWorkspace, TLC

CONSTANTS r1, r2, t1, t2, s1, s2

Symmetric == Permutations({r1, r2}) \cup Permutations({t1, t2})
             \cup Permutations({s1, s2})
=============================================================================
