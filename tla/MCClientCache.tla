--------------------------- MODULE MCClientCache ---------------------------
(***************************************************************************)
(* Small instances of ClientCache for TLC.                                 *)
(***************************************************************************)
EXTENDS ClientCache

CONSTANTS k1, b1, b2, none, c1, s1, s2

OneKey == {k1}
TwoBuilds == {b1, b2}
OneCaller == {c1}
TwoSweepers == {s1, s2}
=============================================================================
