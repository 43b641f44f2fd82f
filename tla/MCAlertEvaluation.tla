-------------------------- MODULE MCAlertEvaluation -------------------------
(***************************************************************************)
(* Small instances of AlertEvaluation for TLC.                             *)
(***************************************************************************)
EXTENDS AlertEvaluation

CONSTANTS r1, r2, q1, q2

TwoRules == {r1, r2}
TwoRequests == {q1, q2}
=============================================================================
