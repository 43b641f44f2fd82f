------------------------ MODULE MCProactiveInsights ------------------------
(***************************************************************************)
(* Small instances of ProactiveInsights, and with it of AlertEvaluation.   *)
(***************************************************************************)
EXTENDS ProactiveInsights

CONSTANTS r1, q1, t1, t2

OneRule == {r1}
OneRequest == {q1}
TwoTasks == {t1, t2}
=============================================================================
