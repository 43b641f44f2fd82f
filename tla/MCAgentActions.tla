--------------------------- MODULE MCAgentActions ---------------------------
(***************************************************************************)
(* Small instances of AgentActions for TLC.                                *)
(***************************************************************************)
EXTENDS AgentActions

CONSTANTS s1, x, y, c1, c2

ThreeIds == 1 .. 3
OneSession == {s1}
ThreeWanted == {<<Chat, x>>, <<s1, x>>, <<s1, y>>}
TwoTargets == {x, y}
TwoCalls == {c1, c2}
=============================================================================
