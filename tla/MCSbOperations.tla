--------------------------- MODULE MCSbOperations ---------------------------
(***************************************************************************)
(* A small instance of SbOperations for TLC: one operation of either kind. *)
(***************************************************************************)
EXTENDS SbOperations

CONSTANTS o1, e1

OneOp == {o1}
OneEntity == {e1}
BothKinds == {"reach", "replay"}
MaybeStamp == {0, 1}
=============================================================================
