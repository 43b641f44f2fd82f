----------------------------- MODULE MCSbReach -----------------------------
(***************************************************************************)
(* Small instances of SbReach for TLC.                                     *)
(***************************************************************************)
EXTENDS SbReach

AllActions == {"Complete", "DeadLetter", "Resubmit"}
RestoringActions == {"Complete", "Resubmit"}
BothCaps == {1, 2}
LargeCap == {2}
=============================================================================
