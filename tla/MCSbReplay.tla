----------------------------- MODULE MCSbReplay -----------------------------
(***************************************************************************)
(* Small instances of SbReplay for TLC.                                    *)
(***************************************************************************)
EXTENDS SbReplay

FromEither == BOOLEAN
FromDeadLetters == {TRUE}
=============================================================================
