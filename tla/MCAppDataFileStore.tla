------------------------ MODULE MCAppDataFileStore -------------------------
(***************************************************************************)
(* Small instances of AppDataFileStore for TLC.                            *)
(***************************************************************************)
EXTENDS AppDataFileStore

CONSTANTS e1, e2, t1, t2, none

TwoEntries == {e1, e2}
TwoTasks == {t1, t2}
=============================================================================
