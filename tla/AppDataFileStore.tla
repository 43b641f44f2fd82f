-------------------------- MODULE AppDataFileStore --------------------------
(***************************************************************************)
(* AppDataFileStore and the gated repositories above it, as in             *)
(* AlertHistoryRepository: requests that read the whole store or append an *)
(* entry to it (load, modify, save) behind one semaphore, over a primary   *)
(* file and its .bak, while any file operation may fail, the process may   *)
(* die between any two steps and a file may turn unreadable.               *)
(*                                                                         *)
(* A temp file has a unique name and is seen by its writer only; what it   *)
(* holds is in the writer's record. A file is its entries and whether it   *)
(* deserializes. The store stays below MaxEntries.                         *)
(***************************************************************************)
EXTENDS Naturals

CONSTANTS
    Entries,    \* ids of alert history entries
    Tasks,      \* requests
    NoTask,
    MaxAttempts \* of the replacement (8 in the code)

ASSUME AppDataFileStoreAssumption ==
    /\ Entries # {} /\ NoTask \notin Tasks
    /\ MaxAttempts \in Nat \ {0}

VARIABLES
    primary,    \* monitoring-history.json
    backup,     \* .bak
    gate,       \* Gate: the task that holds the semaphore
    task,       \* the requests
    acked,      \* history: entries whose append returned
    missed,     \* history: the last refresh of the backup failed
    lost,       \* history: a write replaced the primary on the ground of a
                \* backup that had missed a refresh
    damaged     \* history: a file was made unreadable from outside

files == <<primary, backup>>
history == <<acked, missed, lost, damaged>>
vars == <<files, gate, task, history>>

-----------------------------------------------------------------------------
(* Helpers.                                                                *)

Absent == [there |-> FALSE, ok |-> TRUE, rows |-> {}]
Holding(R) == [there |-> TRUE, ok |-> TRUE, rows |-> R]
NoEntry == CHOOSE e \in Entries : TRUE
Idle == [pc |-> "idle", op |-> "read", entry |-> NoEntry, rows |-> {},
         copy |-> Absent, tries |-> 0, stale |-> FALSE]

Init ==
    /\ primary = Absent /\ backup = Absent
    /\ gate = NoTask
    /\ task = [t \in Tasks |-> Idle]
    /\ acked = {} /\ missed = FALSE /\ lost = FALSE /\ damaged = FALSE

At(t, pc) == task[t].pc = pc
GoTo(t, pc) == task' = [task EXCEPT ![t].pc = pc]

\* What a load leads to: GetAllAsync returns the rows, AppendAsync adds its
\* entry to them.
Loaded(t, rows, stale) ==
    task' = [task EXCEPT ![t] = IF task[t].op = "read" THEN [@ EXCEPT !.pc = "leave"]
                                ELSE [@ EXCEPT !.pc = "write", !.stale = stale,
                                               !.rows = rows \cup {task[t].entry}]]

\* Mutant: an append goes on with the empty view a failed read degrades to.
LoadDegraded(t) ==
    task' = [task EXCEPT ![t] = IF task[t].op = "read" THEN [@ EXCEPT !.pc = "preserve"]
                                ELSE [@ EXCEPT !.pc = "write", !.rows = {task[t].entry}]]

\* What a failed load leads to: GetAllAsync keeps copies and returns nothing,
\* AppendAsync (LoadAllForWriteAsync) gives up.
LoadFailed(t) == GoTo(t, IF task[t].op = "read" THEN "preserve" ELSE "leave")

-----------------------------------------------------------------------------
(* A request.                                                              *)

Call(t) ==
    /\ At(t, "idle")
    /\ task' \in {[task EXCEPT ![t] = [Idle EXCEPT !.pc = "gate"]]} \cup
                 {[task EXCEPT ![t] = [Idle EXCEPT !.pc = "gate", !.op = "append", !.entry = e]] : e \in Entries}
    /\ UNCHANGED <<files, gate, history>>

Enter(t) ==
    /\ At(t, "gate") /\ gate = NoTask
    /\ gate' = t
    /\ GoTo(t, "load")
    /\ UNCHANGED <<files, history>>

\* Exists and LoadAsync: the primary, or the backup when the primary is
\* missing or fails to read or to deserialize.
LoadPrimary(t) ==
    /\ At(t, "load")
    /\ \/ ~primary.there /\ ~backup.there /\ Loaded(t, {}, FALSE)
       \/ primary.there /\ primary.ok /\ Loaded(t, primary.rows, FALSE)
       \/ primary.there /\ ~backup.there /\ LoadFailed(t)
       \/ backup.there /\ GoTo(t, "loadBackup")
    /\ UNCHANGED <<files, gate, history>>

LoadBackup(t) ==
    /\ At(t, "loadBackup")
    /\ \/ backup.ok /\ Loaded(t, backup.rows, missed)
       \/ LoadFailed(t)
    /\ UNCHANGED <<files, gate, history>>

\* PreserveUnreadableFile. Nothing reads its .unreadable copies back, so they
\* are not part of the state.
Preserve(t) ==
    /\ At(t, "preserve")
    /\ GoTo(t, "leave")
    /\ UNCHANGED <<files, gate, history>>

-----------------------------------------------------------------------------
(* SaveAsync.                                                              *)

\* Mutant: the contents are written over the file in place.
WriteInPlace(t) ==
    /\ At(t, "write")
    /\ GoTo(t, "replace")
    /\ primary' = [primary EXCEPT !.there = TRUE, !.ok = FALSE]
    /\ UNCHANGED <<backup, gate, history>>

WriteTemp(t) ==
    /\ At(t, "write")
    /\ GoTo(t, "replace") \/ GoTo(t, "leave")
    /\ UNCHANGED <<files, gate, history>>

\* ReplaceOrMoveWithRetryAsync; the last failure deletes the temp and throws.
Replace(t) ==
    /\ At(t, "replace")
    /\ \/ /\ primary' = Holding(task[t].rows)
          /\ lost' = (lost \/ task[t].stale)
          /\ GoTo(t, "copy")
       \/ /\ task[t].tries + 1 < MaxAttempts
          /\ task' = [task EXCEPT ![t].tries = task[t].tries + 1]
          /\ UNCHANGED <<primary, lost>>
       \/ /\ task[t].tries + 1 = MaxAttempts
          /\ GoTo(t, "leave")
          /\ UNCHANGED <<primary, lost>>
    /\ UNCHANGED <<backup, gate, acked, missed, damaged>>

\* TryRefreshBackup: its failures are swallowed, the save has succeeded.
CopyPrimary(t) ==
    /\ At(t, "copy")
    /\ \/ /\ task' = [task EXCEPT ![t].pc = "swap", ![t].copy = primary]
          /\ UNCHANGED missed
       \/ GoTo(t, "saved") /\ missed' = TRUE
    /\ UNCHANGED <<files, gate, acked, lost, damaged>>

\* Mutant: Move does not replace the backup that is there.
MoveBackup(t) ==
    /\ At(t, "swap")
    /\ backup' = IF backup.there THEN backup ELSE task[t].copy
    /\ GoTo(t, "saved")
    /\ UNCHANGED <<primary, gate, history>>

SwapBackup(t) ==
    /\ At(t, "swap")
    /\ \/ backup' = task[t].copy /\ missed' = FALSE
       \/ UNCHANGED backup /\ missed' = TRUE
    /\ GoTo(t, "saved")
    /\ UNCHANGED <<primary, gate, acked, lost, damaged>>

\* Mutant: the gate is released on success only.
LeaveOnSuccess(t) ==
    /\ At(t, "leave") \/ At(t, "saved")
    /\ gate' = IF At(t, "saved") THEN NoTask ELSE gate
    /\ task' = [task EXCEPT ![t] = Idle]
    /\ UNCHANGED <<files, history>>

\* finally { Gate.Release(); }, and the answer.
Leave(t) ==
    /\ At(t, "leave") \/ At(t, "saved")
    /\ gate' = NoTask
    /\ acked' = IF At(t, "saved") THEN acked \cup {task[t].entry} ELSE acked
    /\ task' = [task EXCEPT ![t] = Idle]
    /\ UNCHANGED <<files, missed, lost, damaged>>

-----------------------------------------------------------------------------
(* The environment.                                                        *)

\* The process dies; its temp files stay behind and nobody reads them.
Crash ==
    /\ task' = [t \in Tasks |-> Idle]
    /\ gate' = NoTask
    /\ UNCHANGED <<files, history>>

\* A shape the program does not know, a hand edit, a disk error.
Damage ==
    /\ \/ primary.there /\ primary' = [primary EXCEPT !.ok = FALSE] /\ UNCHANGED backup
       \/ backup.there /\ backup' = [backup EXCEPT !.ok = FALSE] /\ UNCHANGED primary
    /\ damaged' = TRUE
    /\ UNCHANGED <<gate, task, acked, missed, lost>>

Holds(t) ==
    \/ LoadPrimary(t) \/ LoadBackup(t) \/ Preserve(t)
    \/ WriteTemp(t) \/ Replace(t) \/ CopyPrimary(t) \/ SwapBackup(t) \/ Leave(t)

Next ==
    \/ \E t \in Tasks : Call(t) \/ Enter(t) \/ Holds(t)
    \/ Crash \/ Damage

Spec == Init /\ [][Next]_vars

\* File operations return or throw; the semaphore's queue starves nobody.
FairSpec ==
    /\ Spec
    /\ \A t \in Tasks : WF_vars(Holds(t)) /\ SF_vars(Enter(t))

-----------------------------------------------------------------------------
(* Properties.                                                             *)

FileType == [there : BOOLEAN, ok : BOOLEAN, rows : SUBSET Entries]
TaskType == [pc : {"idle", "gate", "load", "loadBackup", "preserve", "write",
                   "replace", "copy", "swap", "leave", "saved"},
             op : {"read", "append"}, entry : Entries, rows : SUBSET Entries,
             copy : FileType, tries : 0..(MaxAttempts - 1), stale : BOOLEAN]

\* Every variable keeps its type.
TypeOK ==
    /\ primary \in FileType /\ backup \in FileType
    /\ gate \in Tasks \cup {NoTask}
    /\ task \in [Tasks -> TaskType]
    /\ acked \subseteq Entries
    /\ missed \in BOOLEAN /\ lost \in BOOLEAN /\ damaged \in BOOLEAN

\* "If the process exits mid-write" nothing is truncated: however saves fail
\* or die half way, only damage from outside makes a file unreadable.
OnlyDamageTears == damaged \/ (primary.ok /\ backup.ok)

\* "Overlapping writers can't interleave a load and a save", and no append
\* goes on after a failed load: an acknowledged entry is in the primary for
\* good, unless an append fell back to a backup whose last refresh had failed.
EntriesKept == ~lost => acked \subseteq primary.rows

\* The backup a reader falls back to has every acknowledged entry, unless its
\* last refresh failed.
BackupFollows == ~missed /\ ~lost => acked \subseteq backup.rows

\* What was acknowledged is there to be read, whichever of the two is read.
AckedIsKept == EntriesKept /\ BackupFollows

\* Every request gets in and returns, whatever fails on its way.
RequestEnds == \A t \in Tasks : task[t].pc # "idle" ~> task[t].pc = "idle"

\* "A real load failure propagates - the append is aborted and the file on
\* disk stays exactly as it was": no failure costs an acknowledged entry.
NoFailureForgets == acked \subseteq primary.rows
=============================================================================
