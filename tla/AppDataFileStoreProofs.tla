----------------------- MODULE AppDataFileStoreProofs -----------------------
(***************************************************************************)
(* What the gated repositories keep, proved for every set of entries and   *)
(* requests and every number of attempts. The gate makes one request work  *)
(* on the files at a time; what the files hold then follows from what the  *)
(* one that holds the gate has read so far (Progress).                     *)
(***************************************************************************)
EXTENDS AppDataFileStore, TLAPS

Inside(t) == task[t].pc \notin {"idle", "gate"}

\* Whoever is past the gate holds it, and nobody else does.
GateHeld == \A t \in Tasks : Inside(t) <=> gate = t

\* What a request has in its hands at each step of an append.
Progress(t) ==
    /\ task[t].pc \in {"write", "replace"} =>
          /\ task[t].entry \in task[t].rows
          /\ lost \/ task[t].stale \/ acked \subseteq task[t].rows
    /\ task[t].pc \in {"copy", "swap", "saved"} => task[t].entry \in primary.rows
    /\ task[t].pc = "swap" => task[t].copy.rows = primary.rows /\ (damaged \/ task[t].copy.ok)
    /\ task[t].pc = "saved" => missed \/ task[t].entry \in backup.rows

\* A file that is not there has never held anything.
AbsentIsEmpty == ~primary.there => primary.rows = {}

IInv ==
    /\ TypeOK /\ OnlyDamageTears /\ EntriesKept /\ BackupFollows
    /\ GateHeld /\ AbsentIsEmpty
    /\ \A t \in Tasks : Progress(t)

-----------------------------------------------------------------------------
(* Typing.                                                                 *)

LEMMA Values ==
  /\ Absent \in FileType /\ NoEntry \in Entries /\ Idle \in TaskType
  /\ \A R \in SUBSET Entries : Holding(R) \in FileType
<1>1. Absent \in FileType /\ \A R \in SUBSET Entries : Holding(R) \in FileType
  BY DEF Absent, Holding, FileType
<1>2. NoEntry \in Entries
  BY AppDataFileStoreAssumption DEF NoEntry
<1>3. Idle \in TaskType
  BY <1>1, <1>2, AppDataFileStoreAssumption DEF Idle, TaskType
<1> QED
  BY <1>1, <1>2, <1>3

\* A step of one request changes its record to another of the type.
LEMMA OneTask ==
  ASSUME task \in [Tasks -> TaskType], NEW t \in Tasks, NEW r \in TaskType,
         task' = [task EXCEPT ![t] = r]
  PROVE  /\ task' \in [Tasks -> TaskType] /\ task'[t] = r
         /\ \A u \in Tasks : u # t => task'[u] = task[u]
  OBVIOUS

LEMMA GoToTask ==
  ASSUME task \in [Tasks -> TaskType], NEW t \in Tasks,
         NEW pc \in {"load", "loadBackup", "preserve", "replace", "copy", "leave", "saved"},
         GoTo(t, pc)
  PROVE  /\ task' \in [Tasks -> TaskType]
         /\ task'[t].pc = pc /\ task'[t].rows = task[t].rows /\ task'[t].entry = task[t].entry
         /\ task'[t].stale = task[t].stale /\ task'[t].copy = task[t].copy
         /\ \A u \in Tasks : u # t => task'[u] = task[u]
  BY DEF GoTo, TaskType

LEMMA LoadedTask ==
  ASSUME task \in [Tasks -> TaskType], NEW t \in Tasks, NEW R \in SUBSET Entries,
         NEW stale \in BOOLEAN, Loaded(t, R, stale)
  PROVE  /\ task' \in [Tasks -> TaskType]
         /\ \A u \in Tasks : u # t => task'[u] = task[u]
         /\ \/ task'[t].pc = "leave"
            \/ /\ task'[t].pc = "write" /\ task'[t].stale = stale
               /\ task'[t].entry \in task'[t].rows /\ R \subseteq task'[t].rows
<1>1. CASE task[t].op = "read"
  <2>1. task' = [task EXCEPT ![t] = [task[t] EXCEPT !.pc = "leave"]]
    BY <1>1 DEF Loaded
  <2>2. [task[t] EXCEPT !.pc = "leave"] \in TaskType
    BY DEF TaskType
  <2> QED
    BY <2>1, <2>2 DEF TaskType
<1>2. CASE task[t].op # "read"
  <2> DEFINE r == [task[t] EXCEPT !.pc = "write", !.stale = stale,
                                  !.rows = R \cup {task[t].entry}]
  <2>1. task' = [task EXCEPT ![t] = r]
    BY <1>2 DEF Loaded
  <2>2. r \in TaskType /\ r.pc = "write" /\ r.stale = stale /\ r.entry \in r.rows /\ R \subseteq r.rows
    BY DEF TaskType
  <2> HIDE DEF r
  <2> QED
    BY <2>1, <2>2
<1> QED
  BY <1>1, <1>2

LEMMA FailedTask ==
  ASSUME task \in [Tasks -> TaskType], NEW t \in Tasks, LoadFailed(t)
  PROVE  /\ task' \in [Tasks -> TaskType] /\ task'[t].pc \in {"preserve", "leave"}
         /\ \A u \in Tasks : u # t => task'[u] = task[u]
  BY GoToTask DEF LoadFailed

-----------------------------------------------------------------------------
(* The steps.                                                              *)

LEMMA InitInv == Init => IInv
<1> SUFFICES ASSUME Init PROVE IInv
  OBVIOUS
<1>1. task \in [Tasks -> TaskType] /\ \A t \in Tasks : task[t].pc = "idle"
  BY Values DEF Init, Idle
<1>2. primary = Absent /\ backup = Absent /\ gate = NoTask
      /\ acked = {} /\ missed = FALSE /\ lost = FALSE /\ damaged = FALSE
  BY DEF Init
<1>3. TypeOK
  BY <1>1, <1>2, Values DEF TypeOK
<1>4. GateHeld /\ \A t \in Tasks : Progress(t)
  BY <1>1, <1>2, AppDataFileStoreAssumption DEF GateHeld, Inside, Progress
<1>5. OnlyDamageTears /\ EntriesKept /\ BackupFollows /\ AbsentIsEmpty
  BY <1>2 DEF OnlyDamageTears, EntriesKept, BackupFollows, AbsentIsEmpty, Absent
<1> QED
  BY <1>3, <1>4, <1>5 DEF IInv

\* A request that is past the gate moves and nothing else does: the others'
\* progress speaks of nothing a lone holder changes, for they have made none.
LEMMA OthersOutside ==
  ASSUME IInv, NEW t \in Tasks, gate = t,
         \A u \in Tasks : u # t => task'[u] = task[u]
  PROVE  \A u \in Tasks : u # t => task'[u].pc \in {"idle", "gate"} /\ Progress(u)'
<1> SUFFICES ASSUME NEW u \in Tasks, u # t
             PROVE  task'[u].pc \in {"idle", "gate"} /\ Progress(u)'
  OBVIOUS
<1>1. task'[u].pc \in {"idle", "gate"}
  BY DEF IInv, GateHeld, Inside
<1> QED
  BY <1>1 DEF Progress

\* The steps that change no file and no history.
LEMMA QuietStep ==
  ASSUME IInv, NEW t \in Tasks, UNCHANGED <<files, history>>,
         task' \in [Tasks -> TaskType], gate' \in Tasks \cup {NoTask},
         \A u \in Tasks : u # t => task'[u] = task[u] /\ (gate' = u <=> gate = u),
         Inside(t)' <=> gate' = t, Progress(t)'
  PROVE  IInv'
<1>1. TypeOK'
  BY DEF IInv, TypeOK, files, history
<1>2. (OnlyDamageTears /\ EntriesKept /\ BackupFollows /\ AbsentIsEmpty)'
  BY DEF IInv, OnlyDamageTears, EntriesKept, BackupFollows, AbsentIsEmpty, files, history
<1>3. GateHeld'
  BY DEF IInv, GateHeld, Inside
<1>4. \A u \in Tasks : u # t => Progress(u)'
  BY DEF IInv, Progress, files, history
<1> QED
  BY <1>1, <1>2, <1>3, <1>4 DEF IInv

\* The steps of a holder that change no file and no history and keep the gate.
LEMMA HolderStep ==
  ASSUME IInv, NEW t \in Tasks, UNCHANGED <<files, history, gate>>,
         gate = t, task' \in [Tasks -> TaskType],
         \A u \in Tasks : u # t => task'[u] = task[u],
         task'[t].pc \notin {"idle", "gate"}, Progress(t)'
  PROVE  IInv'
<1>1. gate' \in Tasks \cup {NoTask} /\ (Inside(t)' <=> gate' = t)
  BY DEF IInv, TypeOK, Inside
<1> QED
  BY <1>1, QuietStep

LEMMA CallKeeps ==
  ASSUME IInv, NEW t \in Tasks, Call(t)
  PROVE  IInv'
<1> DEFINE read == [Idle EXCEPT !.pc = "gate"]
           append(e) == [Idle EXCEPT !.pc = "gate", !.op = "append", !.entry = e]
<1>1. read \in TaskType /\ read.pc = "gate"
      /\ \A e \in Entries : append(e) \in TaskType /\ append(e).pc = "gate"
  BY Values DEF Idle, TaskType
<1>2. PICK r \in TaskType : r.pc = "gate" /\ task' = [task EXCEPT ![t] = r]
  <2> HIDE DEF read, append
  <2>1. task' = [task EXCEPT ![t] = read] \/ \E e \in Entries : task' = [task EXCEPT ![t] = append(e)]
    BY DEF Call, read, append
  <2> QED
    BY <1>1, <2>1
<1>3. task' \in [Tasks -> TaskType] /\ task'[t].pc = "gate" /\ \A u \in Tasks : u # t => task'[u] = task[u]
  BY <1>2 DEF IInv, TypeOK
<1>4. UNCHANGED <<files, history>> /\ gate' = gate /\ gate # t
  BY DEF Call, At, IInv, GateHeld, Inside
<1>5. Inside(t)' <=> gate' = t
  BY <1>3, <1>4 DEF Inside
<1>6. Progress(t)'
  BY <1>3 DEF Progress
<1>7. gate' \in Tasks \cup {NoTask}
  BY <1>4 DEF IInv, TypeOK
<1> QED
  BY <1>3, <1>4, <1>5, <1>6, <1>7, QuietStep

LEMMA EnterKeeps ==
  ASSUME IInv, NEW t \in Tasks, Enter(t)
  PROVE  IInv'
<1>1. task' \in [Tasks -> TaskType] /\ task'[t].pc = "load" /\ \A u \in Tasks : u # t => task'[u] = task[u]
  BY GoToTask DEF Enter, IInv, TypeOK
<1>2. UNCHANGED <<files, history>> /\ gate = NoTask /\ gate' = t
  BY DEF Enter
<1>3. \A u \in Tasks : u # t => (gate' = u <=> gate = u)
  BY <1>2, AppDataFileStoreAssumption
<1>4. (Inside(t)' <=> gate' = t) /\ Progress(t)'
  BY <1>1, <1>2 DEF Inside, Progress
<1> QED
  BY <1>1, <1>2, <1>3, <1>4, QuietStep

LEMMA LoadKeeps ==
  ASSUME IInv, NEW t \in Tasks, LoadPrimary(t) \/ LoadBackup(t)
  PROVE  IInv'
<1>1. gate = t /\ UNCHANGED <<files, history, gate>> /\ task \in [Tasks -> TaskType]
  BY DEF LoadPrimary, LoadBackup, At, IInv, GateHeld, Inside, TypeOK
<1>2. primary.rows \in SUBSET Entries /\ backup.rows \in SUBSET Entries /\ missed \in BOOLEAN
  BY DEF IInv, TypeOK, FileType
<1>3. ASSUME NEW R \in SUBSET Entries, NEW stale \in BOOLEAN, Loaded(t, R, stale),
             lost \/ stale \/ acked \subseteq R
      PROVE  IInv'
  <2>1. /\ task' \in [Tasks -> TaskType]
        /\ \A u \in Tasks : u # t => task'[u] = task[u]
        /\ \/ task'[t].pc = "leave"
           \/ /\ task'[t].pc = "write" /\ task'[t].stale = stale
              /\ task'[t].entry \in task'[t].rows /\ R \subseteq task'[t].rows
    BY <1>1, <1>3, LoadedTask
  <2>2. Progress(t)'
    BY <1>1, <1>3, <2>1 DEF Progress, history
  <2> QED
    BY <1>1, <2>1, <2>2, HolderStep
<1>4. CASE LoadFailed(t)
  <2>1. task' \in [Tasks -> TaskType] /\ task'[t].pc \in {"preserve", "leave"}
        /\ \A u \in Tasks : u # t => task'[u] = task[u]
    BY <1>1, <1>4, FailedTask
  <2>2. Progress(t)'
    BY <2>1 DEF Progress
  <2> QED
    BY <1>1, <2>1, <2>2, HolderStep
<1>5. CASE GoTo(t, "loadBackup")
  <2>1. task' \in [Tasks -> TaskType] /\ task'[t].pc = "loadBackup"
        /\ \A u \in Tasks : u # t => task'[u] = task[u]
    BY <1>1, <1>5, GoToTask
  <2>2. Progress(t)'
    BY <2>1 DEF Progress
  <2> QED
    BY <1>1, <2>1, <2>2, HolderStep
<1>6. CASE ~primary.there /\ Loaded(t, {}, FALSE)
  <2>1. lost \/ acked \subseteq {}
    BY <1>6 DEF IInv, EntriesKept, AbsentIsEmpty
  <2> QED
    BY <1>3, <1>6, <2>1
<1>7. CASE Loaded(t, primary.rows, FALSE)
  <2>1. lost \/ acked \subseteq primary.rows
    BY DEF IInv, EntriesKept
  <2> QED
    BY <1>2, <1>3, <1>7, <2>1
<1>8. CASE Loaded(t, backup.rows, missed)
  <2>1. lost \/ missed \/ acked \subseteq backup.rows
    BY DEF IInv, BackupFollows
  <2> QED
    BY <1>2, <1>3, <1>8, <2>1
<1> QED
  BY <1>4, <1>5, <1>6, <1>7, <1>8 DEF LoadPrimary, LoadBackup

LEMMA PreserveKeeps ==
  ASSUME IInv, NEW t \in Tasks, Preserve(t)
  PROVE  IInv'
<1>1. gate = t /\ UNCHANGED <<files, history, gate>>
  BY DEF Preserve, At, IInv, GateHeld, Inside
<1>2. task' \in [Tasks -> TaskType] /\ task'[t].pc = "leave" /\ \A u \in Tasks : u # t => task'[u] = task[u]
  BY GoToTask DEF Preserve, IInv, TypeOK
<1>3. Progress(t)'
  BY <1>2 DEF Progress
<1> QED
  BY <1>1, <1>2, <1>3, HolderStep

LEMMA WriteKeeps ==
  ASSUME IInv, NEW t \in Tasks, WriteTemp(t)
  PROVE  IInv'
<1>1. gate = t /\ UNCHANGED <<files, history, gate>> /\ task[t].pc = "write"
  BY DEF WriteTemp, At, IInv, GateHeld, Inside
<1>2. /\ task' \in [Tasks -> TaskType] /\ task'[t].pc \in {"replace", "leave"}
      /\ task'[t].rows = task[t].rows /\ task'[t].entry = task[t].entry /\ task'[t].stale = task[t].stale
      /\ \A u \in Tasks : u # t => task'[u] = task[u]
  BY GoToTask DEF WriteTemp, IInv, TypeOK
<1>3. Progress(t)
  BY DEF IInv
<1>4. Progress(t)'
  BY <1>1, <1>2, <1>3 DEF Progress, history
<1> QED
  BY <1>1, <1>2, <1>4, HolderStep

LEMMA ReplaceKeeps ==
  ASSUME IInv, NEW t \in Tasks, Replace(t)
  PROVE  IInv'
<1>1. gate = t /\ gate' = gate /\ backup' = backup /\ acked' = acked /\ missed' = missed
      /\ damaged' = damaged /\ task[t].pc = "replace"
  BY DEF Replace, At, IInv, GateHeld, Inside
<1>2. Progress(t)
  BY DEF IInv
<1>3. CASE primary' = Holding(task[t].rows) /\ lost' = (lost \/ task[t].stale) /\ GoTo(t, "copy")
  <2>1. /\ task' \in [Tasks -> TaskType] /\ task'[t].pc = "copy" /\ task'[t].entry = task[t].entry
        /\ \A u \in Tasks : u # t => task'[u] = task[u]
    BY <1>3, GoToTask DEF IInv, TypeOK
  <2>2. primary'.rows = task[t].rows /\ primary'.ok /\ primary'.there
    BY <1>3 DEF Holding
  <2>3. task[t].rows \in SUBSET Entries /\ task[t].stale \in BOOLEAN
    BY DEF IInv, TypeOK, TaskType
  <2>4. primary' \in FileType /\ lost' \in BOOLEAN
    BY <1>3, <2>3, Values DEF IInv, TypeOK
  <2>5. TypeOK'
    BY <1>1, <2>1, <2>4 DEF IInv, TypeOK
  <2>6. EntriesKept'
    BY <1>1, <1>2, <1>3, <2>2 DEF Progress, EntriesKept
  <2>7. BackupFollows' /\ OnlyDamageTears' /\ AbsentIsEmpty'
    BY <1>1, <1>3, <2>2 DEF IInv, BackupFollows, OnlyDamageTears, AbsentIsEmpty
  <2>8. GateHeld'
    BY <1>1, <2>1 DEF IInv, GateHeld, Inside
  <2>9. Progress(t)'
    BY <1>1, <1>2, <2>1, <2>2 DEF Progress
  <2>10. \A u \in Tasks : u # t => Progress(u)'
    BY <1>1, <2>1, OthersOutside
  <2> QED
    BY <2>5, <2>6, <2>7, <2>8, <2>9, <2>10 DEF IInv
<1>4. CASE GoTo(t, "leave") /\ UNCHANGED <<primary, lost>>
  <2>1. task' \in [Tasks -> TaskType] /\ task'[t].pc = "leave" /\ \A u \in Tasks : u # t => task'[u] = task[u]
    BY <1>4, GoToTask DEF IInv, TypeOK
  <2>2. UNCHANGED <<files, history, gate>>
    BY <1>1, <1>4 DEF files, history
  <2>3. Progress(t)'
    BY <2>1 DEF Progress
  <2> QED
    BY <1>1, <2>1, <2>2, <2>3, HolderStep
<1>5. CASE /\ task[t].tries + 1 < MaxAttempts
           /\ task' = [task EXCEPT ![t].tries = task[t].tries + 1]
           /\ UNCHANGED <<primary, lost>>
  <2> DEFINE again == [task[t] EXCEPT !.tries = task[t].tries + 1]
  <2>1. task \in [Tasks -> TaskType] /\ task[t] \in TaskType
    BY DEF IInv, TypeOK
  <2>2. task[t].tries + 1 \in 0..(MaxAttempts - 1)
    BY <1>5, <2>1, AppDataFileStoreAssumption DEF TaskType
  <2>3. again \in TaskType /\ again.pc = "replace" /\ again.rows = task[t].rows
        /\ again.entry = task[t].entry /\ again.stale = task[t].stale
    BY <1>1, <2>1, <2>2 DEF TaskType
  <2>4. task' = [task EXCEPT ![t] = again]
    BY <1>5
  <2> HIDE DEF again
  <2>5. task' \in [Tasks -> TaskType] /\ task'[t] = again /\ \A u \in Tasks : u # t => task'[u] = task[u]
    BY <2>1, <2>3, <2>4
  <2>6. UNCHANGED <<files, history, gate>>
    BY <1>1, <1>5 DEF files, history
  <2>7. Progress(t)'
    BY <1>1, <1>2, <1>5, <2>3, <2>5 DEF Progress
  <2> QED
    BY <1>1, <2>3, <2>5, <2>6, <2>7, HolderStep
<1> QED
  BY <1>3, <1>4, <1>5 DEF Replace

LEMMA CopyKeeps ==
  ASSUME IInv, NEW t \in Tasks, CopyPrimary(t)
  PROVE  IInv'
<1>1. gate = t /\ gate' = gate /\ UNCHANGED files /\ acked' = acked /\ lost' = lost
      /\ damaged' = damaged /\ task[t].pc = "copy"
  BY DEF CopyPrimary, At, IInv, GateHeld, Inside
<1>2. Progress(t) /\ OnlyDamageTears
  BY DEF IInv
<1>3. CASE task' = [task EXCEPT ![t].pc = "swap", ![t].copy = primary] /\ UNCHANGED missed
  <2> DEFINE copied == [task[t] EXCEPT !.pc = "swap", !.copy = primary]
  <2>4. task \in [Tasks -> TaskType] /\ primary \in FileType
    BY DEF IInv, TypeOK
  <2>5. /\ copied \in TaskType /\ copied.pc = "swap" /\ copied.entry = task[t].entry
        /\ copied.copy = primary
    BY <2>4 DEF TaskType
  <2>6. task' = [task EXCEPT ![t] = copied]
    BY <1>3
  <2> HIDE DEF copied
  <2>1. /\ task' \in [Tasks -> TaskType] /\ task'[t].pc = "swap" /\ task'[t].entry = task[t].entry
        /\ task'[t].copy = primary /\ \A u \in Tasks : u # t => task'[u] = task[u]
    BY <2>4, <2>5, <2>6
  <2>2. UNCHANGED <<files, history, gate>>
    BY <1>1, <1>3 DEF history
  <2>3. Progress(t)'
    BY <1>1, <1>2, <2>1 DEF Progress, OnlyDamageTears, files
  <2> QED
    BY <1>1, <2>1, <2>2, <2>3, HolderStep
<1>4. CASE GoTo(t, "saved") /\ missed' = TRUE
  <2>1. /\ task' \in [Tasks -> TaskType] /\ task'[t].pc = "saved" /\ task'[t].entry = task[t].entry
        /\ \A u \in Tasks : u # t => task'[u] = task[u]
    BY <1>4, GoToTask DEF IInv, TypeOK
  <2>2. TypeOK'
    BY <1>1, <1>4, <2>1 DEF IInv, TypeOK, files
  <2>3. (EntriesKept /\ BackupFollows /\ OnlyDamageTears /\ AbsentIsEmpty)'
    BY <1>1, <1>4 DEF IInv, EntriesKept, BackupFollows, OnlyDamageTears, AbsentIsEmpty, files
  <2>4. GateHeld'
    BY <1>1, <2>1 DEF IInv, GateHeld, Inside
  <2>5. Progress(t)'
    BY <1>1, <1>2, <1>4, <2>1 DEF Progress, files
  <2>6. \A u \in Tasks : u # t => Progress(u)'
    BY <1>1, <2>1, OthersOutside
  <2> QED
    BY <2>2, <2>3, <2>4, <2>5, <2>6 DEF IInv
<1> QED
  BY <1>3, <1>4 DEF CopyPrimary

LEMMA SwapKeeps ==
  ASSUME IInv, NEW t \in Tasks, SwapBackup(t)
  PROVE  IInv'
<1>1. gate = t /\ gate' = gate /\ primary' = primary /\ acked' = acked /\ lost' = lost
      /\ damaged' = damaged /\ task[t].pc = "swap"
  BY DEF SwapBackup, At, IInv, GateHeld, Inside
<1>2. Progress(t)
  BY DEF IInv
<1>3. /\ task' \in [Tasks -> TaskType] /\ task'[t].pc = "saved" /\ task'[t].entry = task[t].entry
      /\ \A u \in Tasks : u # t => task'[u] = task[u]
  BY GoToTask DEF SwapBackup, IInv, TypeOK
<1>4. GateHeld'
  BY <1>1, <1>3 DEF IInv, GateHeld, Inside
<1>5. \A u \in Tasks : u # t => Progress(u)'
  BY <1>1, <1>3, OthersOutside
<1>6. EntriesKept' /\ AbsentIsEmpty'
  BY <1>1 DEF IInv, EntriesKept, AbsentIsEmpty
<1>7. CASE backup' = task[t].copy /\ missed' = FALSE
  <2>1. task[t].copy \in FileType
    BY DEF IInv, TypeOK, TaskType
  <2>2. TypeOK'
    BY <1>1, <1>3, <1>7, <2>1 DEF IInv, TypeOK
  <2>3. BackupFollows'
    BY <1>1, <1>2, <1>7 DEF IInv, BackupFollows, EntriesKept, Progress
  <2>4. OnlyDamageTears' /\ Progress(t)'
    BY <1>1, <1>2, <1>3, <1>7 DEF IInv, OnlyDamageTears, Progress
  <2> QED
    BY <1>4, <1>5, <1>6, <2>2, <2>3, <2>4 DEF IInv
<1>8. CASE UNCHANGED backup /\ missed' = TRUE
  <2>1. TypeOK'
    BY <1>1, <1>3, <1>8 DEF IInv, TypeOK
  <2>2. BackupFollows' /\ OnlyDamageTears' /\ Progress(t)'
    BY <1>1, <1>2, <1>3, <1>8 DEF IInv, BackupFollows, OnlyDamageTears, Progress
  <2> QED
    BY <1>4, <1>5, <1>6, <2>1, <2>2 DEF IInv
<1> QED
  BY <1>7, <1>8 DEF SwapBackup

LEMMA LeaveKeeps ==
  ASSUME IInv, NEW t \in Tasks, Leave(t)
  PROVE  IInv'
<1>1. gate = t /\ gate' = NoTask /\ UNCHANGED <<files, missed, lost, damaged>>
      /\ acked' = IF task[t].pc = "saved" THEN acked \cup {task[t].entry} ELSE acked
  BY DEF Leave, At, IInv, GateHeld, Inside
<1>2. task' \in [Tasks -> TaskType] /\ task'[t].pc = "idle" /\ \A u \in Tasks : u # t => task'[u] = task[u]
  <2>1. task' = [task EXCEPT ![t] = Idle] /\ Idle.pc = "idle"
    BY DEF Leave, Idle
  <2> QED
    BY <2>1, Values DEF IInv, TypeOK
<1>3. Progress(t) /\ task[t].entry \in Entries
  BY DEF IInv, TypeOK, TaskType
<1>4. TypeOK'
  BY <1>1, <1>2, <1>3 DEF IInv, TypeOK, files
<1>5. EntriesKept' /\ BackupFollows'
  BY <1>1, <1>3 DEF IInv, EntriesKept, BackupFollows, Progress, files
<1>6. OnlyDamageTears' /\ AbsentIsEmpty'
  BY <1>1 DEF IInv, OnlyDamageTears, AbsentIsEmpty, files
<1>7. GateHeld'
  BY <1>1, <1>2, AppDataFileStoreAssumption DEF IInv, GateHeld, Inside
<1>8. Progress(t)'
  BY <1>2 DEF Progress
<1>9. \A u \in Tasks : u # t => Progress(u)'
  BY <1>1, <1>2, OthersOutside
<1> QED
  BY <1>4, <1>5, <1>6, <1>7, <1>8, <1>9 DEF IInv

LEMMA CrashKeeps == IInv /\ Crash => IInv'
<1> SUFFICES ASSUME IInv, Crash PROVE IInv'
  OBVIOUS
<1>1. task' \in [Tasks -> TaskType] /\ \A t \in Tasks : task'[t].pc = "idle"
  BY Values DEF Crash, Idle
<1>2. UNCHANGED <<files, history>> /\ gate' = NoTask
  BY DEF Crash
<1>3. TypeOK'
  BY <1>1, <1>2 DEF IInv, TypeOK, files, history
<1>4. GateHeld' /\ \A t \in Tasks : Progress(t)'
  BY <1>1, <1>2, AppDataFileStoreAssumption DEF GateHeld, Inside, Progress
<1>5. (EntriesKept /\ BackupFollows /\ OnlyDamageTears /\ AbsentIsEmpty)'
  BY <1>2 DEF IInv, EntriesKept, BackupFollows, OnlyDamageTears, AbsentIsEmpty, files, history
<1> QED
  BY <1>3, <1>4, <1>5 DEF IInv

LEMMA DamageKeeps == IInv /\ Damage => IInv'
<1> SUFFICES ASSUME IInv, Damage PROVE IInv'
  OBVIOUS
<1>1. UNCHANGED <<gate, task, acked, missed, lost>> /\ damaged' = TRUE
  BY DEF Damage
<1>2. /\ primary' \in FileType /\ primary'.rows = primary.rows /\ primary'.there = primary.there
      /\ backup' \in FileType /\ backup'.rows = backup.rows
  BY DEF Damage, IInv, TypeOK, FileType
<1>3. TypeOK'
  BY <1>1, <1>2 DEF IInv, TypeOK
<1>4. GateHeld'
  BY <1>1 DEF IInv, GateHeld, Inside
<1>5. \A t \in Tasks : Progress(t)'
  BY <1>1, <1>2 DEF IInv, Progress
<1>6. (EntriesKept /\ BackupFollows /\ OnlyDamageTears /\ AbsentIsEmpty)'
  BY <1>1, <1>2 DEF IInv, EntriesKept, BackupFollows, OnlyDamageTears, AbsentIsEmpty
<1> QED
  BY <1>3, <1>4, <1>5, <1>6 DEF IInv

LEMMA Inductive == IInv /\ [Next]_vars => IInv'
<1> SUFFICES ASSUME IInv, [Next]_vars PROVE IInv'
  OBVIOUS
<1>1. CASE UNCHANGED vars
  <2>1. UNCHANGED <<files, gate, task, history>>
    BY <1>1 DEF vars
  <2>2. TypeOK' /\ GateHeld'
    BY <2>1 DEF IInv, TypeOK, GateHeld, Inside, files, history
  <2>3. \A t \in Tasks : Progress(t)'
    BY <2>1 DEF IInv, Progress, files, history
  <2>4. (EntriesKept /\ BackupFollows /\ OnlyDamageTears /\ AbsentIsEmpty)'
    BY <2>1 DEF IInv, EntriesKept, BackupFollows, OnlyDamageTears, AbsentIsEmpty, files, history
  <2> QED
    BY <2>2, <2>3, <2>4 DEF IInv
<1>2. ASSUME NEW t \in Tasks, Call(t) \/ Enter(t) \/ Holds(t)
      PROVE  IInv'
  BY <1>2, CallKeeps, EnterKeeps, LoadKeeps, PreserveKeeps, WriteKeeps, ReplaceKeeps,
     CopyKeeps, SwapKeeps, LeaveKeeps DEF Holds
<1> QED
  BY <1>1, <1>2, CrashKeeps, DamageKeeps DEF Next

LEMMA Invariance == Spec => []IInv
  BY InitInv, Inductive, PTL DEF Spec

\* The store's variables keep their types.
THEOREM TypeCorrect == Spec => []TypeOK
<1>1. IInv => TypeOK
  BY DEF IInv
<1> QED
  BY <1>1, Invariance, PTL

\* No interleaving of saves, failures and crashes leaves a file that cannot
\* be read: only something outside the program does.
THEOREM SavesAreAtomic == Spec => []OnlyDamageTears
<1>1. IInv => OnlyDamageTears
  BY DEF IInv
<1> QED
  BY <1>1, Invariance, PTL

\* For any number of writers, entries and failures an acknowledged entry stays
\* in the primary until an append builds on a backup that missed a refresh, and
\* the backup has it as well, unless its last refresh failed.
THEOREM AcknowledgedIsKept == Spec => []AckedIsKept
<1>1. IInv => AckedIsKept
  BY DEF IInv, AckedIsKept
<1> QED
  BY <1>1, Invariance, PTL
=============================================================================
