-------------------------- MODULE SbOperationsProofs --------------------------
(***************************************************************************)
(* The safety properties of SbOperations for every set of operations and   *)
(* entities and every bound on work, runs, crashes and journal failures.   *)
(***************************************************************************)
EXTENDS SbOperations, TLAPS

\* Until the service has started, nothing runs and nothing is written.
Asleep ==
    ~up => /\ persists = {}
           /\ \A o \in Ops : op[o].state = "None" /\ Stage(o) = "none"

\* An operation never started has left no trace.
Untouched ==
    \A o \in Ops : runner[o].n = 0 =>
        /\ op[o].state = "None" /\ Stage(o) = "none"
        /\ entries[o].status = "None" /\ disk[o].status = "None"
        /\ \A p \in persists : p.op # o

\* What a pending write says of its operation: the ones that start a stage
\* write Running, and a final status is written of an ended operation only.
PendingWrites ==
    \A p \in persists :
        /\ op[p.op].state # "None" /\ p.status # "None"
        /\ p.by \in {"start", "resume", "transition"} => p.status = "Running"
        /\ p.by = "transition" => Stage(p.op) = "transition"
        /\ p.status \in {"Completed", "Dismissed"} => p.op \in ended

OneTransition ==
    \A p, q \in persists :
        p.by = "transition" /\ q.by = "transition" /\ p.op = q.op => p = q

\* A final state, wherever it is kept, is that of an ended operation.
EndedIsKnown ==
    \A o \in Ops : \/ op[o].state \in {"Completed", "Dismissed"}
                   \/ entries[o].status \in {"Completed", "Dismissed"}
                   \/ disk[o].status \in {"Completed", "Dismissed"}
                   => o \in ended

\* With a sound journal, whatever works or has stamped messages is on disk.
Recorded ==
    losses = 0 =>
        /\ up => entries = disk
        /\ \A o \in Ops : dlq[o] > 0 \/ Busy(o) =>
              disk[o].status # "None" /\ (up => op[o].state # "None")

Bookkeeping == Asleep /\ Untouched /\ PendingWrites /\ OneTransition /\ EndedIsKnown
IInv == TypeOK /\ OneRunner /\ Bookkeeping /\ Recorded /\ StartsExclude

-----------------------------------------------------------------------------
(* Typing.                                                                 *)

LEMMA AnyEntityExists == AnyEntity \in Entities
  BY SbOperationsAssumption DEF AnyEntity

LEMMA NoOpType == NoOp \in OpType /\ NoEntry \in EntryType
  BY AnyEntityExists, SbOperationsAssumption
  DEF NoOp, OpType, NoEntry, EntryType, NoClaim

LEMMA FromEntryType ==
  ASSUME NEW e \in EntryType
  PROVE  FromEntry(e) \in OpType
  BY DEF FromEntry, LoadedState, EntryType, OpType, JournalStatuses, States

\* The updates made to what is known of an operation and of its runner.
LEMMA OpUpdates ==
  ASSUME NEW r \in OpType
  PROVE  /\ \A s \in States : [r EXCEPT !.state = s] \in OpType
         /\ \A count \in 0..MaxWork : [r EXCEPT !.shown = count] \in OpType
         /\ [r EXCEPT !.token = TRUE] \in OpType
  BY DEF OpType

LEMMA RunnerUpdates ==
  ASSUME NEW r \in RunnerType
  PROVE  /\ \A n \in Nat : [r EXCEPT !.n = n] \in RunnerType
         /\ \A pc \in Working \cup {"none"} : [r EXCEPT !.pc = pc] \in RunnerType
         /\ \A count \in 0..MaxWork :
               /\ [r EXCEPT !.done = count] \in RunnerType
               /\ [r EXCEPT !.done = count, !.reports = @ \cup {count}] \in RunnerType
  BY DEF RunnerType

\* A write called of a typed state is typed, with whatever run number it has.
LEMMA PersistCallType ==
  ASSUME TypeOK, NEW o \in Ops, NEW by \in ByCall \cup ByRunner,
         NEW status \in JournalStatuses \cup {Unread, "None"}
  PROVE  /\ PersistCall(o, by, status) \in PersistType
         /\ PersistCall(o, by, status).n = runner[o].n
         /\ \A n \in Nat : [PersistCall(o, by, status) EXCEPT !.n = n] \in PersistType
  BY DEF TypeOK, PersistCall, PersistType, RunnerType

LEMMA InitTyped == Init => TypeOK
<1> SUFFICES ASSUME Init PROVE TypeOK
  OBVIOUS
<1>1. Idle(0) \in RunnerType
  BY SbOperationsAssumption DEF Idle, RunnerType
<1> QED
  BY <1>1, NoOpType DEF Init, TypeOK

\* A runner that stops, whatever state it leaves and whatever it claims.
LEMMA StopsTyped ==
  ASSUME TypeOK, NEW o \in Ops, NEW s \in States,
         NEW claim \in (0..MaxWork) \cup {NoClaim}, NEW shown \in 0..MaxWork,
         RunnerStops(o, s, claim, shown)
  PROVE  /\ op' \in [Ops -> OpType] /\ runner' \in [Ops -> RunnerType]
         /\ persists' \subseteq PersistType /\ ended' \subseteq Ops
<1>1. op' \in [Ops -> OpType]
  <2> DEFINE left == [op[o] EXCEPT !.state = s, !.claim = claim, !.shown = shown]
  <2>1. op[o] \in OpType
    BY DEF TypeOK
  <2>2. left \in OpType
    BY <2>1 DEF OpType
  <2>3. op' = [op EXCEPT ![o] = left]
    BY DEF RunnerStops, TypeOK
  <2> QED
    BY <2>2, <2>3 DEF TypeOK
<1>2. runner' \in [Ops -> RunnerType]
  BY RunnerUpdates DEF RunnerStops, TypeOK
<1>3. PersistCall(o, "final", Unread) \in PersistType
  BY PersistCallType DEF ByRunner
<1> QED
  BY <1>1, <1>2, <1>3 DEF RunnerStops, TypeOK

\* Every way a runner stops, and what it leaves alone.
Stops(o) ==
    \/ ParkStopped(o) \/ RestoreIncomplete(o) \/ RestoreDone(o)
    \/ TransferDone(o) \/ BrokerFails(o) \/ StopCancelled(o)

LEMMA StopsShape ==
  ASSUME TypeOK, NEW o \in Ops, Stops(o)
  PROVE  /\ Busy(o) /\ UNCHANGED <<cancelling, journal, dlq, process>>
         /\ \E s \in {"Completed", "Failed", "Cancelled"},
               claim \in (0..MaxWork) \cup {NoClaim}, shown \in 0..MaxWork :
               RunnerStops(o, s, claim, shown)
<1>1. /\ op[o].shown \in 0..MaxWork /\ runner[o].done \in 0..MaxWork
      /\ RemainderClaim(o) \in (0..MaxWork) \cup {NoClaim}
  BY DEF TypeOK, OpType, RunnerType, RemainderClaim
<1>2. Busy(o) /\ UNCHANGED <<cancelling, journal, dlq, process>>
  BY DEF Stops, ParkStopped, RestoreIncomplete, RestoreDone, TransferDone,
         BrokerFails, StopCancelled, Busy, Working
<1>3. CASE ParkStopped(o)
  BY <1>1, <1>2, <1>3 DEF ParkStopped
<1>4. CASE RestoreIncomplete(o)
  BY <1>1, <1>2, <1>4 DEF RestoreIncomplete
<1>5. CASE RestoreDone(o)
  BY <1>1, <1>2, <1>5 DEF RestoreDone
<1>6. CASE TransferDone(o)
  BY <1>1, <1>2, <1>6 DEF TransferDone
<1>7. CASE BrokerFails(o)
  BY <1>1, <1>2, <1>7 DEF BrokerFails
<1>8. CASE StopCancelled(o)
  BY <1>1, <1>2, <1>8 DEF StopCancelled
<1> QED
  BY <1>3, <1>4, <1>5, <1>6, <1>7, <1>8 DEF Stops

LEMMA StopsKeepsType ==
  ASSUME TypeOK, NEW o \in Ops, Stops(o)
  PROVE  TypeOK'
<1>1. PICK s \in {"Completed", "Failed", "Cancelled"},
           claim \in (0..MaxWork) \cup {NoClaim}, shown \in 0..MaxWork :
           RunnerStops(o, s, claim, shown)
  BY StopsShape
<1>2. s \in States
  BY DEF States
<1>3. /\ op' \in [Ops -> OpType] /\ runner' \in [Ops -> RunnerType]
      /\ persists' \subseteq PersistType /\ ended' \subseteq Ops
  BY <1>1, <1>2, StopsTyped
<1> QED
  BY <1>3, StopsShape DEF TypeOK, journal, process

LEMMA CallKeepsType ==
  ASSUME TypeOK, NEW o \in Ops, Call(o)
  PROVE  TypeOK'
<1> USE DEF States, ByCall, journal, process
<1>0. runner[o].n \in Nat
  BY DEF TypeOK, RunnerType
<1>1. CASE TryStart(o)
  <2>1. op' \in [Ops -> OpType]
    <3>1. PICK e \in Entities, k \in Kinds :
            op' = [op EXCEPT ![o] = [NoOp EXCEPT !.state = "Running",
                                                 !.entity = e, !.kind = k]]
      BY <1>1 DEF TryStart
    <3>2. k \in {"reach", "replay"}
      BY SbOperationsAssumption
    <3>3. [NoOp EXCEPT !.state = "Running", !.entity = e, !.kind = k] \in OpType
      BY <3>2, NoOpType DEF OpType
    <3> QED
      BY <3>1, <3>3 DEF TypeOK
  <2>2. runner' \in [Ops -> RunnerType]
    BY <1>1, RunnerUpdates DEF TryStart, TypeOK
  <2>3. [PersistCall(o, "start", "Running") EXCEPT !.n = 1] \in PersistType
    BY PersistCallType DEF JournalStatuses
  <2> QED
    BY <1>1, <2>1, <2>2, <2>3 DEF TryStart, TypeOK
<1>2. CASE CancelCheck(o)
  BY <1>0, <1>2 DEF CancelCheck, TypeOK
<1>3. CASE Resume(o)
  <2>1. op' \in [Ops -> OpType]
    <3> DEFINE resumed == [op[o] EXCEPT !.state = "Running", !.claim = NoClaim,
                                        !.token = FALSE]
    <3>1. op[o] \in OpType
      BY DEF TypeOK
    <3>2. resumed \in OpType
      BY <3>1 DEF OpType
    <3>3. op' = [op EXCEPT ![o] = resumed]
      BY <1>3 DEF Resume, TypeOK
    <3> QED
      BY <3>2, <3>3 DEF TypeOK
  <2>2. runner' \in [Ops -> RunnerType]
    <3>1. runner[o].n + 1 \in Nat
      BY <1>0
    <3>2. runner' = [runner EXCEPT ![o] = [runner[o] EXCEPT !.n = runner[o].n + 1]]
      BY <1>3 DEF Resume, TypeOK
    <3>3. runner[o] \in RunnerType
      BY DEF TypeOK
    <3>4. [runner[o] EXCEPT !.n = runner[o].n + 1] \in RunnerType
      BY <3>1, <3>3, RunnerUpdates
    <3> QED
      BY <3>2, <3>4 DEF TypeOK
  <2>3. [PersistCall(o, "resume", "Running") EXCEPT !.n = @ + 1] \in PersistType
    BY <1>0, PersistCallType DEF JournalStatuses
  <2> QED
    BY <1>3, <2>1, <2>2, <2>3 DEF Resume, TypeOK
<1>4. CASE Dismiss(o)
  <2>1. op' \in [Ops -> OpType]
    BY <1>4, OpUpdates DEF Dismiss, TypeOK
  <2>2. PersistCall(o, "dismiss", "Dismissed") \in PersistType
    BY PersistCallType DEF JournalStatuses
  <2> QED
    BY <1>4, <2>1, <2>2 DEF Dismiss, TypeOK
<1> QED
  BY <1>1, <1>2, <1>3, <1>4 DEF Call

LEMMA RunKeepsType ==
  ASSUME TypeOK, NEW o \in Ops, Run(o)
  PROVE  TypeOK'
<1> USE SbOperationsAssumption DEF journal, process
<1>0. runner[o].done \in 0..MaxWork /\ dlq[o] \in Nat
  BY DEF TypeOK, RunnerType
<1>1. CASE ParkOne(o)
  <2>1. dlq' \in [Ops -> Nat]
    BY <1>0, <1>1 DEF ParkOne, TypeOK
  <2>2. runner[o].done + 1 \in 0..MaxWork
    BY <1>0, <1>1 DEF ParkOne
  <2>3. runner' \in [Ops -> RunnerType]
    <3> DEFINE count == runner[o].done + 1
    <3>1. runner' = [runner EXCEPT ![o] = [runner[o] EXCEPT !.done = count,
                                             !.reports = @ \cup {count}]]
      BY <1>1 DEF ParkOne, TypeOK
    <3>2. runner[o] \in RunnerType
      BY DEF TypeOK
    <3>3. [runner[o] EXCEPT !.done = count, !.reports = @ \cup {count}] \in RunnerType
      BY <2>2, <3>2, RunnerUpdates
    <3> QED
      BY <3>1, <3>3 DEF TypeOK
  <2> QED
    BY <1>1, <2>1, <2>3 DEF ParkOne, TypeOK
<1>2. CASE TargetReached(o)
  <2>1. dlq' \in [Ops -> Nat]
    <3>1. PICK s \in TargetStamps : dlq' = [dlq EXCEPT ![o] = @ + s]
      BY <1>2 DEF TargetReached
    <3>2. dlq[o] + s \in Nat
      BY <1>0
    <3> QED
      BY <3>1, <3>2 DEF TypeOK
  <2>2. op' \in [Ops -> OpType]
    BY <1>0, <1>2, OpUpdates DEF TargetReached, TypeOK
  <2>3. runner' \in [Ops -> RunnerType]
    BY <1>2, RunnerUpdates DEF TargetReached, TypeOK, Working
  <2>4. PersistCall(o, "transition", "Running") \in PersistType
    BY PersistCallType DEF ByRunner, JournalStatuses
  <2> QED
    BY <1>2, <2>1, <2>2, <2>3, <2>4 DEF TargetReached, TypeOK
<1>3. CASE RestoreOne(o)
  <2>1. dlq' \in [Ops -> Nat]
    BY <1>0, <1>3 DEF RestoreOne, TypeOK
  <2> QED
    BY <1>3, <2>1 DEF RestoreOne, TypeOK
<1>4. CASE TransferOne(o)
  <2>1. runner[o].done + 1 \in 0..MaxWork
    BY <1>0, <1>4 DEF TransferOne
  <2>2. runner' \in [Ops -> RunnerType]
    BY <1>4, <2>1, RunnerUpdates DEF TransferOne, TypeOK
  <2>3. PersistCall(o, "throttle", Unread) \in PersistType
    BY PersistCallType DEF ByRunner
  <2> QED
    BY <1>4, <2>2, <2>3 DEF TransferOne, TypeOK
<1>5. CASE Stops(o)
  BY <1>5, StopsKeepsType
<1> QED
  BY <1>1, <1>2, <1>3, <1>4, <1>5 DEF Run, Stops

LEMMA ServiceKeepsType ==
  ASSUME TypeOK
  PROVE  /\ EnsureInitialized => TypeOK'
         /\ \A o \in Ops : Callback(o) => TypeOK'
         /\ \A c \in cancelling : CancelTrip(c) => TypeOK'
         /\ Crash => TypeOK'
<1> USE DEF journal, process
<1>1. ASSUME EnsureInitialized PROVE TypeOK'
  <2>1. entries' \in [Ops -> EntryType] /\ losses' \in Nat
    BY <1>1, NoOpType DEF EnsureInitialized, TypeOK, JournalFails
  <2>2. op' \in [Ops -> OpType]
    BY <1>1, <2>1, FromEntryType DEF EnsureInitialized
  <2> QED
    BY <1>1, <2>1, <2>2 DEF EnsureInitialized, TypeOK
<1>2. ASSUME NEW o \in Ops, Callback(o) PROVE TypeOK'
  <2>1. PICK count \in runner[o].reports : Report(o, count)
    BY <1>2 DEF Callback
  <2>2. count \in 0..MaxWork
    BY DEF TypeOK, RunnerType
  <2>3. op' \in [Ops -> OpType]
    BY <2>1, <2>2, OpUpdates DEF Report, TypeOK
  <2>4. runner' \in [Ops -> RunnerType]
    BY <2>1 DEF Report, TypeOK, RunnerType
  <2> QED
    BY <2>1, <2>3, <2>4 DEF Report, TypeOK
<1>3. ASSUME NEW c \in cancelling, CancelTrip(c) PROVE TypeOK'
  <2>1. op' \in [Ops -> OpType]
    BY <1>3, OpUpdates DEF CancelTrip, TypeOK
  <2> QED
    BY <1>3, <2>1 DEF CancelTrip, TypeOK
<1>4. ASSUME Crash PROVE TypeOK'
  <2>1. \A n \in Nat : Idle(n) \in RunnerType
    BY SbOperationsAssumption DEF Idle, RunnerType
  <2>2. runner' \in [Ops -> RunnerType]
    BY <1>4, <2>1 DEF Crash, TypeOK, RunnerType
  <2>3. op' \in [Ops -> OpType] /\ entries' \in [Ops -> EntryType]
    BY <1>4, NoOpType DEF Crash
  <2>4. crashes' \in Nat /\ ended' \subseteq Ops /\ losses' \in Nat
    BY <1>4 DEF Crash, TypeOK
  <2> QED
    BY <1>4, <2>2, <2>3, <2>4 DEF Crash, TypeOK
<1> QED
  BY <1>1, <1>2, <1>3, <1>4

LEMMA WriteKeepsType ==
  ASSUME TypeOK, NEW p \in persists, ReadStatus(p) \/ PersistLands(p)
  PROVE  TypeOK'
<1> USE DEF journal, process
<1>0. p \in PersistType /\ p.op \in Ops
  BY DEF TypeOK, PersistType
<1>1. CASE ReadStatus(p)
  <2>1. JournalStatus(op[p.op].state) \in JournalStatuses \cup {"None"}
    BY <1>0 DEF TypeOK, OpType, States, JournalStatus, JournalStatuses
  <2>2. [p EXCEPT !.status = JournalStatus(op[p.op].state)] \in PersistType
    BY <1>0, <2>1 DEF PersistType
  <2> QED
    BY <1>1, <2>2 DEF ReadStatus, TypeOK
<1>2. CASE PersistLands(p)
  <2>1. Entry(p) \in EntryType
    BY <1>0, <1>2 DEF PersistLands, Entry, EntryType, PersistType, TypeOK, OpType
  <2>2. entries' \in [Ops -> EntryType]
    BY <1>2, <2>1 DEF PersistLands, TypeOK
  <2>3. StageAfter(p) \in Working \cup {"none"}
    BY <1>0 DEF StageAfter, Stage, Working, TypeOK, RunnerType
  <2>4. runner' \in [Ops -> RunnerType]
    BY <1>0, <1>2, <2>3, RunnerUpdates DEF PersistLands, TypeOK
  <2>5. disk' \in [Ops -> EntryType] /\ losses' \in Nat
    BY <1>2, <2>2 DEF PersistLands, TypeOK, JournalFails
  <2> QED
    BY <1>2, <2>2, <2>4, <2>5 DEF PersistLands, TypeOK
<1> QED
  BY <1>1, <1>2

LEMMA StepKeepsType == TypeOK /\ [Next]_vars => TypeOK'
<1> SUFFICES ASSUME TypeOK, [Next]_vars PROVE TypeOK'
  OBVIOUS
<1>1. CASE UNCHANGED vars
  BY <1>1 DEF TypeOK, vars
<1>2. CASE Next
  BY <1>2, CallKeepsType, RunKeepsType, ServiceKeepsType, WriteKeepsType DEF Next
<1> QED
  BY <1>1, <1>2

\* Every variable of the operation service keeps its type (TypeOK).
THEOREM TypeCorrect == Spec => []TypeOK
<1> QED
  BY InitTyped, StepKeepsType, PTL DEF Spec

-----------------------------------------------------------------------------
(* The invariant.                                                          *)

Safe == OneRunner /\ Bookkeeping /\ Recorded /\ StartsExclude

LEMMA InitSafe == Init => Safe
<1> SUFFICES ASSUME Init PROVE Safe
  OBVIOUS
<1>1. \A o \in Ops : /\ op[o].state = "None" /\ Stage(o) = "none"
                     /\ entries[o].status = "None" /\ disk[o].status = "None"
                     /\ dlq[o] = 0
  BY DEF Init, NoOp, NoEntry, Idle, Stage
<1>2. persists = {} /\ up = FALSE
  BY DEF Init
<1>3. OneRunner
  BY <1>1, <1>2 DEF OneRunner, Busy, Working, Opening
<1>4. Bookkeeping
  BY <1>1, <1>2 DEF Bookkeeping, Asleep, Untouched, PendingWrites, OneTransition,
                    EndedIsKnown
<1>5. Recorded
  BY <1>1, <1>2 DEF Recorded, Busy, Working
<1>6. StartsExclude
  BY <1>1 DEF StartsExclude
<1> QED
  BY <1>3, <1>4, <1>5, <1>6 DEF Safe

\* A step that leaves the states and entities of the operations, the stages
\* and numbers of the runners, the writes, the journal and the process alone.
Quiet ==
    /\ \A a \in Ops :
          /\ op'[a].state = op[a].state /\ op'[a].entity = op[a].entity
          /\ runner'[a].pc = runner[a].pc /\ runner'[a].n = runner[a].n
    /\ UNCHANGED <<persists, entries, disk, losses, up, ended>>

LEMMA QuietStep ==
  ASSUME TypeOK, Safe, Quiet,
         \A a \in Ops : dlq'[a] > 0 => dlq[a] > 0 \/ Busy(a)
  PROVE  Safe'
<1>1. \A a \in Ops : Opening(a)' = Opening(a) /\ Busy(a)' = Busy(a)
  BY DEF Quiet, Opening, Busy, Stage
<1>2. OneRunner'
  BY <1>1 DEF Safe, OneRunner, Quiet
<1>3. Bookkeeping'
  <2>1. Asleep' /\ Untouched'
    BY DEF Safe, Bookkeeping, Asleep, Untouched, Quiet, Stage
  <2>2. PendingWrites' /\ OneTransition' /\ EndedIsKnown'
    BY DEF Safe, Bookkeeping, PendingWrites, OneTransition, EndedIsKnown, Quiet,
           Stage, TypeOK, PersistType
  <2> QED
    BY <2>1, <2>2 DEF Bookkeeping
<1>4. Recorded'
  BY <1>1 DEF Safe, Recorded, Quiet
<1>5. StartsExclude'
  BY DEF Safe, StartsExclude, Quiet
<1> QED
  BY <1>2, <1>3, <1>4, <1>5 DEF Safe

-----------------------------------------------------------------------------
(* API calls.                                                              *)

LEMMA TryStartSafe ==
  ASSUME TypeOK, Safe, NEW o \in Ops, TryStart(o)
  PROVE  Safe'
<1>1. PICK e \in Entities, k \in Kinds :
        /\ ~RunningOn(e)
        /\ op' = [op EXCEPT ![o] = [NoOp EXCEPT !.state = "Running",
                                                !.entity = e, !.kind = k]]
  BY DEF TryStart
<1> DEFINE call == [PersistCall(o, "start", "Running") EXCEPT !.n = 1]
<1>2. call.op = o /\ call.by = "start" /\ call.status = "Running"
  BY DEF PersistCall
<1>3. \A a \in Ops : /\ op'[a].state = IF a = o THEN "Running" ELSE op[a].state
                     /\ op'[a].entity = IF a = o THEN e ELSE op[a].entity
                     /\ runner'[a].pc = runner[a].pc
                     /\ runner'[a].n = IF a = o THEN 1 ELSE runner[a].n
  <2> DEFINE started == [NoOp EXCEPT !.state = "Running", !.entity = e, !.kind = k]
  <2>1. started.state = "Running" /\ started.entity = e
    BY DEF NoOp
  <2>2. op' = [op EXCEPT ![o] = started]
    BY <1>1
  <2> HIDE DEF started
  <2>3. \A a \in Ops : op'[a] = IF a = o THEN started ELSE op[a]
    BY <2>2 DEF TypeOK
  <2>4. \A a \in Ops : /\ runner'[a].pc = runner[a].pc
                       /\ runner'[a].n = IF a = o THEN 1 ELSE runner[a].n
    BY DEF TryStart, TypeOK, RunnerType
  <2> QED
    BY <2>1, <2>3, <2>4
<1>4. persists' = persists \cup {call}
  BY DEF TryStart
<1>5. /\ up /\ UNCHANGED <<entries, disk, losses, dlq, up, ended>>
      /\ \A p \in persists : p.by # "start" /\ p.by # "resume"
  BY DEF TryStart, journal, process, GateFree, ByCall
<1>6. /\ op[o].state = "None" /\ Stage(o) = "none" /\ \A p \in persists : p.op # o
      /\ entries[o].status = "None" /\ disk[o].status = "None"
  BY DEF Safe, Bookkeeping, Untouched, TryStart, Fresh
<1> HIDE DEF call
<1>7. \A a \in Ops : /\ Busy(a)' = Busy(a) /\ Stage(a)' = Stage(a)
                     /\ Opening(a) = {} /\ Opening(a)' = IF a = o THEN {call} ELSE {}
  <2>1. \A a \in Ops : Busy(a)' = Busy(a) /\ Stage(a)' = Stage(a)
    BY <1>3 DEF Busy, Stage
  <2>2. \A a \in Ops : Opening(a) = {}
    BY <1>5 DEF Opening
  <2>3. \A a \in Ops : Opening(a)' = IF a = o THEN {call} ELSE {}
    BY <1>2, <1>4, <1>5 DEF Opening
  <2> QED
    BY <2>1, <2>2, <2>3
<1>8. OneRunner'
  BY <1>3, <1>6, <1>7 DEF Safe, OneRunner, Busy, Working
<1>9. Bookkeeping'
  <2>1. Asleep' /\ Untouched'
    BY <1>2, <1>3, <1>4, <1>5, <1>7 DEF Safe, Bookkeeping, Asleep, Untouched
  <2>2. PendingWrites' /\ OneTransition'
    BY <1>2, <1>3, <1>4, <1>5, <1>7
    DEF Safe, Bookkeeping, PendingWrites, OneTransition, TypeOK, PersistType
  <2>3. EndedIsKnown'
    BY <1>3, <1>5 DEF Safe, Bookkeeping, EndedIsKnown
  <2> QED
    BY <2>1, <2>2, <2>3 DEF Bookkeeping
<1>10. Recorded'
  BY <1>3, <1>5, <1>7 DEF Safe, Recorded
<1>11. StartsExclude'
  BY <1>1, <1>3 DEF Safe, StartsExclude, RunningOn
<1> QED
  BY <1>8, <1>9, <1>10, <1>11 DEF Safe

LEMMA ResumeSafe ==
  ASSUME TypeOK, Safe, NEW o \in Ops, Resume(o)
  PROVE  Safe'
<1> DEFINE call == [PersistCall(o, "resume", "Running") EXCEPT !.n = @ + 1]
<1>0. runner[o].n \in Nat /\ runner[o].n # 0
  BY DEF TypeOK, RunnerType, Safe, Bookkeeping, Untouched, Resume, Resumable
<1>2. call.op = o /\ call.by = "resume" /\ call.status = "Running"
  BY DEF PersistCall
<1>3. \A a \in Ops : /\ op'[a].state = IF a = o THEN "Running" ELSE op[a].state
                     /\ op'[a].entity = op[a].entity
                     /\ runner'[a].pc = runner[a].pc
                     /\ runner'[a].n = IF a = o THEN runner[a].n + 1 ELSE runner[a].n
  BY DEF Resume, TypeOK, OpType, RunnerType
<1>4. persists' = persists \cup {call}
  BY DEF Resume
<1>5. /\ up /\ UNCHANGED <<entries, disk, losses, dlq, up, ended>>
      /\ \A p \in persists : p.by # "start" /\ p.by # "resume"
  BY DEF Resume, Resuming, journal, process, GateFree, ByCall
<1>6. op[o].state \in Resumable /\ ~Busy(o)
  BY DEF Resume, Resumable, Safe, OneRunner
<1> HIDE DEF call
<1>7. \A a \in Ops : /\ Busy(a)' = Busy(a) /\ Stage(a)' = Stage(a)
                     /\ Opening(a) = {} /\ Opening(a)' = IF a = o THEN {call} ELSE {}
  <2>1. \A a \in Ops : Busy(a)' = Busy(a) /\ Stage(a)' = Stage(a)
    BY <1>3 DEF Busy, Stage
  <2>2. \A a \in Ops : Opening(a) = {}
    BY <1>5 DEF Opening
  <2>3. \A a \in Ops : Opening(a)' = IF a = o THEN {call} ELSE {}
    BY <1>2, <1>4, <1>5 DEF Opening
  <2> QED
    BY <2>1, <2>2, <2>3
<1>8. OneRunner'
  BY <1>3, <1>6, <1>7 DEF Safe, OneRunner
<1>9. Bookkeeping'
  <2>1. Asleep' /\ Untouched'
    BY <1>0, <1>2, <1>3, <1>4, <1>5, <1>7 DEF Safe, Bookkeeping, Asleep, Untouched
  <2>2. PendingWrites' /\ OneTransition'
    BY <1>2, <1>3, <1>4, <1>5, <1>7
    DEF Safe, Bookkeeping, PendingWrites, OneTransition, TypeOK, PersistType
  <2>3. EndedIsKnown'
    BY <1>3, <1>5 DEF Safe, Bookkeeping, EndedIsKnown
  <2> QED
    BY <2>1, <2>2, <2>3 DEF Bookkeeping
<1>10. Recorded'
  BY <1>3, <1>5, <1>7 DEF Safe, Recorded
<1>11. StartsExclude'
  BY <1>0, <1>3 DEF Safe, StartsExclude
<1> QED
  BY <1>8, <1>9, <1>10, <1>11 DEF Safe

LEMMA DismissSafe ==
  ASSUME TypeOK, Safe, NEW o \in Ops, Dismiss(o)
  PROVE  Safe'
<1> DEFINE call == PersistCall(o, "dismiss", "Dismissed")
<1>2. call.op = o /\ call.by = "dismiss" /\ call.status = "Dismissed"
  BY DEF PersistCall
<1>3. \A a \in Ops : /\ op'[a].state = IF a = o THEN "Dismissed" ELSE op[a].state
                     /\ op'[a].entity = op[a].entity
                     /\ runner'[a].pc = runner[a].pc
                     /\ runner'[a].n = runner[a].n
  BY DEF Dismiss, TypeOK, OpType
<1>4. persists' = persists \cup {call} /\ ended' = ended \cup {o}
  BY DEF Dismiss
<1>5. up /\ UNCHANGED <<entries, disk, losses, dlq, up>>
  BY DEF Dismiss, journal, process
<1>6. op[o].state \in Resumable /\ op[o].state # "None"
  BY DEF Dismiss, Resumable
<1>7. \A a \in Ops : /\ Busy(a)' = Busy(a) /\ Stage(a)' = Stage(a)
                     /\ Opening(a)' = Opening(a)
  BY <1>2, <1>3, <1>4 DEF Busy, Stage, Opening
<1> HIDE DEF call
<1>8. OneRunner'
  BY <1>3, <1>6, <1>7 DEF Safe, OneRunner, Resumable
<1>9. Bookkeeping'
  <2>1. Asleep' /\ Untouched'
    BY <1>2, <1>3, <1>4, <1>5, <1>6, <1>7 DEF Safe, Bookkeeping, Asleep, Untouched
  <2>2. PendingWrites' /\ OneTransition'
    BY <1>2, <1>3, <1>4, <1>5, <1>7
    DEF Safe, Bookkeeping, PendingWrites, OneTransition, TypeOK, PersistType
  <2>3. EndedIsKnown'
    BY <1>3, <1>4, <1>5 DEF Safe, Bookkeeping, EndedIsKnown
  <2> QED
    BY <2>1, <2>2, <2>3 DEF Bookkeeping
<1>10. Recorded'
  BY <1>3, <1>5, <1>7 DEF Safe, Recorded
<1>11. StartsExclude'
  BY <1>3 DEF Safe, StartsExclude
<1> QED
  BY <1>8, <1>9, <1>10, <1>11 DEF Safe

LEMMA CallSafe ==
  ASSUME TypeOK, Safe, NEW o \in Ops, Call(o)
  PROVE  Safe'
<1>1. CASE CancelCheck(o)
  BY <1>1, QuietStep DEF CancelCheck, Quiet, journal, process
<1> QED
  BY <1>1, TryStartSafe, ResumeSafe, DismissSafe DEF Call

-----------------------------------------------------------------------------
(* Runners.                                                                *)

LEMMA StopsSafe ==
  ASSUME TypeOK, Safe, NEW o \in Ops, Stops(o)
  PROVE  Safe'
<1>1. PICK s \in {"Completed", "Failed", "Cancelled"},
           claim \in (0..MaxWork) \cup {NoClaim}, shown \in 0..MaxWork :
           RunnerStops(o, s, claim, shown)
  BY StopsShape
<1> DEFINE call == PersistCall(o, "final", Unread)
<1>2. call.op = o /\ call.by = "final" /\ call.status = Unread
  BY DEF PersistCall
<1>3. \A a \in Ops : /\ op'[a].state = IF a = o THEN s ELSE op[a].state
                     /\ op'[a].entity = op[a].entity
                     /\ runner'[a].pc = IF a = o THEN "none" ELSE runner[a].pc
                     /\ runner'[a].n = runner[a].n
  BY <1>1 DEF RunnerStops, TypeOK, OpType, RunnerType
<1>4. /\ persists' = persists \cup {call}
      /\ ended' = IF s = "Completed" THEN ended \cup {o} ELSE ended
  BY <1>1 DEF RunnerStops
<1>5. Busy(o) /\ UNCHANGED <<entries, disk, losses, dlq, up>>
  BY StopsShape DEF journal, process
<1>6. up /\ op[o].state = "Running" /\ Opening(o) = {}
  BY <1>5 DEF Safe, OneRunner, Bookkeeping, Asleep, Busy, Working
<1>7. /\ \A a \in Ops : Opening(a)' = Opening(a)
      /\ \A a \in Ops : Stage(a)' = IF a = o THEN "none" ELSE Stage(a)
  BY <1>2, <1>3, <1>4 DEF Stage, Opening
<1>8. \A a \in Ops : Busy(a)' <=> a # o /\ Busy(a)
  BY <1>7 DEF Busy, Working
<1>9. \A p \in persists : p.by = "transition" => p.op # o
  BY StopsShape DEF Safe, Bookkeeping, PendingWrites, Stops, ParkStopped, Stage,
     RestoreIncomplete, RestoreDone, TransferDone, BrokerFails, StopCancelled
<1> HIDE DEF call
<1>10. OneRunner'
  BY <1>3, <1>6, <1>7, <1>8 DEF Safe, OneRunner
<1>11. Bookkeeping'
  <2>1. Asleep' /\ Untouched'
    BY <1>2, <1>3, <1>4, <1>5, <1>6, <1>7 DEF Safe, Bookkeeping, Asleep, Untouched
  <2>2. PendingWrites' /\ OneTransition'
    BY <1>2, <1>3, <1>4, <1>5, <1>7, <1>9
    DEF Safe, Bookkeeping, PendingWrites, OneTransition, TypeOK, PersistType, Unread
  <2>3. EndedIsKnown'
    BY <1>3, <1>4, <1>5 DEF Safe, Bookkeeping, EndedIsKnown
  <2> QED
    BY <2>1, <2>2, <2>3 DEF Bookkeeping
<1>12. Recorded'
  BY <1>3, <1>5, <1>8 DEF Safe, Recorded
<1>13. StartsExclude'
  BY <1>3 DEF Safe, StartsExclude
<1> QED
  BY <1>10, <1>11, <1>12, <1>13 DEF Safe

LEMMA TargetReachedSafe ==
  ASSUME TypeOK, Safe, NEW o \in Ops, TargetReached(o)
  PROVE  Safe'
<1> DEFINE call == PersistCall(o, "transition", "Running")
<1>2. call.op = o /\ call.by = "transition" /\ call.status = "Running"
  BY DEF PersistCall
<1>3. \A a \in Ops : /\ op'[a].state = op[a].state
                     /\ op'[a].entity = op[a].entity
                     /\ runner'[a].pc = IF a = o THEN "transition" ELSE runner[a].pc
                     /\ runner'[a].n = runner[a].n
                     /\ a # o => dlq'[a] = dlq[a]
  BY DEF TargetReached, TypeOK, OpType, RunnerType
<1>4. persists' = persists \cup {call}
  BY DEF TargetReached
<1>5. /\ Stage(o) = "park" /\ Busy(o)
      /\ UNCHANGED <<entries, disk, losses, up, ended>>
  BY DEF TargetReached, journal, process, Busy, Working
<1>6. up /\ op[o].state = "Running"
  BY <1>5 DEF Safe, OneRunner, Bookkeeping, Asleep
<1>7. /\ \A a \in Ops : Opening(a)' = Opening(a)
      /\ \A a \in Ops : Stage(a)' = IF a = o THEN "transition" ELSE Stage(a)
  BY <1>2, <1>3, <1>4 DEF Stage, Opening
<1>8. \A a \in Ops : Busy(a)' <=> Busy(a)
  BY <1>5, <1>7 DEF Busy, Working
<1>9. \A p \in persists : p.by = "transition" => p.op # o
  BY <1>5 DEF Safe, Bookkeeping, PendingWrites
<1> HIDE DEF call
<1>10. OneRunner'
  BY <1>3, <1>7, <1>8 DEF Safe, OneRunner
<1>11. Bookkeeping'
  <2>1. Asleep' /\ Untouched'
    BY <1>2, <1>3, <1>4, <1>5, <1>6, <1>7 DEF Safe, Bookkeeping, Asleep, Untouched
  <2>2. PendingWrites' /\ OneTransition'
    BY <1>2, <1>3, <1>4, <1>5, <1>6, <1>7, <1>9
    DEF Safe, Bookkeeping, PendingWrites, OneTransition, TypeOK, PersistType
  <2>3. EndedIsKnown'
    BY <1>3, <1>5 DEF Safe, Bookkeeping, EndedIsKnown
  <2> QED
    BY <2>1, <2>2, <2>3 DEF Bookkeeping
<1>12. Recorded'
  BY <1>3, <1>5, <1>8 DEF Safe, Recorded
<1>13. StartsExclude'
  BY <1>3 DEF Safe, StartsExclude
<1> QED
  BY <1>10, <1>11, <1>12, <1>13 DEF Safe

LEMMA TransferOneSafe ==
  ASSUME TypeOK, Safe, NEW o \in Ops, TransferOne(o)
  PROVE  Safe'
<1> DEFINE call == PersistCall(o, "throttle", Unread)
<1>2. call.op = o /\ call.by = "throttle" /\ call.status = Unread
  BY DEF PersistCall
<1>3. /\ op' = op
      /\ \A a \in Ops : runner'[a].pc = runner[a].pc /\ runner'[a].n = runner[a].n
  BY DEF TransferOne, TypeOK, RunnerType
<1>4. persists' = persists \/ persists' = persists \cup {call}
  BY DEF TransferOne
<1>5. Busy(o) /\ UNCHANGED <<entries, disk, losses, up, ended, dlq>>
  BY DEF TransferOne, journal, process, Busy, Working
<1>6. up /\ op[o].state = "Running"
  BY <1>5 DEF Safe, OneRunner, Bookkeeping, Asleep, Busy, Working
<1>7. \A a \in Ops : /\ Opening(a)' = Opening(a) /\ Stage(a)' = Stage(a)
                     /\ Busy(a)' = Busy(a)
  BY <1>2, <1>3, <1>4 DEF Stage, Opening, Busy
<1> HIDE DEF call
<1>10. OneRunner'
  BY <1>3, <1>7 DEF Safe, OneRunner
<1>11. Bookkeeping'
  <2>1. Asleep' /\ Untouched'
    BY <1>2, <1>3, <1>4, <1>5, <1>6, <1>7 DEF Safe, Bookkeeping, Asleep, Untouched
  <2>2. PendingWrites' /\ OneTransition'
    BY <1>2, <1>3, <1>4, <1>5, <1>6, <1>7
    DEF Safe, Bookkeeping, PendingWrites, OneTransition, TypeOK, PersistType, Unread
  <2>3. EndedIsKnown'
    BY <1>3, <1>5 DEF Safe, Bookkeeping, EndedIsKnown
  <2> QED
    BY <2>1, <2>2, <2>3 DEF Bookkeeping
<1>12. Recorded'
  BY <1>3, <1>5, <1>7 DEF Safe, Recorded
<1>13. StartsExclude'
  BY <1>3 DEF Safe, StartsExclude
<1> QED
  BY <1>10, <1>11, <1>12, <1>13 DEF Safe

LEMMA RunSafe ==
  ASSUME TypeOK, Safe, NEW o \in Ops, Run(o)
  PROVE  Safe'
<1>1. CASE ParkOne(o)
  <2>1. Busy(o) /\ \A a \in Ops : a # o => dlq'[a] = dlq[a]
    BY <1>1 DEF ParkOne, TypeOK, Busy, Working
  <2>2. Quiet
    BY <1>1 DEF ParkOne, Quiet, TypeOK, RunnerType, journal, process
  <2> QED
    BY <2>1, <2>2, QuietStep
<1>2. CASE RestoreOne(o)
  <2>1. Busy(o) /\ \A a \in Ops : a # o => dlq'[a] = dlq[a]
    BY <1>2 DEF RestoreOne, TypeOK, Busy, Working
  <2>2. Quiet
    BY <1>2 DEF RestoreOne, Quiet, journal, process
  <2> QED
    BY <2>1, <2>2, QuietStep
<1> QED
  BY <1>1, <1>2, TargetReachedSafe, TransferOneSafe, StopsSafe DEF Run, Stops

-----------------------------------------------------------------------------
(* The service, the writes and the process.                                *)

LEMMA EnsureInitializedSafe ==
  ASSUME TypeOK, Safe, EnsureInitialized
  PROVE  Safe'
<1>1. /\ ~up /\ up' = TRUE /\ persists = {}
      /\ \A o \in Ops : op[o].state = "None" /\ Stage(o) = "none"
      /\ UNCHANGED <<runner, persists, disk, dlq, ended>>
  BY DEF EnsureInitialized, Safe, Bookkeeping, Asleep
<1>2. \A o \in Ops : op'[o].state = LoadedState(entries'[o].status)
  BY DEF EnsureInitialized, FromEntry
<1>3. \/ entries' = disk /\ losses' = losses
      \/ (\A o \in Ops : entries'[o].status = "None") /\ losses' = losses + 1
  BY DEF EnsureInitialized, JournalFails, NoEntry
<1>4. /\ entries' \in [Ops -> EntryType] /\ losses \in Nat
      /\ \A o \in Ops : disk[o].status \in JournalStatuses \cup {"None"}
  BY ServiceKeepsType DEF TypeOK, EntryType
<1>5. \A o \in Ops : /\ op'[o].state # "Running"
                     /\ op'[o].state = "None" <=> entries'[o].status = "None"
                     /\ op'[o].state \in {"Completed", "Dismissed"}
                           => entries'[o].status = op'[o].state
  BY <1>2, <1>4 DEF LoadedState, EntryType, JournalStatuses
<1>6. \A a \in Ops : /\ Opening(a)' = {} /\ Stage(a)' = Stage(a) /\ ~Busy(a)'
                     /\ ~Busy(a)
  BY <1>1 DEF Stage, Opening, Busy, Working
<1>7. OneRunner'
  BY <1>5, <1>6 DEF OneRunner
<1>8. Bookkeeping'
  <2>1. Asleep' /\ PendingWrites' /\ OneTransition'
    BY <1>1 DEF Asleep, PendingWrites, OneTransition
  <2>2. Untouched'
    BY <1>1, <1>3, <1>5, <1>6 DEF Safe, Bookkeeping, Untouched
  <2>3. EndedIsKnown'
    BY <1>1, <1>3, <1>5 DEF Safe, Bookkeeping, EndedIsKnown
  <2> QED
    BY <2>1, <2>2, <2>3 DEF Bookkeeping
<1>9. Recorded'
  BY <1>1, <1>3, <1>4, <1>5, <1>6 DEF Safe, Recorded
<1>10. StartsExclude'
  BY <1>5 DEF StartsExclude
<1> QED
  BY <1>7, <1>8, <1>9, <1>10 DEF Safe

LEMMA CrashSafe ==
  ASSUME TypeOK, Safe, Crash
  PROVE  Safe'
<1>1. /\ ~up' /\ persists' = {} /\ UNCHANGED <<disk, dlq, losses, ended>>
      /\ \A o \in Ops : /\ op'[o].state = "None" /\ entries'[o].status = "None"
                        /\ runner'[o].pc = "none" /\ runner'[o].n = runner[o].n
  BY DEF Crash, NoOp, NoEntry, Idle
<1>2. \A o \in Ops : ~Busy(o)' /\ Opening(o)' = {} /\ Stage(o)' = "none"
  BY <1>1 DEF Busy, Working, Opening, Stage
<1>3. OneRunner' /\ StartsExclude'
  BY <1>1, <1>2 DEF OneRunner, StartsExclude
<1>4. Bookkeeping'
  BY <1>1, <1>2 DEF Safe, Bookkeeping, Asleep, Untouched, PendingWrites,
                    OneTransition, EndedIsKnown
<1>5. Recorded'
  BY <1>1, <1>2 DEF Safe, Recorded
<1> QED
  BY <1>3, <1>4, <1>5 DEF Safe

LEMMA ReadStatusSafe ==
  ASSUME TypeOK, Safe, NEW p \in persists, ReadStatus(p)
  PROVE  Safe'
<1> DEFINE read == [p EXCEPT !.status = JournalStatus(op[p.op].state)]
<1>1. /\ p \in PersistType /\ p.op \in Ops /\ p.status = Unread
      /\ op[p.op].state \in States
  BY DEF ReadStatus, Safe, Bookkeeping, PendingWrites, TypeOK, PersistType, OpType
<1>2. /\ read.op = p.op /\ read.by = p.by
      /\ read.status = JournalStatus(op[p.op].state)
  BY <1>1 DEF PersistType
<1>3. /\ read.status # "None"
      /\ read.status \in {"Completed", "Dismissed"} => p.op \in ended
  BY <1>1, <1>2 DEF JournalStatus, States, Safe, Bookkeeping, EndedIsKnown
<1>4. p.by \notin {"start", "resume", "transition"}
  BY <1>1 DEF Safe, Bookkeeping, PendingWrites, Unread
<1>5. /\ persists' = (persists \ {p}) \cup {read}
      /\ UNCHANGED <<op, runner, entries, disk, losses, dlq, up, ended>>
  BY DEF ReadStatus, journal, process
<1> HIDE DEF read
<1>6. \A a \in Ops : /\ Opening(a)' = Opening(a) /\ Stage(a)' = Stage(a)
                     /\ Busy(a)' = Busy(a)
  BY <1>2, <1>4, <1>5 DEF Stage, Opening, Busy
<1>7. OneRunner' /\ StartsExclude'
  BY <1>5, <1>6 DEF Safe, OneRunner, StartsExclude
<1>8. Bookkeeping'
  <2>1. Asleep' /\ Untouched'
    BY <1>2, <1>5, <1>6 DEF Safe, Bookkeeping, Asleep, Untouched
  <2>2. PendingWrites' /\ OneTransition' /\ EndedIsKnown'
    BY <1>1, <1>2, <1>3, <1>4, <1>5, <1>6
    DEF Safe, Bookkeeping, PendingWrites, OneTransition, EndedIsKnown, TypeOK,
        PersistType
  <2> QED
    BY <2>1, <2>2 DEF Bookkeeping
<1>9. Recorded'
  BY <1>5, <1>6 DEF Safe, Recorded
<1> QED
  BY <1>7, <1>8, <1>9 DEF Safe

LEMMA PersistLandsSafe ==
  ASSUME TypeOK, Safe, NEW p \in persists, PersistLands(p)
  PROVE  Safe'
<1> DEFINE o == p.op
           opens == p.by \in {"start", "resume"}
<1>1. /\ p \in PersistType /\ o \in Ops /\ p.status # "None"
      /\ op[o].kind \in {"reach", "replay"} /\ op[o].state # "None"
      /\ p.by = "transition" => Stage(o) = "transition"
      /\ p.status \in {"Completed", "Dismissed"} => o \in ended
  BY DEF Safe, Bookkeeping, PendingWrites, TypeOK, PersistType, OpType
<1>2. /\ persists' = persists \ {p} /\ UNCHANGED <<op, dlq, up, ended>>
      /\ \A a \in Ops : /\ runner'[a].pc = IF a = o THEN StageAfter(p) ELSE runner[a].pc
                        /\ runner'[a].n = runner[a].n
  BY <1>1 DEF PersistLands, TypeOK, RunnerType, process
<1>3. \A a \in Ops : entries'[a].status = IF a = o THEN p.status ELSE entries[a].status
  BY <1>1 DEF PersistLands, Entry, TypeOK
<1>4. \/ disk' = entries' /\ losses' = losses
      \/ disk' = disk /\ losses' = losses + 1
  BY DEF PersistLands, JournalFails
<1>5. up /\ p \in persists
  BY DEF Safe, Bookkeeping, Asleep
<1>6. /\ opens => StageAfter(p) \in Working
      /\ p.by = "transition" => StageAfter(p) = "restore"
      /\ ~opens /\ p.by # "transition" => StageAfter(p) = Stage(o)
  BY <1>1 DEF StageAfter, Working
<1>7. /\ \A a \in Ops : Stage(a)' = IF a = o THEN StageAfter(p) ELSE Stage(a)
      /\ \A a \in Ops : Opening(a)' = Opening(a) \ {p}
  BY <1>2 DEF Stage, Opening
<1>8. /\ Busy(o)' <=> Busy(o) \/ opens
      /\ \A a \in Ops : a # o => (Busy(a)' <=> Busy(a)) /\ Opening(a)' = Opening(a)
  BY <1>1, <1>6, <1>7 DEF Busy, Working, Opening
<1>9. /\ opens => p \in Opening(o) /\ ~Busy(o) /\ Opening(o)' = {}
      /\ ~opens => Opening(o)' = Opening(o)
  <2>1. CASE opens
    BY <1>1, <1>5, <1>7, <2>1 DEF Safe, OneRunner, Opening
  <2>2. CASE ~opens
    BY <1>1, <1>7, <2>2 DEF Opening
  <2> QED
    BY <2>1, <2>2
<1>10. OneRunner'
  <2>1. ASSUME NEW a \in Ops, a # o
        PROVE  /\ op'[a].state = "Running" <=> (Busy(a)' \/ Opening(a)' # {})
               /\ ~(Busy(a)' /\ Opening(a)' # {})
               /\ \A x, y \in Opening(a)' : x = y
    BY <1>2, <1>8, <2>1 DEF Safe, OneRunner
  <2>2. /\ op'[o].state = "Running" <=> (Busy(o)' \/ Opening(o)' # {})
        /\ ~(Busy(o)' /\ Opening(o)' # {})
        /\ \A x, y \in Opening(o)' : x = y
    BY <1>1, <1>2, <1>8, <1>9 DEF Safe, OneRunner
  <2> QED
    BY <2>1, <2>2 DEF OneRunner
<1>11. Bookkeeping'
  <2>1. Asleep'
    BY <1>2, <1>5 DEF Asleep
  <2>2. Untouched'
    BY <1>2, <1>3, <1>4, <1>7 DEF Safe, Bookkeeping, Untouched
  <2>3. \A q \in persists' : q.by = "transition" => Stage(q.op)' = "transition"
    <3> SUFFICES ASSUME NEW q \in persists, q # p, q.by = "transition"
                 PROVE  Stage(q.op)' = "transition"
      BY <1>2
    <3>1. q.op \in Ops /\ Stage(q.op) = "transition"
      BY DEF Safe, Bookkeeping, PendingWrites, TypeOK, PersistType
    <3>2. CASE q.op # o
      BY <1>7, <3>1, <3>2
    <3>3. CASE q.op = o
      <4>1. Busy(o)
        BY <3>1, <3>3 DEF Busy, Working
      <4>2. ~opens
        BY <1>9, <4>1
      <4>3. p.by # "transition"
        BY <3>3 DEF Safe, Bookkeeping, OneTransition
      <4> QED
        BY <1>6, <1>7, <3>1, <3>3, <4>2, <4>3
    <3> QED
      BY <3>2, <3>3
  <2>4. PendingWrites'
    BY <1>2, <2>3 DEF Safe, Bookkeeping, PendingWrites
  <2>5. OneTransition'
    BY <1>2 DEF Safe, Bookkeeping, OneTransition
  <2>6. EndedIsKnown'
    BY <1>1, <1>2, <1>3, <1>4 DEF Safe, Bookkeeping, EndedIsKnown
  <2> QED
    BY <2>1, <2>2, <2>4, <2>5, <2>6 DEF Bookkeeping
<1>12. Recorded'
  <2> SUFFICES ASSUME losses' = 0
               PROVE  /\ entries' = disk'
                      /\ \A a \in Ops : dlq'[a] > 0 \/ Busy(a)' =>
                            disk'[a].status # "None" /\ op'[a].state # "None"
    BY <1>2, <1>5 DEF Recorded
  <2>1. disk' = entries' /\ losses = 0
    BY <1>4 DEF TypeOK
  <2>2. entries = disk
    BY <1>5, <2>1 DEF Safe, Recorded
  <2> QED
    BY <1>1, <1>2, <1>3, <1>5, <1>8, <2>1, <2>2 DEF Safe, Recorded
<1>13. StartsExclude'
  BY <1>2 DEF Safe, StartsExclude
<1> QED
  BY <1>10, <1>11, <1>12, <1>13 DEF Safe

LEMMA ServiceSafe ==
  ASSUME TypeOK, Safe
  PROVE  /\ \A o \in Ops : Callback(o) => Safe'
         /\ \A c \in cancelling : CancelTrip(c) => Safe'
<1>1. ASSUME NEW o \in Ops, Callback(o) PROVE Safe'
  <2>1. PICK count \in runner[o].reports : Report(o, count)
    BY <1>1 DEF Callback
  <2>2. Quiet /\ dlq' = dlq
    BY <2>1 DEF Report, Quiet, TypeOK, OpType, RunnerType, journal, process
  <2> QED
    BY <2>2, QuietStep
<1>2. ASSUME NEW c \in cancelling, CancelTrip(c) PROVE Safe'
  <2>1. Quiet /\ dlq' = dlq
    BY <1>2 DEF CancelTrip, Quiet, TypeOK, OpType, journal, process
  <2> QED
    BY <2>1, QuietStep
<1> QED
  BY <1>1, <1>2

LEMMA StepIsSafe == TypeOK /\ Safe /\ [Next]_vars => Safe'
<1> SUFFICES ASSUME TypeOK, Safe, [Next]_vars PROVE Safe'
  OBVIOUS
<1>1. CASE UNCHANGED vars
  BY <1>1, QuietStep DEF Quiet, vars
<1>2. CASE Next
  BY <1>2, CallSafe, RunSafe, EnsureInitializedSafe, CrashSafe, ReadStatusSafe,
     PersistLandsSafe, ServiceSafe DEF Next
<1> QED
  BY <1>1, <1>2

LEMMA Invariant == Spec => [](TypeOK /\ Safe)
<1> QED
  BY InitTyped, InitSafe, StepKeepsType, StepIsSafe, PTL DEF Spec

-----------------------------------------------------------------------------
(* What the runs check, for every instance.                                *)

\* An operation says Running exactly while one runner or one opening call is
\* at it (TryStart*Async, ResumeAsync and DismissAsync against its runner).
THEOREM RunsAlone == Spec => []OneRunner
<1>1. TypeOK /\ Safe => OneRunner
  BY DEF Safe
<1> QED
  BY <1>1, Invariant, PTL

\* Two operations that run on one entity were not both just started
\* (HasRunningAsync under the gate of TryStart*Async).
THEOREM StartsRefuse == Spec => []StartsExclude
<1>1. TypeOK /\ Safe => StartsExclude
  BY DEF Safe
<1> QED
  BY <1>1, Invariant, PTL

\* With a journal that could be read and written, an operation with stamped
\* messages that neither completed nor was dismissed is offered for resume,
\* now or after a crash (the writes before a park and before a restore).
THEOREM StrandedCanResume == Spec => []StrandedIsOffered
<1>1. TypeOK /\ Safe => StrandedIsOffered
  <2> SUFFICES ASSUME TypeOK, Safe, losses = 0, NEW o \in Ops, dlq[o] > 0, o \notin ended
               PROVE  /\ disk[o].status \in Unfinished
                      /\ up => op[o].state \in Resumable \cup {"Running"}
    BY DEF StrandedIsOffered
  <2>1. disk[o].status # "None" /\ (up => op[o].state # "None")
    BY DEF Safe, Recorded
  <2>2. /\ disk[o].status \notin {"Completed", "Dismissed"}
        /\ op[o].state \notin {"Completed", "Dismissed"}
    BY DEF Safe, Bookkeeping, EndedIsKnown
  <2>3. disk[o].status \in JournalStatuses \cup {"None"} /\ op[o].state \in States \cup {"None"}
    BY DEF TypeOK, EntryType, OpType
  <2> QED
    BY <2>1, <2>2, <2>3 DEF JournalStatuses, States, Unfinished, Resumable
<1> QED
  BY <1>1, Invariant, PTL

\* While the process lives nothing brings a completed or dismissed operation
\* back: no late runner, posted callback, cancel or journal write.
THEOREM EndedStaysEnded == Spec => EndIsFinal
<1> DEFINE Stays == \A o \in Ops :
                      op[o].state \in {"Completed", "Dismissed"} /\ crashes' = crashes
                        => op'[o].state = op[o].state
<1>1. TypeOK /\ Safe /\ [Next]_vars => [Stays]_vars
  <2> SUFFICES ASSUME TypeOK, Safe, [Next]_vars, NEW o \in Ops,
                      op[o].state \in {"Completed", "Dismissed"}, crashes' = crashes
               PROVE  op'[o].state = op[o].state
    OBVIOUS
  <2>0. up /\ ~Busy(o) /\ runner[o].n # 0 /\ op[o].state \notin Resumable \cup {"Running"}
    BY DEF Safe, OneRunner, Bookkeeping, Asleep, Untouched, Resumable
  <2>1. CASE UNCHANGED vars
    BY <2>1 DEF vars
  <2>2. ASSUME NEW a \in Ops, Call(a) PROVE op'[o].state = op[o].state
    <3>1. a # o \/ CancelCheck(a)
      BY <2>0, <2>2 DEF Call, TryStart, Fresh, Resume, Dismiss
    <3> QED
      BY <2>2, <3>1 DEF Call, TryStart, CancelCheck, Resume, Dismiss, TypeOK
  <2>3. ASSUME NEW a \in Ops, Run(a) PROVE op'[o].state = op[o].state
    <3>1. a # o
      BY <2>0, <2>3, StopsShape DEF Run, Stops, ParkOne, TargetReached, RestoreOne,
         TransferOne, Busy, Working
    <3>2. CASE Stops(a)
      <4>1. PICK s \in {"Completed", "Failed", "Cancelled"},
                 claim \in (0..MaxWork) \cup {NoClaim}, shown \in 0..MaxWork :
                 RunnerStops(a, s, claim, shown)
        BY <3>2, StopsShape
      <4> QED
        BY <3>1, <4>1 DEF RunnerStops, TypeOK
    <3> QED
      BY <2>3, <3>1, <3>2 DEF Run, Stops, ParkOne, TargetReached, RestoreOne,
         TransferOne, TypeOK
  <2>4. ASSUME NEW a \in Ops, Callback(a) PROVE op'[o].state = op[o].state
    BY <2>4 DEF Callback, Report, TypeOK, OpType
  <2>5. ASSUME NEW c \in cancelling, CancelTrip(c) PROVE op'[o].state = op[o].state
    BY <2>5 DEF CancelTrip, TypeOK, OpType
  <2>6. ASSUME NEW p \in persists, ReadStatus(p) \/ PersistLands(p)
        PROVE  op'[o].state = op[o].state
    BY <2>6 DEF ReadStatus, PersistLands
  <2>7. CASE EnsureInitialized
    BY <2>0, <2>7 DEF EnsureInitialized
  <2>8. CASE Crash
    BY <2>8 DEF Crash, TypeOK
  <2> QED
    BY <2>1, <2>2, <2>3, <2>4, <2>5, <2>6, <2>7, <2>8 DEF Next
<1> QED
  BY <1>1, Invariant, PTL DEF Spec, EndIsFinal
=============================================================================
