---------------------------- MODULE DesktopProofs ----------------------------
(***************************************************************************)
(* Proofs about the two parts of the desktop app that run beside the       *)
(* sidecar: the shell that supervises it (SidecarSupervision), for any     *)
(* number of processes, commands and attempts, and the page's API client   *)
(* (ApiWorkspace), for any requests, tabs, sends and bounds.  The two      *)
(* share no variable.                                                      *)
(***************************************************************************)
EXTENDS SidecarSupervision, ApiWorkspace, TLAPS

-----------------------------------------------------------------------------
(* The shell (SidecarSupervision): the inductive invariant.                *)

\* Who may be where: a thread that waits, supervises or stores has a process,
\* commands never recover, the boot thread alone settles the gate, and a thread
\* that watches is the watcher of its process.
Holding(t) == thread[t].pc \in {"wait", "supervise", "store"}
Roles ==
    \A t \in Threads :
        /\ Holding(t) => thread[t].proc \in Procs
        /\ t \in Commands => ~Recovering(t)
        /\ thread[t].pc \in {"settle", "failed"} => t = Boot
        /\ thread[t].pc = "watch" => t \in Procs

\* A process that was not started is nobody's.
Untouched ==
    \A p \in Unborn : child # p /\ ~InFlight(p) /\ thread[p].pc = "idle"

\* One thread at a time has a process in hand.
OneHand ==
    \A t, u \in Threads :
        Holding(t) /\ Holding(u) /\ thread[t].proc = thread[u].proc => t = u

\* Boot and restart start the watcher before they store the child, a recovery
\* after it.
Stages ==
    \A t \in Threads, p \in Procs : InHand(t, p) =>
        /\ thread[p].pc = IF thread[t].pc = "store" /\ ~Recovering(t) THEN "watch" ELSE "idle"
        /\ ~Stored(t) => child # p
        /\ Stored(t) /\ Alive(p) => child = p \/ p \in replaced

\* A process that runs is in a thread's hands, in the slot, or was replaced.
Accounted == \A p \in Procs : Alive(p) => InFlight(p) \/ p \in replaced \/ child = p

ExitEmpties == exiting => child = NoProc

\* The boot thread opens the gate with a port stored, or refused by the exit.
BootHasPort == thread[Boot].pc = "settle" => port # NoProc \/ exiting

Kept == /\ Roles /\ Untouched /\ OneHand /\ Stages
        /\ Accounted /\ SlotIsWatched /\ ExitEmpties
        /\ PortIsReal /\ BootHasPort

IInv == TypeOK /\ Kept

-----------------------------------------------------------------------------
(* Type correctness.                                                       *)

LEMMA SetsApart ==
  /\ Procs \subseteq Threads /\ Commands \subseteq Threads /\ Boot \in Threads
  /\ Boot \notin Procs /\ Boot \notin Commands
  /\ \A p \in Procs : p # NoProc /\ p \notin Commands
  /\ MaxAttempts \in Nat /\ 0 \in 0..MaxAttempts /\ 1 \in 0..MaxAttempts
  BY SidecarAssumption DEF Threads

\* The states of a thread, as the records they are.
LEMMA Records ==
  ASSUME NEW p \in Procs \cup {NoProc}, NEW n \in 0..MaxAttempts
  PROVE  /\ Idle \in ThreadType
         /\ \A pc \in {"watch", "failed", "spawn", "gaveUp"} : Doing(pc, p, n) \in ThreadType
  BY SetsApart DEF Idle, Doing, ThreadType

LEMMA ErrorTyped ==
  ASSUME TypeOK, NEW t \in Threads
  PROVE  AfterError(t) \in ThreadType
<1> DEFINE n == thread[t].attempt
<1>1. n \in 0..MaxAttempts
  BY DEF TypeOK, ThreadType
<1>2. /\ Idle \in ThreadType
      /\ Doing("failed", NoProc, 0) \in ThreadType
      /\ Doing("gaveUp", NoProc, n) \in ThreadType
  BY <1>1, Records, SetsApart
<1>3. ASSUME n < MaxAttempts
      PROVE  Doing("spawn", NoProc, n + 1) \in ThreadType
  <2>1. n + 1 \in 0..MaxAttempts
    BY <1>1, <1>3, SetsApart
  <2> QED
    BY <2>1, Records
<1> QED
  BY <1>2, <1>3 DEF AfterError

LEMMA InitTypeOK == Init => TypeOK
<1>1. Doing("spawn", NoProc, 0) \in ThreadType /\ Idle \in ThreadType
  BY Records, SetsApart
<1> QED
  BY <1>1 DEF Init, TypeOK

LEMMA GoesTyped ==
  ASSUME TypeOK, NEW t \in Threads,
         NEW pc \in {"wait", "supervise", "store", "spawn", "done"}, Goes(t, pc)
  PROVE  thread' \in [Threads -> ThreadType]
<1>1. [thread[t] EXCEPT !.pc = pc] \in ThreadType
  BY DEF TypeOK, ThreadType
<1> QED
  BY <1>1 DEF Goes, TypeOK

LEMMA StepTypeOK ==
  ASSUME TypeOK, NEW t \in Threads, Step(t)
  PROVE  TypeOK'
<1> USE SetsApart
<1>1. ASSUME NEW p \in Procs, SpawnStarts(t, p) PROVE TypeOK'
  BY <1>1 DEF SpawnStarts, At, TypeOK, ThreadType
<1>2. CASE SpawnReady(t)
  <2>1. thread' \in [Threads -> ThreadType]
    BY <1>2, GoesTyped DEF SpawnReady
  <2> QED
    BY <1>2, <2>1 DEF SpawnReady, TypeOK
<1>3. CASE SpawnRefused(t) \/ SpawnTimesOut(t)
  BY <1>3, ErrorTyped DEF SpawnRefused, SpawnTimesOut, At, TypeOK
<1>4. CASE Supervise(t)
  <2>1. Doing("watch", thread[t].proc, 0) \in ThreadType
    BY Records DEF TypeOK, ThreadType
  <2> QED
    BY <1>4, <2>1 DEF Supervise, At, Recovering, TypeOK, ThreadType
<1>5. CASE Store(t)
  <2>1. AfterStore(t, ~exiting) \in ThreadType
    <3>1. Idle \in ThreadType /\ thread[t] \in ThreadType
      BY Records DEF TypeOK
    <3>2. /\ [thread[t] EXCEPT !.pc = "settle"] \in ThreadType
          /\ [thread[t] EXCEPT !.pc = "supervise"] \in ThreadType
          /\ [thread[t] EXCEPT !.pc = "done"] \in ThreadType
      BY <3>1 DEF ThreadType
    <3> QED
      BY <3>1, <3>2 DEF AfterStore
  <2>2. thread[t].proc \in Procs \cup {NoProc}
    BY DEF TypeOK, ThreadType
  <2> QED
    BY <1>5, <2>1, <2>2 DEF Store, At, TypeOK
<1>6. CASE Settle(t)
  <2>1. Doing("spawn", NoProc, 1) \in ThreadType
    BY Records
  <2>2. [thread[t] EXCEPT !.pc = "done"] \in ThreadType
    BY DEF TypeOK, ThreadType
  <2> QED
    BY <1>6, <2>1, <2>2 DEF Settle, At, TypeOK
<1> QED
  BY <1>1, <1>2, <1>3, <1>4, <1>5, <1>6 DEF Step

LEMMA OtherTypeOK ==
  ASSUME TypeOK,
         \/ \E p \in Procs : Poll(p) \/ Crash(p)
         \/ \E c \in Commands : Restart(c)
         \/ Exit \/ AppEnds \/ UNCHANGED vars
  PROVE  TypeOK'
<1> USE SetsApart
<1>1. ASSUME NEW p \in Procs, Poll(p) PROVE TypeOK'
  <2>1. Doing("spawn", NoProc, 1) \in ThreadType
    BY Records
  <2>2. [thread[p] EXCEPT !.pc = "done"] \in ThreadType
    BY DEF TypeOK, ThreadType
  <2> QED
    BY <1>1, <2>1, <2>2 DEF Poll, At, Goes, TypeOK
<1>2. ASSUME NEW p \in Procs, Crash(p) PROVE TypeOK'
  BY <1>2 DEF Crash, TypeOK
<1>3. ASSUME NEW c \in Commands, Restart(c) PROVE TypeOK'
  BY <1>3 DEF Restart, KilledChild, At, Goes, TypeOK, ThreadType
<1>4. CASE Exit \/ AppEnds \/ UNCHANGED vars
  BY <1>4 DEF Exit, AppEnds, KilledChild, TypeOK, vars
<1> QED
  BY <1>1, <1>2, <1>3, <1>4

LEMMA NextTypeOK == TypeOK /\ [Next]_vars => TypeOK'
  BY StepTypeOK, OtherTypeOK DEF Next

\* Every variable keeps its type, for any number of processes and commands.
THEOREM TypeCorrect == Spec => []TypeOK
  BY InitTypeOK, NextTypeOK, PTL DEF Spec

-----------------------------------------------------------------------------
(* The steps of a spawn.                                                   *)

\* What Kept says with InHand and InFlight spelled out.
LEMMA Hands ==
  /\ \A t, p : InHand(t, p) <=> Holding(t) /\ thread[t].proc = p
  /\ (\A t, p : InHand(t, p) <=> Holding(t) /\ thread[t].proc = p)'
  BY DEF InHand, Holding

LEMMA StartsKeeps ==
  ASSUME TypeOK, Kept, NEW t \in Threads, NEW p \in Procs, SpawnStarts(t, p)
  PROVE  Kept'
<1> USE SetsApart, Hands
<1>1. /\ thread[t].pc = "spawn" /\ proc[p] = "unborn"
      /\ thread'[t].pc = "wait" /\ thread'[t].proc = p
      /\ thread'[t].attempt = thread[t].attempt
      /\ \A u \in Threads \ {t} : thread'[u] = thread[u]
      /\ proc'[p] = "starting" /\ \A q \in Procs \ {p} : proc'[q] = proc[q]
      /\ UNCHANGED <<child, port, settled, exiting, replaced>>
  BY DEF SpawnStarts, At, Unborn, TypeOK, ThreadType
<1>2. /\ child # p /\ thread[p].pc = "idle" /\ p # t
      /\ \A u \in Threads : Holding(u) => thread[u].proc # p
  BY <1>1 DEF Kept, Untouched, Unborn, InFlight
<1>3. Roles'
  BY <1>1 DEF Kept, Roles, Holding, Recovering
<1>4. Untouched'
  BY <1>1, <1>2 DEF Kept, Untouched, Unborn, InFlight, Holding
<1>5. OneHand'
  BY <1>1, <1>2 DEF Kept, OneHand, Holding
<1>6. Stages'
  BY <1>1, <1>2 DEF Kept, Stages, Stored, Recovering, Alive, Holding
<1>7. Accounted'
  BY <1>1, <1>2 DEF Kept, Accounted, InFlight, Alive, Holding
<1>8. SlotIsWatched'
  BY <1>1, <1>2 DEF Kept, SlotIsWatched
<1>9. ExitEmpties' /\ PortIsReal' /\ BootHasPort'
  BY <1>1 DEF Kept, ExitEmpties, PortIsReal, BootHasPort, Recovering
<1> QED
  BY <1>3, <1>4, <1>5, <1>6, <1>7, <1>8, <1>9 DEF Kept

\* What a thread is left with after an error.
LEMMA ErrorFacts ==
  ASSUME TypeOK, Kept, NEW t \in Threads
  PROVE  /\ AfterError(t).pc \in {"idle", "failed", "spawn", "gaveUp"}
         /\ AfterError(t).pc = "failed" => t = Boot
         /\ t \in Commands => AfterError(t).attempt = 0
         /\ Recovering(t) /\ t \notin Commands => AfterError(t).attempt > 0
<1>1. \A x, n : Doing(x, NoProc, n).pc = x
  BY DEF Doing
<1> \A x, n : Doing(x, NoProc, n).attempt = n
  BY DEF Doing
<1> thread[t].attempt \in Nat
  BY SetsApart DEF TypeOK, ThreadType
<1>2. CASE t \in Commands
  BY <1>1, <1>2, SetsApart DEF AfterError, Idle, Kept, Roles
<1>3. CASE t = Boot /\ ~Recovering(t)
  BY <1>1, <1>3, SetsApart DEF AfterError
<1>4. CASE t \notin Commands /\ Recovering(t)
  BY <1>1, <1>4 DEF AfterError, Recovering
<1>5. CASE t \notin Commands /\ t # Boot /\ ~Recovering(t)
  BY <1>1, <1>5 DEF AfterError, Recovering
<1> QED
  BY <1>2, <1>3, <1>4, <1>5

LEMMA ReadyKeeps ==
  ASSUME TypeOK, Kept, NEW t \in Threads, SpawnReady(t)
  PROVE  Kept'
<1> USE SetsApart, Hands
<1> DEFINE p == thread[t].proc
<1>1. /\ thread[t].pc = "wait" /\ p \in Procs /\ proc[p] = "starting"
      /\ thread'[t].pc = IF Recovering(t) THEN "store" ELSE "supervise"
      /\ thread'[t].proc = p /\ thread'[t].attempt = thread[t].attempt
      /\ \A u \in Threads \ {t} : thread'[u] = thread[u]
      /\ proc'[p] = "up" /\ \A q \in Procs \ {p} : proc'[q] = proc[q]
      /\ UNCHANGED <<child, port, settled, exiting, replaced>>
  BY DEF SpawnReady, At, Goes, Kept, Roles, Holding, TypeOK, ThreadType
<1>2. thread[p].pc = "idle" /\ p # t /\ child # p
  BY <1>1 DEF Kept, Stages, Stored, Holding
<1>3. Roles'
  BY <1>1 DEF Kept, Roles, Holding, Recovering
<1>4. Untouched'
  BY <1>1, <1>2 DEF Kept, Untouched, Unborn, InFlight, Holding
<1>5. OneHand'
  BY <1>1 DEF Kept, OneHand, Holding
<1>6. Stages'
  BY <1>1, <1>2 DEF Kept, Stages, Stored, Recovering, Alive, Holding, OneHand
<1>7. Accounted'
  BY <1>1 DEF Kept, Accounted, InFlight, Alive, Holding
<1>8. SlotIsWatched'
  BY <1>1, <1>2 DEF Kept, SlotIsWatched
<1>9. ExitEmpties' /\ PortIsReal' /\ BootHasPort'
  BY <1>1 DEF Kept, ExitEmpties, PortIsReal, BootHasPort, Recovering
<1> QED
  BY <1>3, <1>4, <1>5, <1>6, <1>7, <1>8, <1>9 DEF Kept

LEMMA RefusedKeeps ==
  ASSUME TypeOK, Kept, NEW t \in Threads, SpawnRefused(t)
  PROVE  Kept'
<1> USE SetsApart, Hands
<1>1. /\ thread[t].pc = "spawn" /\ thread'[t] = AfterError(t)
      /\ \A u \in Threads \ {t} : thread'[u] = thread[u]
      /\ UNCHANGED <<child, port, settled, exiting, proc, replaced>>
  BY DEF SpawnRefused, At, TypeOK
<1>2. ~Holding(t) /\ ~Holding(t)' /\ thread'[t].pc \notin {"watch", "settle"}
  BY <1>1, ErrorFacts DEF Holding
<1>3. Roles'
  BY <1>1, <1>2, ErrorFacts DEF Kept, Roles, Holding, Recovering
<1>4. Untouched'
  BY <1>1, <1>2 DEF Kept, Untouched, Unborn, InFlight, Holding
<1>5. OneHand'
  BY <1>1, <1>2 DEF Kept, OneHand, Holding
<1>6. Stages'
  BY <1>1, <1>2 DEF Kept, Stages, Stored, Recovering, Alive, Holding
<1>7. Accounted'
  BY <1>1, <1>2 DEF Kept, Accounted, InFlight, Alive, Holding
<1>8. SlotIsWatched'
  BY <1>1 DEF Kept, SlotIsWatched
<1>9. ExitEmpties' /\ PortIsReal' /\ BootHasPort'
  BY <1>1, <1>2, ErrorFacts DEF Kept, ExitEmpties, PortIsReal, BootHasPort, Recovering
<1> QED
  BY <1>3, <1>4, <1>5, <1>6, <1>7, <1>8, <1>9 DEF Kept

LEMMA TimesOutKeeps ==
  ASSUME TypeOK, Kept, NEW t \in Threads, SpawnTimesOut(t)
  PROVE  Kept'
<1> USE SetsApart, Hands
<1> DEFINE p == thread[t].proc
<1>1. /\ thread[t].pc = "wait" /\ p \in Procs /\ thread'[t] = AfterError(t)
      /\ \A u \in Threads \ {t} : thread'[u] = thread[u]
      /\ proc'[p] = "dead" /\ \A q \in Procs \ {p} : proc'[q] = proc[q]
      /\ UNCHANGED <<child, port, settled, exiting, replaced>>
  BY DEF SpawnTimesOut, At, Kept, Roles, Holding, TypeOK
<1>2. Holding(t) /\ ~Holding(t)' /\ thread'[t].pc \notin {"watch", "settle"}
  BY <1>1, ErrorFacts DEF Holding
<1>3. Roles'
  BY <1>1, <1>2, ErrorFacts DEF Kept, Roles, Holding, Recovering
<1>4. Untouched'
  BY <1>1, <1>2 DEF Kept, Untouched, Unborn, InFlight, Holding
<1>5. OneHand'
  BY <1>1, <1>2 DEF Kept, OneHand, Holding
<1>6. Stages'
  BY <1>1, <1>2 DEF Kept, Stages, Stored, Recovering, Alive, Holding, OneHand
<1>7. Accounted'
  BY <1>1, <1>2 DEF Kept, Accounted, InFlight, Alive, Holding
<1>8. SlotIsWatched'
  BY <1>1 DEF Kept, SlotIsWatched
<1>9. ExitEmpties' /\ PortIsReal' /\ BootHasPort'
  BY <1>1, <1>2, ErrorFacts DEF Kept, ExitEmpties, PortIsReal, BootHasPort, Recovering
<1> QED
  BY <1>3, <1>4, <1>5, <1>6, <1>7, <1>8, <1>9 DEF Kept

-----------------------------------------------------------------------------
(* What a thread does with its process.                                    *)

LEMMA SuperviseKeeps ==
  ASSUME TypeOK, Kept, NEW t \in Threads, Supervise(t)
  PROVE  Kept'
<1> USE SetsApart, Hands
<1> DEFINE p == thread[t].proc
<1>1. thread[t].pc = "supervise" /\ Holding(t) /\ p \in Procs
  BY DEF Supervise, At, Kept, Roles, Holding
<1>2. thread[p].pc = "idle" /\ p # t
  BY <1>1 DEF Kept, Stages
<1>3. /\ thread'[t].pc = IF Recovering(t) THEN "done" ELSE "store"
      /\ thread'[t].proc = p /\ thread'[t].attempt = thread[t].attempt
      /\ thread'[p].pc = "watch" /\ thread'[p].proc = p /\ thread'[p].attempt = 0
      /\ \A u \in Threads \ {t, p} : thread'[u] = thread[u]
      /\ UNCHANGED <<child, port, settled, exiting, proc, replaced>>
  BY <1>1, <1>2 DEF Supervise, Doing, TypeOK, ThreadType
<1>4. proc[p] # "unborn"
  BY <1>1 DEF Kept, Untouched, Unborn, InFlight
<1>5. Roles'
  BY <1>1, <1>3 DEF Kept, Roles, Holding, Recovering
<1>6. Untouched'
  BY <1>1, <1>2, <1>3, <1>4 DEF Kept, Untouched, Unborn, InFlight, Holding
<1>7. OneHand'
  BY <1>1, <1>2, <1>3 DEF Kept, OneHand, Holding
<1>8. Stages'
  BY <1>1, <1>2, <1>3 DEF Kept, Stages, Stored, Recovering, Alive, Holding, OneHand
<1>9. Accounted'
  BY <1>1, <1>2, <1>3 DEF Kept, Accounted, InFlight, Alive, Holding, Stages, Stored
<1>10. SlotIsWatched'
  BY <1>1, <1>2, <1>3 DEF Kept, SlotIsWatched
<1>11. ExitEmpties' /\ PortIsReal' /\ BootHasPort'
  BY <1>1, <1>3 DEF Kept, ExitEmpties, PortIsReal, BootHasPort, Recovering
<1> QED
  BY <1>5, <1>6, <1>7, <1>8, <1>9, <1>10, <1>11 DEF Kept

\* What a thread is left with after its process was stored or refused.
LEMMA StoreFacts ==
  ASSUME TypeOK, Kept, NEW t \in Threads, NEW stored \in BOOLEAN,
         thread[t].pc = "store"
  PROVE  LET a == AfterStore(t, stored) IN
         /\ a.pc \in {"idle", "settle", "supervise", "done"}
         /\ a.pc = "settle" => t = Boot
         /\ a.pc = "supervise" =>
                stored /\ Recovering(t) /\ a.attempt > 0 /\ a.proc = thread[t].proc
         /\ stored /\ Recovering(t) => a.pc = "supervise"
         /\ t \in Commands => ~(a.attempt > 0)
         /\ t = Boot /\ Recovering(t) => a.attempt > 0
<1>1. thread[t].attempt \in Nat /\ thread[t] \in ThreadType
  BY SetsApart DEF TypeOK, ThreadType
<1>2. CASE t \in Commands
  <2>1. AfterStore(t, stored) = Idle /\ ~Recovering(t) /\ t # Boot
    BY <1>2, SetsApart DEF AfterStore, Kept, Roles
  <2>2. Idle.pc = "idle" /\ Idle.attempt = 0
    BY DEF Idle, Doing
  <2> QED
    BY <2>1, <2>2, <1>2
<1>3. CASE t \notin Commands
  <2>1. PICK pc \in {"settle", "supervise", "done"} :
          /\ AfterStore(t, stored) = [thread[t] EXCEPT !.pc = pc]
          /\ pc = "settle" => t = Boot
          /\ pc = "supervise" <=> Recovering(t) /\ stored
    BY <1>3 DEF AfterStore
  <2>2. /\ AfterStore(t, stored).pc = pc
        /\ AfterStore(t, stored).proc = thread[t].proc
        /\ AfterStore(t, stored).attempt = thread[t].attempt
    BY <2>1, <1>1 DEF ThreadType
  <2> QED
    BY <2>1, <2>2, <1>3 DEF Recovering
<1> QED
  BY <1>2, <1>3

LEMMA StoreKeeps ==
  ASSUME TypeOK, Kept, NEW t \in Threads, Store(t)
  PROVE  Kept'
<1> USE SetsApart, Hands
<1> DEFINE p == thread[t].proc
<1> DEFINE a == AfterStore(t, ~exiting)
<1>1. thread[t].pc = "store" /\ Holding(t) /\ p \in Procs
  BY DEF Store, At, Kept, Roles, Holding
<1>2. /\ p # t /\ child # p /\ proc[p] # "unborn"
      /\ thread[p].pc = IF Recovering(t) THEN "idle" ELSE "watch"
  BY <1>1 DEF Kept, Stages, Stored, Untouched, Unborn, InFlight
<1>3. /\ thread'[t] = a
      /\ \A u \in Threads \ {t} : thread'[u] = thread[u]
      /\ UNCHANGED <<settled, exiting>>
  BY DEF Store, TypeOK
<1>4. /\ a.pc \in {"idle", "settle", "supervise", "done"}
      /\ a.pc = "settle" => t = Boot
      /\ a.pc = "supervise" => ~exiting /\ Recovering(t) /\ a.attempt > 0 /\ a.proc = p
      /\ ~exiting /\ Recovering(t) => a.pc = "supervise"
      /\ t \in Commands => ~(a.attempt > 0)
      /\ t = Boot /\ Recovering(t) => a.attempt > 0
  BY <1>1, StoreFacts DEF TypeOK
<1>5. Roles'
  BY <1>1, <1>3, <1>4 DEF Kept, Roles, Holding, Recovering
<1>6. OneHand'
  BY <1>1, <1>3, <1>4 DEF Kept, OneHand, Holding
<1>7. CASE exiting
  <2>1. /\ proc'[p] = "dead" /\ \A q \in Procs \ {p} : proc'[q] = proc[q]
        /\ UNCHANGED <<child, port, replaced>> /\ ~Holding(t)'
    BY <1>1, <1>3, <1>4, <1>7 DEF Store, TypeOK, Holding
  <2>2. Untouched'
    BY <1>1, <1>3, <1>4, <2>1 DEF Kept, Untouched, Unborn, InFlight, Holding
  <2>3. Stages'
    BY <1>1, <1>2, <1>3, <1>4, <2>1
    DEF Kept, Stages, Stored, Recovering, Alive, Holding, OneHand
  <2>4. Accounted'
    BY <1>1, <1>3, <2>1 DEF Kept, Accounted, InFlight, Alive, Holding
  <2>5. SlotIsWatched'
    BY <1>1, <1>3, <2>1, <1>7 DEF Kept, SlotIsWatched, ExitEmpties
  <2>6. ExitEmpties' /\ PortIsReal' /\ BootHasPort'
    BY <1>3, <1>4, <1>7, <2>1 DEF Kept, ExitEmpties, PortIsReal, BootHasPort
  <2> QED
    BY <1>5, <1>6, <2>2, <2>3, <2>4, <2>5, <2>6 DEF Kept
<1>8. CASE ~exiting
  <2>1. /\ child' = p /\ port' = p /\ UNCHANGED proc
        /\ replaced' = replaced \cup {q \in Procs : q = child /\ Alive(q)}
    BY <1>8 DEF Store
  <2>2. Untouched'
    BY <1>1, <1>2, <1>3, <1>4, <2>1 DEF Kept, Untouched, Unborn, InFlight, Holding
  <2>3. Stages'
    <3> SUFFICES ASSUME NEW u \in Threads, NEW q \in Procs,
                        Holding(u)', thread'[u].proc = q
                 PROVE  /\ thread'[q].pc = IF thread'[u].pc = "store" /\ ~Recovering(u)'
                                            THEN "watch" ELSE "idle"
                        /\ ~Stored(u)' => child' # q
                        /\ Stored(u)' /\ Alive(q)' => child' = q \/ q \in replaced'
      BY DEF Stages, InHand, Holding, Stored, Recovering, Alive
    <3>1. CASE u = t
      BY <1>1, <1>2, <1>3, <1>4, <2>1, <3>1 DEF Holding, Stored, Recovering
    <3>2. CASE u # t
      <4>1. /\ thread'[u] = thread[u] /\ Holding(u) /\ q # p /\ thread[u].proc = q
        BY <1>1, <1>3, <3>2 DEF Kept, OneHand, Holding
      <4>2. /\ thread[q].pc = IF thread[u].pc = "store" /\ ~Recovering(u)
                               THEN "watch" ELSE "idle"
            /\ Stored(u) /\ Alive(q) => child = q \/ q \in replaced
        BY <4>1 DEF Kept, Stages
      <4>3. q # t
        BY <1>1, <4>2
      <4> QED
        BY <1>3, <2>1, <4>1, <4>2, <4>3 DEF Stored, Recovering, Alive
    <3> QED
      BY <3>1, <3>2
  <2>4. Accounted'
    BY <1>1, <1>3, <2>1 DEF Kept, Accounted, InFlight, Alive, Holding
  <2>5. SlotIsWatched'
    BY <1>1, <1>2, <1>3, <1>4, <1>8, <2>1 DEF SlotIsWatched
  <2>6. ExitEmpties' /\ PortIsReal' /\ BootHasPort'
    BY <1>1, <1>3, <1>8, <2>1 DEF Kept, ExitEmpties, PortIsReal, BootHasPort
  <2> QED
    BY <1>5, <1>6, <2>2, <2>3, <2>4, <2>5, <2>6 DEF Kept
<1> QED
  BY <1>7, <1>8

LEMMA SettleKeeps ==
  ASSUME TypeOK, Kept, NEW t \in Threads, Settle(t)
  PROVE  Kept'
<1> USE SetsApart, Hands
<1>1. t = Boot /\ thread[t].pc \in {"settle", "failed"}
  BY DEF Settle, At, Kept, Roles
<1>2. /\ thread'[t].pc \in {"done", "spawn"}
      /\ thread[t].pc = "settle" => thread'[t].attempt = thread[t].attempt
      /\ thread[t].pc = "failed" => thread'[t].attempt = 1
      /\ \A u \in Threads \ {t} : thread'[u] = thread[u]
      /\ settled' = TRUE /\ UNCHANGED <<child, port, exiting, proc, replaced>>
  BY <1>1 DEF Settle, Doing, TypeOK, ThreadType
<1>3. Roles'
  BY <1>1, <1>2 DEF Kept, Roles, Holding, Recovering
<1>4. Untouched'
  BY <1>1, <1>2 DEF Kept, Untouched, Unborn, InFlight, Holding
<1>5. OneHand'
  BY <1>1, <1>2 DEF Kept, OneHand, Holding
<1>6. Stages'
  BY <1>1, <1>2 DEF Kept, Stages, Stored, Recovering, Alive, Holding
<1>7. Accounted'
  BY <1>1, <1>2 DEF Kept, Accounted, InFlight, Alive, Holding
<1>8. SlotIsWatched'
  BY <1>1, <1>2 DEF Kept, SlotIsWatched
<1>9. ExitEmpties' /\ PortIsReal' /\ BootHasPort'
  BY <1>1, <1>2 DEF Kept, ExitEmpties, PortIsReal, BootHasPort, Recovering
<1> QED
  BY <1>3, <1>4, <1>5, <1>6, <1>7, <1>8, <1>9 DEF Kept

-----------------------------------------------------------------------------
(* Watchers, the user and the system.                                      *)

LEMMA PollKeeps ==
  ASSUME TypeOK, Kept, NEW p \in Procs, Poll(p)
  PROVE  Kept'
<1> USE SetsApart, Hands
<1>1. /\ thread[p].pc = "watch"
      /\ \A t \in Threads : ~(thread[t].pc = "store" /\ thread[t].proc = p)
      /\ thread'[p].pc \in {"done", "spawn"}
      /\ \A u \in Threads \ {p} : thread'[u] = thread[u]
      /\ \/ child # p /\ child' = child
         \/ child = p /\ proc[p] = "dead" /\ child' = NoProc
      /\ UNCHANGED <<port, settled, exiting, proc, replaced>>
  <2>1. CASE child # p /\ Goes(p, "done") /\ UNCHANGED child
    BY <2>1 DEF Poll, At, Goes, TypeOK, ThreadType
  <2>2. CASE /\ child = p /\ proc[p] = "dead" /\ child' = NoProc
             /\ thread' = [thread EXCEPT ![p] = Doing("spawn", NoProc, 1)]
    BY <2>2 DEF Poll, At, Doing, TypeOK
  <2> QED
    BY <2>1, <2>2 DEF Poll
<1>2. \A t \in Threads : Holding(t) => thread[t].proc # p
  BY <1>1 DEF Kept, Stages
<1>3. Roles'
  BY <1>1 DEF Kept, Roles, Holding, Recovering
<1>4. Untouched'
  BY <1>1 DEF Kept, Untouched, Unborn, InFlight, Holding
<1>5. OneHand'
  BY <1>1 DEF Kept, OneHand, Holding
<1>6. Stages'
  BY <1>1, <1>2 DEF Kept, Stages, Stored, Recovering, Alive, Holding
<1>7. Accounted'
  BY <1>1 DEF Kept, Accounted, InFlight, Alive, Holding
<1>8. SlotIsWatched'
  BY <1>1 DEF Kept, SlotIsWatched
<1>9. ExitEmpties' /\ PortIsReal' /\ BootHasPort'
  BY <1>1 DEF Kept, ExitEmpties, PortIsReal, BootHasPort, Recovering
<1> QED
  BY <1>3, <1>4, <1>5, <1>6, <1>7, <1>8, <1>9 DEF Kept

\* Restart and exit kill the child in the slot, if any, and empty it.
LEMMA KillKeeps ==
  ASSUME TypeOK, Kept, proc' = KilledChild, child' = NoProc,
         UNCHANGED <<port, settled, replaced>>,
         exiting => exiting',
         \A t \in Threads : \/ thread'[t] = thread[t]
                            \/ /\ t \in Commands
                               /\ thread[t].pc = "idle" /\ thread'[t].pc = "spawn"
                               /\ thread'[t].attempt = thread[t].attempt
  PROVE  Kept'
<1> USE SetsApart, Hands
<1>1. \A p \in Procs : /\ p = child => proc'[p] = "dead"
                       /\ p # child => proc'[p] = proc[p]
  BY DEF KilledChild
<1>2. \A p \in Procs : proc[p] = "unborn" <=> proc'[p] = "unborn"
  BY <1>1 DEF Kept, Untouched, Unborn
<1>3. Roles'
  BY DEF Kept, Roles, Holding, Recovering
<1>4. Untouched'
  BY <1>2 DEF Kept, Untouched, Unborn, InFlight, Holding
<1>5. OneHand'
  BY DEF Kept, OneHand, Holding
<1>6. Stages'
  BY <1>1 DEF Kept, Stages, Stored, Recovering, Alive, Holding
<1>7. Accounted'
  BY <1>1 DEF Kept, Accounted, InFlight, Alive, Holding
<1>8. SlotIsWatched'
  BY DEF SlotIsWatched
<1>9. ExitEmpties' /\ PortIsReal' /\ BootHasPort'
  BY DEF Kept, ExitEmpties, PortIsReal, BootHasPort, Recovering
<1> QED
  BY <1>3, <1>4, <1>5, <1>6, <1>7, <1>8, <1>9 DEF Kept

LEMMA CrashKeeps ==
  ASSUME TypeOK, Kept, NEW p \in Procs, Crash(p)
  PROVE  Kept'
<1> USE SetsApart, Hands
<1>1. /\ proc[p] # "unborn" /\ proc'[p] = "dead"
      /\ \A q \in Procs \ {p} : proc'[q] = proc[q]
      /\ UNCHANGED <<child, port, settled, exiting, thread, replaced>>
  BY DEF Crash, Alive, TypeOK
<1>2. Roles' /\ OneHand' /\ SlotIsWatched'
  BY <1>1 DEF Kept, Roles, OneHand, SlotIsWatched, Holding, Recovering
<1>3. Untouched'
  BY <1>1 DEF Kept, Untouched, Unborn, InFlight, Holding
<1>4. Stages'
  BY <1>1 DEF Kept, Stages, Stored, Recovering, Alive, Holding
<1>5. Accounted'
  BY <1>1 DEF Kept, Accounted, InFlight, Alive, Holding
<1>6. ExitEmpties' /\ PortIsReal' /\ BootHasPort'
  BY <1>1 DEF Kept, ExitEmpties, PortIsReal, BootHasPort, Recovering
<1> QED
  BY <1>2, <1>3, <1>4, <1>5, <1>6 DEF Kept

LEMMA SameKeeps ==
  ASSUME Kept, UNCHANGED <<child, port, settled, exiting, proc, thread, replaced>>
  PROVE  Kept'
<1>1. Roles' /\ OneHand' /\ SlotIsWatched' /\ Untouched' /\ Stages' /\ Accounted'
  BY DEF Kept, Roles, OneHand, SlotIsWatched, Untouched, Stages, Accounted,
         Holding, InHand, InFlight, Recovering, Unborn, Stored, Alive
<1>2. ExitEmpties' /\ PortIsReal' /\ BootHasPort'
  BY DEF Kept, ExitEmpties, PortIsReal, BootHasPort, Recovering
<1> QED
  BY <1>1, <1>2 DEF Kept

-----------------------------------------------------------------------------
(* The invariant, and what follows from it.                                *)

LEMMA InitIInv == Init => IInv
<1> SUFFICES ASSUME Init PROVE IInv
  OBVIOUS
<1> USE SetsApart, Hands
<1>1. /\ \A t \in Threads : thread[t].pc = IF t = Boot THEN "spawn" ELSE "idle"
      /\ \A t \in Threads : thread[t].attempt = 0
      /\ \A p \in Procs : proc[p] = "unborn"
      /\ child = NoProc /\ settled = FALSE /\ exiting = FALSE
  BY DEF Init, Idle, Doing
<1>2. \A t \in Threads : ~Holding(t) /\ ~Recovering(t)
  BY <1>1 DEF Holding, Recovering
<1>3. Kept
  BY <1>1, <1>2 DEF Kept, Roles, OneHand, SlotIsWatched, Untouched, Stages, Accounted,
         InFlight, Unborn, Alive, ExitEmpties, PortIsReal, BootHasPort
<1> QED
  BY <1>3, InitTypeOK DEF IInv

LEMMA NextIInv == IInv /\ [Next]_vars => IInv'
<1> SUFFICES ASSUME TypeOK, Kept, [Next]_vars PROVE Kept'
  BY NextTypeOK DEF IInv
<1>1. ASSUME NEW t \in Threads, Step(t) PROVE Kept'
  BY <1>1, StartsKeeps, ReadyKeeps, RefusedKeeps, TimesOutKeeps, SuperviseKeeps,
     StoreKeeps, SettleKeeps DEF Step
<1>2. ASSUME NEW p \in Procs, Poll(p) \/ Crash(p) PROVE Kept'
  BY <1>2, PollKeeps, CrashKeeps
<1>3. ASSUME NEW c \in Commands, Restart(c) PROVE Kept'
  <2>1. /\ thread[c].pc = "idle" /\ thread'[c].pc = "spawn"
        /\ thread'[c].attempt = thread[c].attempt
        /\ \A t \in Threads \ {c} : thread'[t] = thread[t]
    BY <1>3, SetsApart DEF Restart, At, Goes, TypeOK, ThreadType
  <2> QED
    BY <1>3, <2>1, KillKeeps DEF Restart
<1>4. CASE Exit
  BY <1>4, KillKeeps DEF Exit
<1>5. CASE AppEnds \/ UNCHANGED vars
  BY <1>5, SameKeeps DEF AppEnds, vars
<1> QED
  BY <1>1, <1>2, <1>3, <1>4, <1>5 DEF Next

LEMMA Invariance == Spec => []IInv
  BY InitIInv, NextIInv, PTL DEF Spec

\* Once the app exits the slot stays empty, and a sidecar that still runs will be
\* killed by a running thread, was replaced in the slot while it lived, or was in
\* a spawn's hands, not yet stored, when the app's process ended.
THEOREM OrphansAreExplained == Spec => []OrphansExplained
<1>1. IInv => OrphansExplained
  <2> SUFFICES ASSUME IInv, exiting, NEW p \in Procs, Alive(p)
               PROVE  /\ child = NoProc
                      /\ \/ \E t \in Threads : WillKill(t, p)
                         \/ p \in replaced \/ CutShort(p)
    BY DEF OrphansExplained, IInv, Kept, ExitEmpties
  <2>1. child = NoProc /\ p # NoProc
    BY SetsApart DEF IInv, Kept, ExitEmpties
  <2>2. CASE p \in replaced
    BY <2>1, <2>2
  <2>3. CASE p \notin replaced
    <3>1. PICK t \in Threads : InHand(t, p)
      BY <2>1, <2>3 DEF IInv, Kept, Accounted, InFlight
    <3>2. ~Stored(t)
      BY <2>1, <2>3, <3>1 DEF IInv, Kept, Stages
    <3> QED
      BY <2>1, <3>1, <3>2 DEF WillKill, CutShort
  <2> QED
    BY <2>2, <2>3
<1> QED
  BY <1>1, Invariance, PTL

\* The port that is told is that of the child in the slot, and there is one once
\* the boot has settled, unless it failed or the app exits.
THEOREM PortsAreReal == Spec => []PortIsReal
<1>1. IInv => PortIsReal
  BY DEF IInv, Kept
<1> QED
  BY <1>1, Invariance, PTL

\* Whatever is in the slot, and whoever put it there, a thread polls it for a
\* crash or is about to.
THEOREM EveryChildIsWatched == Spec => []SlotIsWatched
<1>1. IInv => SlotIsWatched
  BY DEF IInv, Kept
<1> QED
  BY <1>1, Invariance, PTL

-----------------------------------------------------------------------------
(* The page (ApiWorkspace): typing of the records.                         *)

LEMMA UpdateTyped ==
  ASSUME NEW i \in Items, NEW v \in Nat, NEW t \in Tabs \cup {None},
         NEW s \in Sends \cup {None}
  PROVE  /\ Update(i, v, t, s) \in UpdateType
         /\ Update(i, v, t, s).item = i /\ Update(i, v, t, s).version = v
         /\ Update(i, v, t, s).tab = t /\ Update(i, v, t, s).send = s
  BY DEF Update, UpdateType

LEMMA PutTyped ==
  ASSUME NEW at \in {"idle", "sent", "writing", "written", "answered"},
         NEW u \in UpdateType, NEW l \in Lists, NEW k \in Nat, NEW m \in BOOLEAN
  PROVE  /\ Put(at, u, l, k, m) \in FlightType
         /\ Put(at, u, l, k, m).at = at /\ Put(at, u, l, k, m).update = u
         /\ Put(at, u, l, k, m).list = l /\ Put(at, u, l, k, m).token = k
         /\ Put(at, u, l, k, m).mixed = m
  BY DEF Put, FlightType

LEMMA GetTyped ==
  ASSUME NEW at \in {"idle", "listed", "answered"}, NEW l \in Lists,
         NEW k \in Nat, NEW m \in BOOLEAN
  PROVE  /\ Get(at, l, k, m) \in FetchType
         /\ Get(at, l, k, m).at = at /\ Get(at, l, k, m).list = l
         /\ Get(at, l, k, m).token = k /\ Get(at, l, k, m).mixed = m
  BY DEF Get, FetchType

LEMMA NothingTyped ==
  /\ NoList \in Lists
  /\ NoGet \in FetchType /\ NoGet.at = "idle"
  /\ NoPut \in FlightType /\ NoPut.at = "idle" /\ NoPut.update.send = None
  /\ NoPut.update.tab = None
  <1>1. NoList \in Lists
    BY DEF NoList, Lists
  <1>2. Vars \in Items
    BY DEF Items
  <1>3. NoGet \in FetchType /\ NoGet.at = "idle"
    BY <1>1 DEF NoGet, Get, FetchType
  <1> DEFINE u == Update(Vars, 0, None, None)
  <1>4. u \in UpdateType /\ u.send = None /\ u.tab = None
    BY <1>2, UpdateTyped
  <1> HIDE DEF u
  <1>5. /\ Put("idle", u, NoList, 0, FALSE) \in FlightType
        /\ Put("idle", u, NoList, 0, FALSE).at = "idle"
        /\ Put("idle", u, NoList, 0, FALSE).update = u
    BY <1>1, <1>4 DEF Put, FlightType
  <1>6. NoPut = Put("idle", u, NoList, 0, FALSE)
    BY DEF NoPut, u
  <1>7. QED
    BY <1>1, <1>3, <1>4, <1>5, <1>6

LEMMA FirstTyped ==
  ASSUME WsInit
  PROVE  file \in Lists /\ stamp \in Nat
  <1>1. FirstList \in Lists
    BY DEF FirstList, Lists
  <1>2. \/ file = FirstList /\ stamp = 1
        \/ file = NoList /\ stamp = 0
    BY DEF WsInit, NoToken
  <1>3. QED
    BY <1>1, <1>2, NothingTyped

\* One entry of a list changes.
LEMMA ListChanged ==
  ASSUME NEW l \in Lists, NEW i \in Items, NEW v \in Nat
  PROVE  /\ [l EXCEPT ![i] = v] \in Lists
         /\ [l EXCEPT ![i] = v][i] = v
         /\ \A j \in Items \ {i} : [l EXCEPT ![i] = v][j] = l[j]
  BY DEF Lists

LEMMA PairsTyped ==
  ASSUME NEW l \in Lists
  PROVE  /\ Pairs(l) \subseteq Items \X Nat
         /\ \A i \in Items : <<i, l[i]>> \in Pairs(l)
  BY DEF Pairs, Lists

\* What the queue holds after an update is put at its end, or taken from its head.
LEMMA Enqueued ==
  ASSUME queue \in Seq(UpdateType), NEW u \in UpdateType, Enqueue(u)
  PROVE  /\ queue' \in Seq(UpdateType)
         /\ DOMAIN queue' = 1..(Len(queue) + 1) /\ DOMAIN queue = 1..Len(queue)
         /\ Len(queue) \in Nat
         /\ queue'[Len(queue) + 1] = u
         /\ \A n \in DOMAIN queue : queue'[n] = queue[n]
  BY DEF Enqueue

LEMMA Dequeued ==
  ASSUME queue \in Seq(UpdateType), queue # <<>>, queue' = Tail(queue)
  PROVE  /\ queue' \in Seq(UpdateType) /\ Head(queue) \in UpdateType
         /\ 1 \in DOMAIN queue /\ Head(queue) = queue[1]
         /\ Len(queue) \in Nat /\ DOMAIN queue = 1..Len(queue)
         /\ \A n \in DOMAIN queue' : n + 1 \in DOMAIN queue /\ n + 1 # 1
                                     /\ queue'[n] = queue[n + 1]
         /\ \A n \in DOMAIN queue' : n \in Nat
  OBVIOUS

\* An update that is put in a list is one of the same item, tab and send.
LEMMA PlacedTyped ==
  ASSUME NEW u \in UpdateType, NEW l
  PROVE  /\ Placed(u, l) \in UpdateType
         /\ Placed(u, l).item = u.item /\ Placed(u, l).tab = u.tab
         /\ Placed(u, l).send = u.send
  BY DEF Placed, UpdateType

\* The draft of an open tab, as an update.
LEMMA DraftTyped ==
  ASSUME WsTypeOK, NEW t \in Tabs, Open(t), NEW s \in Sends \cup {None}
  PROVE  /\ DraftOf(t, s) \in UpdateType
         /\ DraftOf(t, s).tab = t /\ DraftOf(t, s).send = s
  <1>1. node[t] \in Items /\ draft[t] \in Nat
    BY DEF WsTypeOK, TabsTyped, Open, Items
  <1>2. QED
    BY <1>1, UpdateTyped DEF DraftOf

LEMMA NewTextTyped ==
  ASSUME WsTypeOK
  PROVE  NewText \in Nat
  BY DEF WsTypeOK, StoreTyped, NewText

\* A capture or an import stores a list of its own making.
StoresList(s) ==
  /\ \E l \in Lists : Storing(s, l)
  /\ acts' = acts + 1
  /\ isRun' = isRun \/ isRun' = [isRun EXCEPT ![s] = FALSE]
  /\ UNCHANGED <<fileVars, saveVars, tabVars, runVars, origin, stream>>

LEMMA StoringTyped ==
  ASSUME WsTypeOK, NEW s \in Sends, Capture(s) \/ \E i \in Items : Import(s, i)
  PROVE  StoresList(s)
  <1>1. NewText \in Nat /\ Vars \in Items
    BY NewTextTyped DEF Items
  <1>2. memory \in Lists /\ base[s] \in Lists
    BY DEF WsTypeOK, StoreTyped, SendsTyped
  <1>3. ASSUME NEW l \in Lists, NEW i \in Items, Storing(s, [l EXCEPT ![i] = NewText])
        PROVE  \E m \in Lists : Storing(s, m)
    BY <1>1, <1>3, ListChanged
  <1>4. CASE Capture(s)
    BY <1>1, <1>2, <1>3, <1>4 DEF Capture, Spend, StoresList
  <1>5. ASSUME NEW i \in Items, Import(s, i)
        PROVE  StoresList(s)
    BY <1>1, <1>2, <1>3, <1>5 DEF Import, Spend, StoresList
  <1>6. QED
    BY <1>4, <1>5

\* What changes the file other than a save.
WritesFile == \/ \E s \in Sends : WriteBack(s)
              \/ \E i \in Items : EditOutside(i)
              \/ RemoveOutside

-----------------------------------------------------------------------------
(* What the groups of steps leave alone.                                   *)

\* What a send does without the page's choice, or fails to do.
Moves(s) == Advance(s) \/ Capture(s) \/ LoadFails(s)

LEMMA UserFrame ==
  ASSUME UserStep
  PROVE  UNCHANGED <<memory, file, stamp, writes, known, cache, fetch, flight,
                     mixed, raced, blind>> /\ acts' \in {acts, acts + 1}
  <1>1. ASSUME NEW r \in Requests, NEW peek \in BOOLEAN, OpenTab(r, peek)
        PROVE  UNCHANGED <<storeVars, saveVars, known>> /\ acts' \in {acts, acts + 1}
    BY <1>1 DEF OpenTab, Spend
  <1>2. ASSUME NEW t \in Tabs, Activate(t) \/ CloseTab(t)
        PROVE  UNCHANGED <<storeVars, saveVars, known>> /\ acts' \in {acts, acts + 1}
    BY <1>2 DEF Activate, CloseTab, Spend
  <1>3. CASE Edit
    BY <1>3 DEF Edit, Spend, storeVars, saveVars, fileVars
  <1>4. CASE Save
    BY <1>4 DEF Save, Spend, storeVars, fileVars
  <1>5. ASSUME NEW i \in Items, EditTree(i)
        PROVE  UNCHANGED <<storeVars, known, cache, fetch, flight, mixed, raced,
                        blind>>
               /\ acts' \in {acts, acts + 1}
    BY <1>5 DEF EditTree, Spend
  <1>6. ASSUME NEW s \in Sends, NEW run \in BOOLEAN, Send(s, run)
        PROVE  UNCHANGED <<storeVars, known, cache, fetch, flight, mixed, raced,
                        blind>>
               /\ acts' \in {acts, acts + 1}
    BY <1>6 DEF Send, Spend
  <1>7. ASSUME NEW s \in Sends, RunTree(s)
        PROVE  UNCHANGED <<storeVars, saveVars, known>> /\ acts' \in {acts, acts + 1}
    BY <1>7 DEF RunTree, Spend
  <1>8. CASE AbortRun
    BY <1>8 DEF AbortRun, Spend, storeVars, saveVars, fileVars
  <1>9. QED
    BY <1>1, <1>2, <1>3, <1>4, <1>5, <1>6, <1>7, <1>8
       DEF UserStep, storeVars, saveVars, fileVars

-----------------------------------------------------------------------------
(* Types.                                                                  *)

LEMMA StoreStep ==
  ASSUME WsTypeOK, WsNext
  PROVE  StoreTyped'
  <1> USE DEF WsTypeOK, StoreTyped
  <1>0. stamp \in Nat /\ writes \in Nat /\ writes + 1 \in Nat /\ NoToken \in Nat
    BY DEF NoToken
  <1>1. CASE UserStep
    <2>1. UNCHANGED <<memory, file, stamp, writes, known>> /\ acts' \in Nat
      BY <1>1, UserFrame
    <2>2. QED
      BY <2>1
  <1>2. CASE SaveStep
    <2>1. flight.list \in Lists
      BY DEF SavesTyped, FlightType
    <2>2. /\ memory' \in {memory, flight.list} /\ file' \in {file, flight.list}
          /\ stamp' \in {stamp, writes + 1} /\ writes' \in {writes, writes + 1}
          /\ acts' \in {acts, acts + 1}
          /\ known' \in {known, known \cup Pairs(flight.list)}
      BY <1>2 DEF SaveStep, BeginSave, Accept, Accepted, TokenRead, Refuse, Write,
           WriteFails, Respond, SettleSave, storeVars, fileVars, Spend, WriteFile
    <2>3. QED
      BY <1>0, <2>1, <2>2, PairsTyped
  <1>3. CASE FetchStep
    <2>1. /\ UNCHANGED <<memory, file, stamp, writes, known>>
          /\ acts' \in {acts, acts + 1}
      BY <1>3 DEF FetchStep, FetchList, FetchToken, TokenRead, FetchArrives,
         storeVars, fileVars, Spend
    <2>2. QED
      BY <2>1
  <1>4. ASSUME NEW s \in Sends, Advance(s) \/ LoadFails(s)
        PROVE  StoreTyped'
    <2>1. base[s] \in Lists /\ NoList \in Lists
      BY NothingTyped DEF SendsTyped
    <2>2. /\ memory' \in {memory, base[s], NoList} /\ file' \in {file, base[s]}
          /\ stamp' \in {stamp, writes + 1} /\ writes' \in {writes, writes + 1}
          /\ acts' \in {acts, acts + 1} /\ known' = known
      BY <1>4 DEF Advance, Post, StartRun, Load, Loaded, LoadFails, Answer,
           WriteBack, SendEnds, RunCancelled, RunAbandoned, RunEnds, storeVars,
           fileVars, WriteFile, Spend
    <2>3. QED
      BY <1>0, <2>1, <2>2
  <1>5. ASSUME NEW s \in Sends, Capture(s) \/ \E i \in Items : Import(s, i)
        PROVE  StoreTyped'
    <2>1. PICK l \in Lists : Storing(s, l)
      BY <1>5, StoringTyped DEF StoresList
    <2>2. /\ memory' = l /\ UNCHANGED <<file, stamp, writes>> /\ acts' = acts + 1
          /\ known' = known \cup Pairs(l)
      BY <1>5, <2>1, StoringTyped DEF StoresList, Storing, fileVars
    <2>3. QED
      BY <2>2, PairsTyped
  <1>6. ASSUME NEW i \in Items, EditOutside(i)
        PROVE  StoreTyped'
    <2>1. /\ memory' = memory /\ file' = [file EXCEPT ![i] = NewText]
          /\ stamp' = writes + 1 /\ writes' = writes + 1 /\ acts' = acts + 1
          /\ known' = known \cup {<<i, NewText>>}
      BY <1>6 DEF EditOutside, WriteFile, Spend
    <2>2. NewText \in Nat
      BY NewTextTyped
    <2>3. file' \in Lists
      BY <2>1, <2>2, ListChanged
    <2>4. QED
      BY <2>1, <2>2, <2>3
  <1>7. CASE RemoveOutside
    BY <1>0, <1>7, NothingTyped DEF RemoveOutside, Spend
  <1>8. QED
    BY <1>1, <1>2, <1>3, <1>4, <1>5, <1>6, <1>7 DEF WsNext

LEMMA SavesStep ==
  ASSUME WsTypeOK, WsNext
  PROVE  SavesTyped'
  <1> USE DEF WsTypeOK, SavesTyped
  <1>1. memory \in Lists /\ file \in Lists /\ stamp \in Nat
    BY DEF StoreTyped
  <1>2. ASSUME UNCHANGED <<cache, fetch, flight, mixed, blind>>,
               raced' \in BOOLEAN, queue' \in Seq(UpdateType)
        PROVE  SavesTyped'
    BY <1>2
  <1>3. ASSUME NEW u \in UpdateType, Enqueue(u),
               UNCHANGED <<cache, fetch, flight, mixed, raced, blind>>
        PROVE  SavesTyped'
    BY <1>3, <1>2, Enqueued
  <1>4. CASE UNCHANGED saveVars
    BY <1>4, <1>2 DEF saveVars
  <1>5. CASE Save
    BY <1>5, <1>3, DraftTyped DEF Save, TabsTyped
  <1>6. ASSUME NEW i \in Items, EditTree(i)
        PROVE  SavesTyped'
    <2>0. NewText \in Nat
      BY NewTextTyped
    <2>1. Update(i, NewText, None, None) \in UpdateType
      BY <2>0, UpdateTyped
    <2>2. QED
      BY <1>6, <1>3, <2>1 DEF EditTree
  <1>7. ASSUME NEW s \in Sends, NEW run \in BOOLEAN, Send(s, run)
        PROVE  SavesTyped'
    BY <1>7, <1>3, DraftTyped DEF Send, TabsTyped
  <1>8. CASE SaveStep
    <2>1. ASSUME NEW u \in UpdateType, Drop(u), UNCHANGED <<raced, blind>>
          PROVE  SavesTyped'
      BY <2>1, NothingTyped DEF Drop
    <2>2. flight.update \in UpdateType /\ flight.list \in Lists
          /\ flight.token \in Nat /\ flight.mixed \in BOOLEAN
      BY DEF FlightType
    <2>3. CASE BeginSave
      <3> DEFINE u == Placed(Head(queue), cache.list)
                 l == [cache.list EXCEPT ![u.item] = u.version]
      <3>1. u \in UpdateType /\ queue' \in Seq(UpdateType)
        BY <2>3, Dequeued, PlacedTyped DEF BeginSave
      <3>2. l \in Lists /\ cache.token \in Nat
        BY <3>1, ListChanged DEF UpdateType
      <3>3. flight' = Put("sent", u, l, cache.token, mixed)
            /\ UNCHANGED <<cache, fetch, mixed, raced, blind>>
        BY <2>3 DEF BeginSave
      <3> HIDE DEF u, l
      <3>4. flight' \in FlightType
        BY <3>1, <3>2, <3>3 DEF Put, FlightType
      <3>5. QED
        BY <3>1, <3>3, <3>4
    <2>4. CASE Accept
      BY <2>4 DEF Accept, Accepted, Uncompared, FlightType
    <2>5. CASE Refuse
      BY <2>5, <2>1, <2>2 DEF Refuse
    <2>6. CASE Write
      BY <2>6 DEF Write, FlightType
    <2>7. CASE WriteFails
      BY <2>7, <2>1, <2>2 DEF WriteFails
    <2>8. CASE Respond
      <3>1. PICK k \in Nat : flight' = Put("answered", flight.update, memory, k,
                                          memory # Behind(k))
        BY <1>1, <2>8 DEF Respond, NoToken
      <3>2. flight' \in FlightType
        BY <1>1, <2>2, <3>1, PutTyped
      <3>3. QED
        BY <2>8, <3>2 DEF Respond
    <2>9. CASE SettleSave
      BY <2>9, <2>2, NothingTyped DEF SettleSave, Cached
    <2>10. QED
      BY <1>8, <2>3, <2>4, <2>5, <2>6, <2>7, <2>8, <2>9 DEF SaveStep
  <1>9. CASE FetchStep
    <2>1. CASE FetchList
      BY <2>1, <1>1 DEF FetchList, Get, FetchType
    <2>2. CASE FetchToken
      <3>1. PICK k \in Nat : fetch' = Get("answered", fetch.list, k,
                                         fetch.list # Behind(k))
        BY <1>1, <2>2 DEF FetchToken, NoToken
      <3>2. fetch.list \in Lists
        BY DEF FetchType
      <3>3. fetch' \in FetchType
        BY <3>1, <3>2, GetTyped
      <3>4. QED
        BY <2>2, <3>3 DEF FetchToken
    <2>3. CASE FetchArrives
      BY <2>3, NothingTyped DEF FetchArrives, Cached, FetchType
    <2>4. QED
      BY <1>9, <2>1, <2>2, <2>3 DEF FetchStep
  <1>10. CASE WritesFile
    BY <1>10, <1>2 DEF WritesFile, WriteBack, EditOutside, RemoveOutside, Races
  <1>11. ASSUME NEW s \in Sends, Capture(s) \/ \E i \in Items : Import(s, i)
         PROVE  SavesTyped'
    BY <1>4, <1>11, StoringTyped DEF StoresList
  <1>12. CASE UserStep
    BY <1>12, <1>4, <1>5, <1>6, <1>7 DEF UserStep, OpenTab, Activate, CloseTab,
         Edit, RunTree, AbortRun
  <1>13. ASSUME NEW s \in Sends, Moves(s)
         PROVE  SavesTyped'
    BY <1>13, <1>4, <1>10, <1>11 DEF WritesFile, Moves, Advance, Post, StartRun,
       Load, Loaded, LoadFails, Answer, SendEnds, RunCancelled, RunAbandoned,
       RunEnds
  <1>14. QED
    BY <1>8, <1>9, <1>10, <1>11, <1>12, <1>13 DEF WsNext, WritesFile, Moves

\* A send or a save leaves the tabs as they are, but for the marks it takes off.
LEMMA TabsStep ==
  ASSUME WsTypeOK, WsNext
  PROVE  TabsTyped'
  <1> USE DEF WsTypeOK, TabsTyped
  <1>1. CASE UNCHANGED tabVars
    BY <1>1 DEF tabVars, Open
  <1>2. ASSUME NEW t \in Tabs, NEW r \in Requests, NEW peek \in BOOLEAN,
               Show(t, r, peek)
        PROVE  TabsTyped'
    <2>1. cache.list[r] \in Nat /\ r \in Requests
      BY DEF SavesTyped, Lists, Items
    <2>2. r # None
      BY WorkspaceAssumption DEF Items
    <2>3. QED
      BY <1>2, <2>1, <2>2 DEF Show, Open
  <1>3. ASSUME NEW r \in Requests, NEW peek \in BOOLEAN, OpenTab(r, peek)
        PROVE  TabsTyped'
    <2>1. CASE Revisit(r, peek)
      <3>1. PICK t \in Tabs :
              /\ node[t] = r
              /\ active' = t
              /\ preview' = [preview EXCEPT ![t] = @ /\ peek]
              /\ UNCHANGED <<node, draft, dirty, sending, outrun>>
        BY <2>1 DEF Revisit
      <3>2. r # None
        BY WorkspaceAssumption DEF Items
      <3>3. preview' \in [Tabs -> BOOLEAN]
        BY <3>1, Zenon
      <3>4. QED
        BY <3>1, <3>2, <3>3 DEF Open
    <2>2. CASE \E t \in Tabs : Show(t, r, TRUE)
      BY <2>2, <1>2
    <2>3. CASE \E t \in Tabs : Show(t, r, peek)
      BY <2>3, <1>2
    <2>4. QED
      BY <1>3, <2>1, <2>2, <2>3 DEF OpenTab
  <1>4. ASSUME NEW t \in Tabs, Activate(t)
        PROVE  TabsTyped'
    BY <1>4 DEF Activate, Open
  <1>5. ASSUME NEW t \in Tabs, CloseTab(t)
        PROVE  TabsTyped'
    <2>1. /\ node' = [node EXCEPT ![t] = None]
          /\ draft' = [draft EXCEPT ![t] = 0]
          /\ dirty' = [dirty EXCEPT ![t] = FALSE]
          /\ preview' = [preview EXCEPT ![t] = FALSE]
          /\ sending' = [sending EXCEPT ![t] = FALSE]
          /\ outrun' = [outrun EXCEPT ![t] = FALSE]
      BY <1>5 DEF CloseTab
    <2>2. active' = None \/ (active' \in Tabs /\ active' # t /\ Open(active'))
      <3>1. CASE active # t
        BY <1>5, <3>1 DEF CloseTab
      <3>2. CASE active = t
        <4>1. active' = None \/ active' \in {u \in Tabs \ {t} : Open(u)}
          BY <1>5, <3>2, Zenon DEF CloseTab
        <4>2. QED
          BY <4>1
      <3>3. QED
        BY <3>1, <3>2
    <2>3. active' = None \/ (active' \in Tabs /\ node'[active'] # None)
      BY <2>1, <2>2 DEF Open
    <2>4. QED
      BY <2>1, <2>3 DEF Open
  <1>6. CASE Edit
    <2>1. NewText \in Nat
      BY NewTextTyped
    <2>2. QED
      BY <1>6, <2>1 DEF Edit, Open
  <1>7. CASE SettleSave
    <2>1. UNCHANGED <<node, draft, preview, active>>
      BY <1>7 DEF SettleSave
    <2>2. dirty' \in [Tabs -> BOOLEAN]
      BY <1>7 DEF SettleSave
    <2>3. outrun' \in [Tabs -> BOOLEAN]
      BY <1>7, Zenon DEF SettleSave
    <2>4. sending' \in [Tabs -> BOOLEAN]
      BY <1>7 DEF SettleSave
    <2>5. QED
      BY <2>1, <2>2, <2>3, <2>4 DEF Open
  <1>8. ASSUME NEW s \in Sends, NotSending(s),
               UNCHANGED <<node, draft, dirty, preview, active, outrun>>
        PROVE  TabsTyped'
    BY <1>8 DEF NotSending, Open
  <1>9. ASSUME NEW s \in Sends, Advance(s)
        PROVE  TabsTyped'
    BY <1>9, <1>1, <1>8 DEF Moves, Advance, Post, StartRun, Load, LoadFails, Loaded, Answer,
         WriteBack, SendEnds, RunCancelled, RunAbandoned, RunEnds
  <1>10. CASE UserStep
    BY <1>10, <1>1, <1>3, <1>4, <1>5, <1>6
       DEF UserStep, Save, EditTree, Send, RunTree, AbortRun
  <1>11. CASE SaveStep
    BY <1>11, <1>1, <1>7 DEF SaveStep, BeginSave, Accept, Accepted, Refuse, Write,
         WriteFails, Respond
  <1>12. CASE FetchStep
    BY <1>12, <1>1 DEF FetchStep, FetchList, FetchToken, FetchArrives
  <1>13. ASSUME NEW s \in Sends, Capture(s) \/ \E i \in Items : Import(s, i)
         PROVE  TabsTyped'
    BY <1>1, <1>13, StoringTyped DEF StoresList
  <1>14. QED
    BY <1>1, <1>9, <1>10, <1>11, <1>12, <1>13
       DEF WsNext, LoadFails, EditOutside, RemoveOutside

LEMMA SendsStep ==
  ASSUME WsTypeOK, WsNext
  PROVE  SendsTyped'
  <1> USE DEF WsTypeOK, SendsTyped
  <1>0. ASSUME NEW s \in Sends, StoresList(s)
        PROVE  SendsTyped'
    <2>1. PICK l \in Lists : Storing(s, l)
      BY <1>0 DEF StoresList
    <2>2. isRun' \in [Sends -> BOOLEAN]
      BY <1>0 DEF StoresList
    <2>3. UNCHANGED <<origin, stream, current, shown>>
      BY <1>0 DEF StoresList, runVars
    <2>4. phase' = [phase EXCEPT ![s] = "storing"] /\ base' = [base EXCEPT ![s] = l]
      BY <2>1 DEF Storing
    <2>5. QED
      BY <2>2, <2>3, <2>4
  <1>1. CASE UNCHANGED <<sendVars, runVars>>
    BY <1>1 DEF sendVars, runVars
  <1>2. ASSUME NEW t \in Tabs \cup {None}, NEW s \in Sends, NEW run \in BOOLEAN,
               NEW at \in {"saving", "ready"},
               phase' = [phase EXCEPT ![s] = at],
               origin' \in [Sends -> Tabs \cup {None}],
               isRun' = [isRun EXCEPT ![s] = run],
               UNCHANGED <<base, stream, runVars>>
        PROVE  SendsTyped'
    BY <1>2 DEF runVars
  <1>3. ASSUME NEW s \in Sends, NEW run \in BOOLEAN, Send(s, run)
        PROVE  SendsTyped'
    BY <1>3, <1>2 DEF Send, TabsTyped
  <1>4. ASSUME NEW s \in Sends, RunTree(s)
        PROVE  SendsTyped'
    BY <1>4, <1>2 DEF RunTree
  <1>5. CASE AbortRun
    BY <1>5 DEF AbortRun, runVars
  <1>6. ASSUME NEW u \in UpdateType, Drop(u), runVars' = runVars
        PROVE  SendsTyped'
    BY <1>6 DEF Drop, runVars, UpdateType
  <1>7. flight.update \in UpdateType
    BY DEF SavesTyped, FlightType
  <1>8. CASE SettleSave
    BY <1>7, <1>8 DEF SettleSave, runVars, UpdateType
  <1>9. ASSUME NEW s \in Sends, Moves(s)
        PROVE  SendsTyped'
    <2>1. CASE Post(s) \/ Answer(s) \/ RunAbandoned(s)
      BY <2>1 DEF Post, Answer, RunAbandoned, runVars
    <2>2. CASE StartRun(s)
      BY <2>2 DEF StartRun, Drawer
    <2>3. CASE Load(s) \/ Loaded(s) \/ LoadFails(s)
      BY <2>3, NothingTyped DEF Load, Loaded, LoadFails, StoreTyped, runVars
    <2>4. CASE Capture(s)
      BY <1>0, <2>4, StoringTyped
    <2>5. CASE WriteBack(s)
      BY <2>5 DEF WriteBack, runVars
    <2>6. CASE SendEnds(s)
      BY <2>6 DEF SendEnds, runVars
    <2>7. ASSUME NEW status \in {"done", "aborted", "error"}, SettleRun(s, status)
          PROVE  /\ current' \in Sends \cup {None}
                 /\ shown' \in [run : Sends \cup {None},
                       status : {"idle", "running", "done", "aborted", "error"}]
      BY <2>7 DEF SettleRun, Drawer
    <2>8. CASE RunCancelled(s)
      BY <2>8, <2>7 DEF RunCancelled
    <2>9. ASSUME NEW status \in {"done", "aborted", "error"}, RunEnds(s, status)
          PROVE  SendsTyped'
      BY <2>9, <2>7 DEF RunEnds
    <2>10. QED
      BY <1>9, <2>1, <2>2, <2>3, <2>4, <2>5, <2>6, <2>8, <2>9
         DEF Moves, Advance
  <1>10. CASE UserStep
    <2>1. ASSUME NEW r \in Requests, NEW peek \in BOOLEAN, OpenTab(r, peek)
          PROVE  SendsTyped'
      BY <2>1, <1>1 DEF OpenTab
    <2>2. ASSUME NEW t \in Tabs, Activate(t) \/ CloseTab(t)
          PROVE  SendsTyped'
      BY <2>2, <1>1 DEF Activate, CloseTab
    <2>3. CASE Edit \/ Save
      BY <2>3, <1>1 DEF Edit, Save
    <2>4. ASSUME NEW i \in Items, EditTree(i)
          PROVE  SendsTyped'
      BY <2>4, <1>1 DEF EditTree
    <2>5. QED
      BY <1>10, <1>3, <1>4, <1>5, <2>1, <2>2, <2>3, <2>4 DEF UserStep
  <1>11. CASE SaveStep
    BY <1>11, <1>1, <1>6, <1>7, <1>8 DEF SaveStep, BeginSave, Accept, Accepted, Refuse,
         Write, WriteFails, Respond
  <1>12. CASE FetchStep
    BY <1>12, <1>1 DEF FetchStep, FetchList, FetchToken, FetchArrives
  <1>13. ASSUME NEW s \in Sends, NEW i \in Items, Import(s, i)
         PROVE  SendsTyped'
    BY <1>0, <1>13, StoringTyped
  <1>14. QED
    BY <1>1, <1>9, <1>10, <1>11, <1>12, <1>13
       DEF WsNext, Moves, EditOutside, RemoveOutside

\* The workspace's variables keep their types, and the editor on screen is
\* always an open tab's: closing the active tab activates one that is open.
THEOREM WorkspaceTyped == WsSpec => []WsTypeOK
  <1>1. WsInit => WsTypeOK
    <2> SUFFICES ASSUME WsInit PROVE WsTypeOK
      OBVIOUS
    <2>0. /\ file \in Lists /\ memory = file /\ stamp \in Nat /\ writes = stamp
          /\ cache = Cached(file, stamp) /\ known = Pairs(NoList) \cup Pairs(file)
          /\ acts = 0
      <3>1. file \in Lists /\ stamp \in Nat
        BY FirstTyped
      <3>2. memory = file /\ writes = stamp /\ cache = Cached(file, stamp)
            /\ known = Pairs(NoList) \cup Pairs(file) /\ acts = 0
        BY Zenon DEF WsInit
      <3>3. QED
        BY <3>1, <3>2
    <2>1. StoreTyped
      <3>1. Pairs(NoList) \subseteq Items \X Nat /\ Pairs(file) \subseteq Items \X Nat
        BY <2>0, NothingTyped, PairsTyped
      <3>2. known \subseteq Items \X Nat
        BY <2>0, <3>1
      <3>3. memory \in Lists /\ writes \in Nat /\ acts \in Nat
        BY <2>0
      <3>4. QED
        BY <2>0, <3>2, <3>3 DEF StoreTyped
    <2>2. SavesTyped
      <3>1. cache \in [list : Lists, token : Nat]
        BY <2>0 DEF Cached
      <3>2. fetch \in FetchType /\ flight \in FlightType
        BY NothingTyped, Zenon DEF WsInit
      <3>3. mixed \in BOOLEAN /\ raced \in BOOLEAN /\ blind \in BOOLEAN
        BY DEF WsInit
      <3>4. QED
        BY <3>1, <3>2, <3>3 DEF SavesTyped, WsInit
    <2>3. TabsTyped
      <3>1. node \in [Tabs -> Requests \cup {None}] /\ draft \in [Tabs -> Nat]
        BY DEF WsInit
      <3>2. /\ dirty \in [Tabs -> BOOLEAN] /\ preview \in [Tabs -> BOOLEAN]
            /\ sending \in [Tabs -> BOOLEAN] /\ outrun \in [Tabs -> BOOLEAN]
        BY Zenon DEF WsInit
      <3>3. active = None
        BY DEF WsInit
      <3>4. QED
        BY <3>1, <3>2, <3>3 DEF TabsTyped
    <2>4. SendsTyped
      BY NothingTyped DEF WsInit, SendsTyped, Drawer
    <2>5. QED
      BY <2>1, <2>2, <2>3, <2>4 DEF WsTypeOK
  <1>2. WsTypeOK /\ [WsNext]_wsVars => WsTypeOK'
    <2>1. CASE WsNext
      BY <2>1, StoreStep, SavesStep, TabsStep, SendsStep DEF WsTypeOK
    <2>2. CASE UNCHANGED wsVars
      BY <2>2 DEF wsVars, WsTypeOK, StoreTyped, SavesTyped, TabsTyped, SendsTyped,
           Open
    <2>3. QED
      BY <2>1, <2>2
  <1>3. QED
    BY <1>1, <1>2, PTL DEF WsSpec

-----------------------------------------------------------------------------
(* A whole-store save undoes nobody's work.  The token that travels with a *)
(* list vouches for it: where it is the file's stamp the list is what the  *)
(* file holds, and where there is none the list is empty, unless the two   *)
(* were read at different times (mixed).  That is true of the cache, of    *)
(* the answers on their way to it and, but for the item that is saved, of  *)
(* the list of a save on its way to the sidecar.  No stamp is used twice,  *)
(* and a file without one is not there.                                    *)

StampKnown == stamp <= writes /\ (stamp = NoToken => file = NoList)

Agrees(l, k, m) ==
  /\ k <= writes
  /\ ~m => (k = stamp => l = file) /\ (k = NoToken => l = NoList)

CacheAgrees == Agrees(cache.list, cache.token, mixed)
FetchAgrees ==
  fetch.at = "answered" => Agrees(fetch.list, fetch.token, fetch.mixed)
AnswerAgrees ==
  flight.at = "answered" => Agrees(flight.list, flight.token, flight.mixed)
SentAgrees ==
  flight.at = "sent" =>
    /\ flight.token <= writes
    /\ ~flight.mixed =>
         \A i \in Items \ {flight.update.item} :
           /\ flight.token = stamp => flight.list[i] = file[i]
           /\ flight.token = NoToken => flight.list[i] = NoList[i]

TokenInv == /\ StampKnown /\ CacheAgrees /\ FetchAgrees /\ AnswerAgrees
            /\ SentAgrees /\ SaveKeepsOthers

\* A token that is read vouches for its list, or has none to vouch for.
LEMMA TokenVouches ==
  ASSUME WsTypeOK, TokenInv, NEW k \in {stamp, NoToken}, NEW l
  PROVE  k \in Nat /\ Agrees(l, k, l # Behind(k))
  <1>1. stamp \in Nat /\ writes \in Nat
    BY DEF WsTypeOK, StoreTyped
  <1>2. k \in Nat /\ k <= writes
    BY <1>1 DEF NoToken, TokenInv, StampKnown
  <1>3. (k = stamp => Behind(k) = file) /\ (k = NoToken => Behind(k) = NoList)
    BY DEF Behind, TokenInv, StampKnown
  <1>4. QED
    BY <1>2, <1>3, Zenon DEF Agrees

LEMMA TokenStep ==
  ASSUME WsTypeOK, TokenInv, WsNext
  PROVE  TokenInv'
  <1> USE DEF TokenInv
  <1>1. stamp \in Nat /\ writes \in Nat /\ cache.token \in Nat
        /\ fetch.token \in Nat /\ flight.token \in Nat /\ cache.list \in Lists
    BY DEF WsTypeOK, StoreTyped, SavesTyped, FetchType, FlightType
  <1>2. CASE UNCHANGED <<file, stamp, writes, cache, fetch, flight, mixed, raced,
                         blind>>
    BY <1>2 DEF StampKnown, CacheAgrees, FetchAgrees, AnswerAgrees, SentAgrees,
         Agrees, SaveKeepsOthers
  \* The file is written, and no token is its stamp.
  <1>3. ASSUME stamp' = writes + 1, writes' = writes + 1,
               UNCHANGED <<cache, fetch, mixed>>,
               \/ flight' = flight /\ raced' = (raced \/ flight.at = "writing")
               \/ flight'.at = "written"
        PROVE  TokenInv'
    <2>1. \A k \in Nat : k <= writes => k <= writes + 1 /\ k # writes + 1
      BY <1>1
    <2>2. CacheAgrees' /\ FetchAgrees' /\ AnswerAgrees'
      BY <1>1, <1>3, <2>1 DEF CacheAgrees, FetchAgrees, AnswerAgrees, Agrees
    <2>3. SentAgrees'
      BY <1>1, <1>3, <2>1 DEF SentAgrees
    <2>4. SaveKeepsOthers'
      BY <1>3, Zenon DEF SaveKeepsOthers
    <2>5. StampKnown'
      BY <1>1, <1>3 DEF StampKnown, NoToken
    <2>6. QED
      BY <2>2, <2>3, <2>4, <2>5
  <1>4. CASE BeginSave
    <2> DEFINE u == Placed(Head(queue), cache.list)
               l == [cache.list EXCEPT ![u.item] = u.version]
    <2>1. u \in UpdateType
      BY <1>4, Dequeued, PlacedTyped DEF BeginSave, WsTypeOK, SavesTyped
    <2>2. u.item \in Items /\ \A i \in Items \ {u.item} : l[i] = cache.list[i]
      BY <1>1, <2>1, ListChanged DEF UpdateType
    <2>3. flight' = Put("sent", u, l, cache.token, mixed)
          /\ UNCHANGED <<file, stamp, writes, cache, fetch, mixed, raced, blind>>
      BY <1>4 DEF BeginSave, storeVars, fileVars
    <2> HIDE DEF u, l
    <2>4. /\ flight'.at = "sent" /\ flight'.update = u /\ flight'.list = l
          /\ flight'.token = cache.token /\ flight'.mixed = mixed
      BY <2>3 DEF Put
    <2>5. SentAgrees'
      BY <2>2, <2>3, <2>4 DEF SentAgrees, CacheAgrees, Agrees
    <2>6. QED
      BY <2>3, <2>4, <2>5 DEF StampKnown, CacheAgrees, FetchAgrees, AnswerAgrees,
           Agrees, SaveKeepsOthers
  <1>5. CASE Accept
    <2>1. /\ flight.at = "sent" /\ flight'.at = "writing"
          /\ flight'.list = flight.list
          /\ flight'.update = flight.update /\ flight'.mixed = flight.mixed
          /\ UNCHANGED <<file, stamp, writes, cache, fetch, mixed>>
      BY <1>5 DEF Accept, Accepted, fileVars, WsTypeOK, SavesTyped, FlightType
    <2>2. PICK k \in {stamp, NoToken} :
            TokenRead(k) /\ ~Stale(k) /\ blind' = Uncompared(k)
      BY <1>5 DEF Accept
    <2>3. flight.token = stamp \/ blind'
      BY <2>2 DEF Stale, Uncompared
    <2>4. SaveKeepsOthers'
      BY <2>1, <2>3 DEF SaveKeepsOthers, SentAgrees
    <2>5. QED
      BY <2>1, <2>4 DEF StampKnown, CacheAgrees, FetchAgrees, AnswerAgrees,
           SentAgrees, Agrees
  <1>6. CASE Refuse \/ WriteFails
    <2>1. flight'.at = "idle"
          /\ UNCHANGED <<file, stamp, writes, cache, fetch, mixed>>
      BY <1>6, NothingTyped DEF Refuse, WriteFails, Drop, storeVars, fileVars
    <2>2. QED
      BY <2>1 DEF StampKnown, CacheAgrees, FetchAgrees, AnswerAgrees, SentAgrees,
           Agrees, SaveKeepsOthers
  <1>7. CASE Write
    <2>1. flight'.at = "written" /\ stamp' = writes + 1 /\ writes' = writes + 1
          /\ UNCHANGED <<cache, fetch, mixed>>
      BY <1>7 DEF Write, WriteFile, WsTypeOK, SavesTyped, FlightType
    <2>2. QED
      BY <1>3, <2>1
  <1>8. CASE Respond
    <2>1. PICK k \in {stamp, NoToken} :
            flight' = Put("answered", flight.update, memory, k, memory # Behind(k))
      BY <1>8 DEF Respond
    <2>2. /\ flight'.at = "answered" /\ flight'.list = memory
          /\ flight'.token = k /\ flight'.mixed = (memory # Behind(k))
          /\ UNCHANGED <<file, stamp, writes, cache, fetch, mixed>>
      BY <1>8, <2>1 DEF Respond, Put, storeVars, fileVars
    <2>3. Agrees(memory, k, memory # Behind(k))
      BY TokenVouches
    <2>4. AnswerAgrees'
      BY <2>2, <2>3 DEF AnswerAgrees, Agrees
    <2>5. QED
      BY <2>2, <2>4 DEF StampKnown, CacheAgrees, FetchAgrees, SentAgrees, Agrees,
           SaveKeepsOthers
  <1>9. CASE SettleSave
    <2>1. /\ flight.at = "answered" /\ flight'.at = "idle"
          /\ cache'.list = flight.list /\ cache'.token = flight.token
          /\ mixed' = flight.mixed /\ UNCHANGED <<file, stamp, writes, fetch>>
      BY <1>9, NothingTyped DEF SettleSave, Cached, storeVars, fileVars
    <2>2. QED
      BY <2>1 DEF StampKnown, CacheAgrees, FetchAgrees, AnswerAgrees, SentAgrees,
           Agrees, SaveKeepsOthers
  <1>10. CASE FetchStep
    <2>1. UNCHANGED <<memory, file, stamp, writes, flight, raced, blind>>
      BY <1>10 DEF FetchStep, FetchList, FetchToken, FetchArrives, storeVars,
         fileVars
    <2>2. StampKnown' /\ AnswerAgrees' /\ SentAgrees' /\ SaveKeepsOthers'
      BY <2>1 DEF StampKnown, AnswerAgrees, SentAgrees, Agrees, SaveKeepsOthers
    <2>3. CASE FetchList
      BY <2>1, <2>2, <2>3 DEF FetchList, Get, CacheAgrees, FetchAgrees, Agrees
    <2>4. CASE FetchToken
      <3>1. PICK k \in {stamp, NoToken} :
              fetch' = Get("answered", fetch.list, k, fetch.list # Behind(k))
        BY <2>4 DEF FetchToken
      <3>2. /\ fetch'.list = fetch.list /\ fetch'.token = k
            /\ fetch'.mixed = (fetch.list # Behind(k)) /\ UNCHANGED <<cache, mixed>>
        BY <2>4, <3>1 DEF FetchToken, Get
      <3>3. Agrees(fetch.list, k, fetch.list # Behind(k))
        BY TokenVouches
      <3>4. FetchAgrees'
        BY <2>1, <3>2, <3>3 DEF FetchAgrees, Agrees
      <3>5. QED
        BY <2>1, <2>2, <3>2, <3>4 DEF CacheAgrees, Agrees
    <2>5. CASE FetchArrives
      BY <2>1, <2>2, <2>5, NothingTyped DEF FetchArrives, Cached, CacheAgrees,
           FetchAgrees, Agrees
    <2>6. QED
      BY <1>10, <2>3, <2>4, <2>5 DEF FetchStep
  <1>11. CASE UserStep
    BY <1>2, <1>11, UserFrame
  <1>12. CASE SaveStep
    BY <1>4, <1>5, <1>6, <1>7, <1>8, <1>9, <1>12 DEF SaveStep
  <1>13. ASSUME NEW s \in Sends, WriteBack(s)
         PROVE  TokenInv'
    BY <1>3, <1>13 DEF WriteBack, WriteFile, Races
  <1>14. ASSUME NEW i \in Items, EditOutside(i)
         PROVE  TokenInv'
    BY <1>3, <1>14 DEF EditOutside, WriteFile, Races
  <1>15. ASSUME NEW s \in Sends, Moves(s)
         PROVE  TokenInv'
    BY <1>2, <1>13, <1>15 DEF Moves, Advance, Post, StartRun, Load, LoadFails,
       Loaded, Answer, SendEnds, RunCancelled, RunAbandoned, RunEnds, Capture,
       storeVars, fileVars, saveVars
  <1>16. ASSUME NEW s \in Sends, NEW i \in Items, Import(s, i)
         PROVE  TokenInv'
    BY <1>2, <1>16 DEF Import, fileVars, saveVars
  \* The file goes, and every token but none with it.
  <1>17. CASE RemoveOutside
    <2>1. /\ stamp' = NoToken /\ file' = NoList /\ writes' = writes
          /\ raced' = (raced \/ flight.at = "writing")
          /\ UNCHANGED <<cache, fetch, flight, mixed>>
      BY <1>17 DEF RemoveOutside, Races
    <2>2. CacheAgrees' /\ FetchAgrees' /\ AnswerAgrees'
      BY <2>1 DEF CacheAgrees, FetchAgrees, AnswerAgrees, Agrees
    <2>3. SentAgrees'
      BY <2>1 DEF SentAgrees
    <2>4. SaveKeepsOthers'
      BY <2>1, Zenon DEF SaveKeepsOthers
    <2>5. StampKnown'
      BY <1>1, <2>1 DEF StampKnown, NoToken
    <2>6. QED
      BY <2>2, <2>3, <2>4, <2>5
  <1>18. QED
    BY <1>10, <1>11, <1>12, <1>14, <1>15, <1>16, <1>17 DEF WsNext, Moves

\* However saves, refetches, captures, imports and edits from outside interleave,
\* a save the sidecar accepted differs from the file in its own item only, unless
\* its list and its token were read at different times, the page or the file had
\* no token to compare, or the file was written between comparison and write.
THEOREM SavesKeepOthers == WsSpec => []SaveKeepsOthers
  <1>1. WsInit => TokenInv
    BY NothingTyped DEF WsInit, TokenInv, StampKnown, NoToken, CacheAgrees,
       FetchAgrees, AnswerAgrees, SentAgrees, Agrees, SaveKeepsOthers, Cached
  <1>2. WsTypeOK /\ TokenInv /\ [WsNext]_wsVars => TokenInv'
    <2>1. CASE UNCHANGED wsVars
      BY <2>1 DEF wsVars, TokenInv, StampKnown, CacheAgrees, FetchAgrees,
         AnswerAgrees, SentAgrees, Agrees, SaveKeepsOthers
    <2>2. QED
      BY <2>1, TokenStep
  <1>3. TokenInv => SaveKeepsOthers
    BY DEF TokenInv
  <1>4. QED
    BY <1>1, <1>2, <1>3, WorkspaceTyped, PTL DEF WsSpec

-----------------------------------------------------------------------------
(* A clean tab's text is one that the sidecar has or had.  Every list that *)
(* a tab can be filled from holds such texts only, and so does, once it    *)
(* was accepted, the save that takes a tab's mark away.                    *)

Held(l) == \A i \in Items : <<i, l[i]>> \in known

ListsHeld ==
  /\ Held(memory) /\ Held(file) /\ Held(cache.list) /\ Held(NoList)
  /\ fetch.at # "idle" => Held(fetch.list)
  /\ \A s \in Sends : Held(base[s])
SaveApplied ==
  flight.at \in {"sent", "writing"} =>
    flight.list[flight.update.item] = flight.update.version
SaveHeld ==
  flight.at \in {"writing", "written", "answered"} =>
    Held(flight.list) /\ <<flight.update.item, flight.update.version>> \in known

KnownInv == ListsHeld /\ SaveApplied /\ SaveHeld /\ CleanMeansStored

\* Nothing known is forgotten.
LEMMA KnownGrows ==
  ASSUME WsTypeOK, WsNext
  PROVE  known \subseteq known'
  <1>1. CASE UserStep
    BY <1>1, UserFrame
  <1>2. CASE SaveStep
    BY <1>2 DEF SaveStep, BeginSave, Accept, Accepted, Refuse, Write, WriteFails,
       Respond, SettleSave
  <1>3. CASE FetchStep
    BY <1>3 DEF FetchStep, FetchList, FetchToken, FetchArrives
  <1>4. ASSUME NEW s \in Sends, Capture(s) \/ \E i \in Items : Import(s, i)
        PROVE  known \subseteq known'
    BY <1>4, StoringTyped DEF StoresList, Storing
  <1>5. ASSUME NEW s \in Sends, Moves(s)
        PROVE  known \subseteq known'
    BY <1>4, <1>5 DEF Moves, Advance, Post, StartRun, Load, LoadFails, Loaded,
       Answer, WriteBack, SendEnds, RunCancelled, RunAbandoned, RunEnds
  <1>6. ASSUME NEW i \in Items, EditOutside(i)
        PROVE  known \subseteq known'
    BY <1>6 DEF EditOutside
  <1>7. QED
    BY <1>1, <1>2, <1>3, <1>4, <1>5, <1>6 DEF WsNext, Moves, RemoveOutside

\* Where the lists come from.
LEMMA ListsHeldStep ==
  ASSUME WsTypeOK, KnownInv, WsNext
  PROVE  ListsHeld'
  <1>1. known \subseteq known'
    BY KnownGrows
  <1>2. /\ Held(memory) /\ Held(file) /\ Held(cache.list) /\ Held(NoList)
        /\ fetch.at # "idle" => Held(fetch.list)
        /\ \A s \in Sends : Held(base[s])
    BY DEF KnownInv, ListsHeld
  <1>3. /\ memory' = memory => Held(memory)'
        /\ file' = file => Held(file)'
        /\ cache' = cache => Held(cache.list)'
        /\ fetch' = fetch => (fetch.at # "idle" => Held(fetch.list))'
        /\ base' = base => (\A s \in Sends : Held(base[s]))'
        /\ Held(NoList)'
    BY <1>1, <1>2 DEF Held
  <1>4. CASE UNCHANGED <<memory, file, cache, fetch, base>>
    BY <1>3, <1>4 DEF ListsHeld
  <1>5. CASE UserStep
    <2>1. UNCHANGED base
      BY <1>5 DEF UserStep, OpenTab, Activate, CloseTab, Edit, Save, EditTree,
         Send, RunTree, AbortRun, sendVars
    <2>2. QED
      BY <1>4, <1>5, <2>1, UserFrame
  <1>6. CASE Accept
    <2>1. flight.list \in Lists
      BY DEF WsTypeOK, SavesTyped, FlightType
    <2>2. memory' = flight.list /\ known' = known \cup Pairs(flight.list)
          /\ UNCHANGED <<file, cache, fetch, base>>
      BY <1>6 DEF Accept, Accepted, sendVars, fileVars
    <2>3. Held(memory)'
      BY <2>1, <2>2, PairsTyped DEF Held
    <2>4. QED
      BY <1>3, <2>2, <2>3 DEF ListsHeld
  <1>7. CASE Write
    <2>1. flight.at = "writing" /\ file' = flight.list
          /\ UNCHANGED <<memory, cache, fetch, base>>
      BY <1>7 DEF Write, WriteFile, sendVars
    <2>2. Held(file)'
      BY <1>1, <2>1 DEF KnownInv, SaveHeld, Held
    <2>3. QED
      BY <1>3, <2>1, <2>2 DEF ListsHeld
  <1>8. CASE SettleSave
    <2>1. flight.at = "answered" /\ cache'.list = flight.list
          /\ UNCHANGED <<memory, file, fetch, base>>
      BY <1>8 DEF SettleSave, Cached, storeVars, fileVars
    <2>2. Held(cache.list)'
      BY <1>1, <2>1 DEF KnownInv, SaveHeld, Held
    <2>3. QED
      BY <1>3, <2>1, <2>2 DEF ListsHeld
  <1>9. CASE BeginSave \/ Refuse \/ WriteFails \/ Respond
    BY <1>4, <1>9 DEF BeginSave, Refuse, WriteFails, Respond, Drop, storeVars,
       fileVars, sendVars
  <1>10. CASE FetchStep
    <2>1. UNCHANGED <<memory, file, base, known>>
      BY <1>10 DEF FetchStep, FetchList, FetchToken, FetchArrives, storeVars,
         fileVars, sendVars
    <2>2. CASE FetchList
      <3>1. fetch'.list = memory /\ UNCHANGED cache
        BY <2>2 DEF FetchList, Get
      <3>2. Held(fetch.list)'
        BY <1>2, <2>1, <3>1 DEF Held
      <3>3. QED
        BY <1>3, <2>1, <3>1, <3>2 DEF ListsHeld
    <2>3. CASE FetchToken
      <3>1. fetch.at = "listed" /\ fetch'.list = fetch.list /\ UNCHANGED cache
        BY <2>3 DEF FetchToken, Get
      <3>2. Held(fetch.list)'
        BY <1>2, <2>1, <3>1 DEF Held
      <3>3. QED
        BY <1>3, <2>1, <3>1, <3>2 DEF ListsHeld
    <2>4. CASE FetchArrives
      <3>1. fetch.at = "answered" /\ cache'.list = fetch.list /\ fetch' = NoGet
        BY <2>4 DEF FetchArrives, Cached
      <3>2. Held(cache.list)'
        BY <1>2, <2>1, <3>1 DEF Held
      <3>3. fetch'.at = "idle"
        BY <3>1, NothingTyped
      <3>4. QED
        BY <1>3, <2>1, <3>2, <3>3 DEF ListsHeld
    <2>5. QED
      BY <1>10, <2>2, <2>3, <2>4 DEF FetchStep
  <1>11. ASSUME NEW s \in Sends, Load(s)
         PROVE  ListsHeld'
    <2>1. base' = [base EXCEPT ![s] = file] /\ UNCHANGED <<memory, file, cache, fetch>>
      BY <1>11 DEF Load, storeVars, fileVars, saveVars
    <2>2. \A r \in Sends : base'[r] = base[r] \/ base'[r] = file
      BY <2>1 DEF WsTypeOK, SendsTyped
    <2>3. (\A r \in Sends : Held(base[r]))'
      BY <1>1, <1>2, <2>2 DEF Held
    <2>4. QED
      BY <1>3, <2>1, <2>3 DEF ListsHeld
  <1>12. ASSUME NEW s \in Sends, Capture(s) \/ \E i \in Items : Import(s, i)
         PROVE  ListsHeld'
    <2>1. PICK l \in Lists : Storing(s, l)
      BY <1>12, StoringTyped DEF StoresList
    <2>2. /\ memory' = l /\ base' = [base EXCEPT ![s] = l]
          /\ known' = known \cup Pairs(l) /\ UNCHANGED <<file, cache, fetch>>
      BY <1>12, <2>1, StoringTyped DEF StoresList, Storing, fileVars, saveVars
    <2>3. \A i \in Items : <<i, l[i]>> \in known'
      BY <2>2, PairsTyped
    <2>4. \A r \in Sends : base'[r] = base[r] \/ base'[r] = l
      BY <2>2 DEF WsTypeOK, SendsTyped
    <2>5. (\A r \in Sends : Held(base[r]))' /\ Held(memory)'
      BY <1>1, <1>2, <2>2, <2>3, <2>4 DEF Held
    <2>6. QED
      BY <1>3, <2>2, <2>5 DEF ListsHeld
  <1>13. ASSUME NEW s \in Sends, Loaded(s)
         PROVE  ListsHeld'
    <2>1. memory' = base[s] /\ UNCHANGED <<file, cache, fetch, base>>
      BY <1>13 DEF Loaded, fileVars, saveVars
    <2>2. Held(memory)'
      BY <1>1, <1>2, <2>1 DEF Held
    <2>3. QED
      BY <1>3, <2>1, <2>2 DEF ListsHeld
  <1>14. ASSUME NEW s \in Sends, WriteBack(s)
         PROVE  ListsHeld'
    <2>1. file' = base[s] /\ UNCHANGED <<memory, cache, fetch, base>>
      BY <1>14 DEF WriteBack, WriteFile
    <2>2. Held(file)'
      BY <1>1, <1>2, <2>1 DEF Held
    <2>3. QED
      BY <1>3, <2>1, <2>2 DEF ListsHeld
  <1>15. ASSUME NEW s \in Sends, Advance(s)
         PROVE  ListsHeld'
    BY <1>4, <1>11, <1>13, <1>14, <1>15 DEF Advance, Post, StartRun, Answer,
       SendEnds, RunCancelled, RunAbandoned, RunEnds, storeVars, fileVars, saveVars
  <1>16. ASSUME NEW i \in Items, EditOutside(i)
         PROVE  ListsHeld'
    <2> DEFINE l == [file EXCEPT ![i] = NewText]
    <2>1. l[i] = NewText /\ \A j \in Items \ {i} : l[j] = file[j]
      <3>1. file \in Lists /\ NewText \in Nat
        BY NewTextTyped DEF WsTypeOK, StoreTyped
      <3>2. QED
        BY <3>1 DEF Lists
    <2>2. /\ file' = l /\ known' = known \cup {<<i, NewText>>}
          /\ UNCHANGED <<memory, cache, fetch, base>>
      BY <1>16 DEF EditOutside, WriteFile, sendVars
    <2> HIDE DEF l
    <2>3. Held(file)'
      BY <1>2, <2>1, <2>2 DEF Held
    <2>4. QED
      BY <1>3, <2>2, <2>3 DEF ListsHeld
  \* A list that is taken from nothing holds nothing.
  <1>17. Held(NoList)'
    BY <1>3
  <1>18. ASSUME NEW s \in Sends, LoadFails(s)
         PROVE  ListsHeld'
    <2>1. /\ memory' = NoList /\ base' = [base EXCEPT ![s] = NoList]
          /\ UNCHANGED <<file, cache, fetch>>
      BY <1>18 DEF LoadFails, fileVars, saveVars
    <2>2. \A r \in Sends : base'[r] = base[r] \/ base'[r] = NoList
      BY <2>1 DEF WsTypeOK, SendsTyped
    <2>3. (\A r \in Sends : Held(base[r]))' /\ Held(memory)'
      BY <1>1, <1>2, <1>17, <2>1, <2>2 DEF Held
    <2>4. QED
      BY <1>3, <2>1, <2>3 DEF ListsHeld
  <1>19. CASE RemoveOutside
    <2>1. file' = NoList /\ UNCHANGED <<memory, cache, fetch, base>>
      BY <1>19 DEF RemoveOutside, sendVars
    <2>2. Held(file)'
      BY <1>17, <2>1 DEF Held
    <2>3. QED
      BY <1>3, <1>17, <2>1, <2>2 DEF ListsHeld
  <1>20. QED
    BY <1>5, <1>6, <1>7, <1>8, <1>9, <1>10, <1>12, <1>15, <1>16, <1>18, <1>19
       DEF WsNext, SaveStep

\* The save in flight carries its item's version, and has been taken in once it
\* was accepted.
LEMMA SaveHeldStep ==
  ASSUME WsTypeOK, KnownInv, WsNext
  PROVE  SaveApplied' /\ SaveHeld'
  <1>1. known \subseteq known'
    BY KnownGrows
  <1>2. SaveApplied /\ SaveHeld
    BY DEF KnownInv
  <1>3. CASE UNCHANGED flight
    BY <1>1, <1>2, <1>3 DEF SaveApplied, SaveHeld, Held
  <1>4. CASE BeginSave
    <2> DEFINE u == Placed(Head(queue), cache.list)
               l == [cache.list EXCEPT ![u.item] = u.version]
    <2>1. u \in UpdateType /\ cache.list \in Lists
      BY <1>4, Dequeued, PlacedTyped DEF BeginSave, WsTypeOK, SavesTyped
    <2>2. l[u.item] = u.version
      <3>1. u.item \in Items /\ u.version \in Nat
        BY <2>1 DEF UpdateType
      <3>2. QED
        BY <2>1, <3>1 DEF Lists
    <2>3. flight' = Put("sent", u, l, cache.token, mixed)
      BY <1>4 DEF BeginSave
    <2> HIDE DEF u, l
    <2>4. flight'.at = "sent" /\ flight'.update = u /\ flight'.list = l
      BY <2>3 DEF Put
    <2>5. QED
      BY <2>2, <2>4 DEF SaveApplied, SaveHeld
  <1>5. CASE Accept
    <2>1. /\ flight.at = "sent" /\ flight'.at = "writing"
          /\ flight'.list = flight.list /\ flight'.update = flight.update
          /\ known' = known \cup Pairs(flight.list)
      BY <1>5 DEF Accept, Accepted, WsTypeOK, SavesTyped, FlightType
    <2>2. flight.list \in Lists /\ flight.update.item \in Items
      BY DEF WsTypeOK, SavesTyped, FlightType, UpdateType
    <2>3. Held(flight.list)'
      BY <2>1, <2>2, PairsTyped DEF Held
    <2>4. flight'.list[flight'.update.item] = flight'.update.version
      BY <1>2, <2>1 DEF SaveApplied
    <2>5. QED
      BY <2>1, <2>2, <2>3, <2>4 DEF SaveApplied, SaveHeld, Held
  <1>6. CASE Refuse \/ WriteFails \/ SettleSave
    <2>1. flight'.at = "idle"
      BY <1>6, NothingTyped DEF Refuse, WriteFails, SettleSave, Drop
    <2>2. QED
      BY <2>1 DEF SaveApplied, SaveHeld
  <1>7. CASE Write
    <2>1. /\ flight.at = "writing" /\ flight'.at = "written"
          /\ flight'.list = flight.list /\ flight'.update = flight.update
      BY <1>7 DEF Write, WsTypeOK, SavesTyped, FlightType
    <2>2. QED
      BY <1>1, <1>2, <2>1 DEF SaveApplied, SaveHeld, Held
  <1>8. CASE Respond
    <2>1. /\ flight.at = "written" /\ flight'.at = "answered"
          /\ flight'.list = memory /\ flight'.update = flight.update
      BY <1>8 DEF Respond, Put
    <2>2. Held(flight.list)'
      BY <1>1, <2>1 DEF KnownInv, ListsHeld, Held
    <2>3. QED
      BY <1>1, <1>2, <2>1, <2>2 DEF SaveApplied, SaveHeld
  <1>9. CASE UserStep
    BY <1>3, <1>9, UserFrame
  <1>10. CASE FetchStep
    BY <1>3, <1>10 DEF FetchStep, FetchList, FetchToken, FetchArrives
  <1>11. ASSUME NEW s \in Sends, Capture(s) \/ \E i \in Items : Import(s, i)
         PROVE  UNCHANGED flight
    BY <1>11, StoringTyped DEF StoresList, saveVars
  <1>12. ASSUME NEW s \in Sends, Moves(s)
         PROVE  UNCHANGED flight
    BY <1>11, <1>12 DEF Moves, Advance, Post, StartRun, Load, LoadFails, Loaded,
       Answer, WriteBack, SendEnds, RunCancelled, RunAbandoned, RunEnds, saveVars
  <1>13. CASE RemoveOutside \/ \E i \in Items : EditOutside(i)
    BY <1>3, <1>13 DEF EditOutside, RemoveOutside
  <1>14. QED
    BY <1>3, <1>4, <1>5, <1>6, <1>7, <1>8, <1>9, <1>10, <1>11, <1>12, <1>13
       DEF WsNext, Moves, SaveStep

\* A tab that shows a request shows what the cache holds of it.
LEMMA ShowClean ==
  ASSUME WsTypeOK, KnownInv, known' = known, NEW t \in Tabs, NEW r \in Requests,
         NEW peek \in BOOLEAN, Show(t, r, peek)
  PROVE  CleanMeansStored'
  <1>1. /\ node'[t] = r /\ draft'[t] = cache.list[r]
        /\ \A x \in Tabs \ {t} : node'[x] = node[x] /\ draft'[x] = draft[x]
    BY DEF Show, WsTypeOK, TabsTyped
  <1>2. \A x \in Tabs \ {t} : dirty'[x] = dirty[x] /\ outrun'[x] = outrun[x]
    BY Zenon DEF Show, WsTypeOK, TabsTyped
  <1>3. <<r, cache.list[r]>> \in known
    BY DEF KnownInv, ListsHeld, Held, Items
  <1>4. QED
    BY <1>1, <1>2, <1>3 DEF KnownInv, CleanMeansStored, Open

LEMMA CleanStep ==
  ASSUME WsTypeOK, KnownInv, WsNext
  PROVE  CleanMeansStored'
  <1>1. known \subseteq known'
    BY KnownGrows
  <1>2. CleanMeansStored
    BY DEF KnownInv
  <1>3. CASE UNCHANGED <<node, draft, dirty, outrun>>
    BY <1>1, <1>2, <1>3 DEF CleanMeansStored, Open
  <1>4. ASSUME NEW r \in Requests, NEW peek \in BOOLEAN, OpenTab(r, peek)
        PROVE  CleanMeansStored'
    <2>1. known' = known
      BY <1>4 DEF OpenTab
    <2>2. CASE Revisit(r, peek)
      BY <1>3, <2>2 DEF Revisit
    <2>3. CASE \E t \in Tabs, p \in BOOLEAN : Show(t, r, p)
      BY <2>1, <2>3, ShowClean
    <2>4. QED
      BY <1>4, <2>2, <2>3 DEF OpenTab
  <1>5. ASSUME NEW t \in Tabs, CloseTab(t)
        PROVE  CleanMeansStored'
    <2>1. /\ node' = [node EXCEPT ![t] = None] /\ draft' = [draft EXCEPT ![t] = 0]
          /\ dirty' = [dirty EXCEPT ![t] = FALSE]
          /\ outrun' = [outrun EXCEPT ![t] = FALSE]
      BY <1>5 DEF CloseTab
    <2>2. /\ node'[t] = None
          /\ \A x \in Tabs \ {t} : node'[x] = node[x] /\ draft'[x] = draft[x]
      BY <2>1 DEF WsTypeOK, TabsTyped
    <2>3. \A x \in Tabs \ {t} : dirty'[x] = dirty[x] /\ outrun'[x] = outrun[x]
      BY <2>1, Zenon DEF WsTypeOK, TabsTyped
    <2>4. QED
      BY <1>1, <1>2, <2>2, <2>3 DEF CleanMeansStored, Open
  <1>6. CASE Edit
    <2>1. /\ active \in Tabs /\ node' = node
          /\ draft' = [draft EXCEPT ![active] = NewText]
      BY <1>6 DEF Edit, WsTypeOK, TabsTyped
    <2>2. \A x \in Tabs \ {active} : draft'[x] = draft[x]
      BY <2>1 DEF WsTypeOK, TabsTyped
    <2>3. /\ dirty'[active]
          /\ \A x \in Tabs \ {active} : dirty'[x] = dirty[x] /\ outrun'[x] = outrun[x]
      BY <1>6, <2>1, Zenon DEF Edit, WsTypeOK, TabsTyped
    <2>4. QED
      BY <1>1, <1>2, <2>1, <2>2, <2>3 DEF CleanMeansStored, Open
  <1>7. CASE SettleSave
    <2> DEFINE u == flight.update
    <2>1. flight.at = "answered" /\ node' = node /\ draft' = draft
      BY <1>7 DEF SettleSave
    <2>2. CASE u.tab = None
      BY <1>3, <1>7, <2>1, <2>2 DEF SettleSave
    <2>3. CASE u.tab # None
      <3>1. u.tab \in Tabs
        BY <2>3 DEF WsTypeOK, SavesTyped, FlightType, UpdateType
      <3>2. /\ dirty' = [dirty EXCEPT ![u.tab] = FALSE]
            /\ outrun' = [outrun EXCEPT ![u.tab] =
                 /\ Open(u.tab)
                 /\ <<node[u.tab], draft[u.tab]>> # <<u.item, u.version>>]
        BY <1>7, <2>3 DEF SettleSave
      <3>3. /\ outrun'[u.tab] <=>
                 (/\ Open(u.tab)
                  /\ <<node[u.tab], draft[u.tab]>> # <<u.item, u.version>>)
            /\ \A x \in Tabs \ {u.tab} : dirty'[x] = dirty[x]
                                         /\ outrun'[x] = outrun[x]
        BY <3>1, <3>2, Zenon DEF WsTypeOK, TabsTyped
      <3>4. <<u.item, u.version>> \in known
        BY <2>1 DEF KnownInv, SaveHeld
      <3> HIDE DEF u
      <3>5. QED
        BY <1>1, <1>2, <2>1, <3>1, <3>3, <3>4 DEF CleanMeansStored, Open
    <2>4. QED
      BY <2>2, <2>3
  <1>8. CASE UserStep
    <2>1. ASSUME NEW t \in Tabs, Activate(t)
          PROVE  CleanMeansStored'
      BY <1>3, <2>1 DEF Activate
    <2>2. CASE Save \/ AbortRun
      BY <1>3, <2>2 DEF Save, AbortRun, tabVars
    <2>3. ASSUME NEW i \in Items, EditTree(i)
          PROVE  CleanMeansStored'
      BY <1>3, <2>3 DEF EditTree, tabVars
    <2>4. ASSUME NEW s \in Sends, NEW run \in BOOLEAN, Send(s, run)
          PROVE  CleanMeansStored'
      BY <1>3, <2>4 DEF Send, tabVars
    <2>5. ASSUME NEW s \in Sends, RunTree(s)
          PROVE  CleanMeansStored'
      BY <1>3, <2>5 DEF RunTree, tabVars
    <2>6. QED
      BY <1>4, <1>5, <1>6, <1>8, <2>1, <2>2, <2>3, <2>4, <2>5 DEF UserStep
  <1>9. CASE SaveStep
    BY <1>3, <1>7, <1>9 DEF SaveStep, BeginSave, Accept, Accepted, Refuse, Write,
       WriteFails, Respond, tabVars
  <1>10. CASE FetchStep
    BY <1>3, <1>10 DEF FetchStep, FetchList, FetchToken, FetchArrives, tabVars
  <1>11. ASSUME NEW s \in Sends, Capture(s) \/ \E i \in Items : Import(s, i)
         PROVE  CleanMeansStored'
    BY <1>3, <1>11, StoringTyped DEF StoresList, tabVars
  <1>12. ASSUME NEW s \in Sends, Moves(s)
         PROVE  CleanMeansStored'
    BY <1>3, <1>11, <1>12 DEF Moves, Advance, Post, StartRun, Load, LoadFails,
       Loaded, Answer, WriteBack, SendEnds, RunCancelled, RunAbandoned, RunEnds,
       tabVars
  <1>13. CASE RemoveOutside \/ \E i \in Items : EditOutside(i)
    BY <1>3, <1>13 DEF EditOutside, RemoveOutside, tabVars
  <1>14. QED
    BY <1>8, <1>9, <1>10, <1>11, <1>12, <1>13 DEF WsNext, Moves

\* A tab without the mark of unsaved changes shows a text the sidecar has or
\* had, through every interleaving of edits, saves that fail, refetches, sends
\* and edits from outside, unless it was edited while its save was under way.
THEOREM CleanTabsAreStored == WsSpec => []CleanMeansStored
  <1>1. WsInit => KnownInv
    <2> SUFFICES ASSUME WsInit PROVE KnownInv
      OBVIOUS
    <2>1. Held(NoList) /\ Held(file)
      BY NothingTyped, FirstTyped, PairsTyped DEF WsInit, Held
    <2>2. memory = file /\ cache.list = file
          /\ fetch.at = "idle" /\ flight.at = "idle"
      BY NothingTyped DEF WsInit, Cached
    <2>3. \A s \in Sends : base[s] = NoList
      BY DEF WsInit
    <2>4. ListsHeld /\ SaveApplied /\ SaveHeld
      BY <2>1, <2>2, <2>3 DEF ListsHeld, SaveApplied, SaveHeld
    <2>5. \A t \in Tabs : ~Open(t)
      BY DEF WsInit, Open
    <2>6. QED
      BY <2>4, <2>5 DEF KnownInv, CleanMeansStored
  <1>2. WsTypeOK /\ KnownInv /\ [WsNext]_wsVars => KnownInv'
    <2>1. CASE UNCHANGED wsVars
      BY <2>1 DEF wsVars, KnownInv, ListsHeld, Held, SaveApplied, SaveHeld,
         CleanMeansStored, Open
    <2>2. CASE WsNext
      BY <2>2, ListsHeldStep, SaveHeldStep, CleanStep DEF KnownInv
    <2>3. QED
      BY <2>1, <2>2
  <1>3. KnownInv => CleanMeansStored
    BY DEF KnownInv
  <1>4. QED
    BY <1>1, <1>2, <1>3, WorkspaceTyped, PTL DEF WsSpec

-----------------------------------------------------------------------------
(* One run at a time.                                                      *)

\* A run settles, and the drawer is its own or somebody else's.
LEMMA SettleRunShown ==
  ASSUME WsTypeOK, OneRunShown, NEW s \in Sends,
         NEW status \in {"done", "aborted", "error"}, SettleRun(s, status),
         stream' = [stream EXCEPT ![s] = "none"]
  PROVE  OneRunShown'
  <1>1. stream'[s] = "none" /\ \A r \in Sends \ {s} : stream'[r] = stream[r]
    BY DEF WsTypeOK, SendsTyped
  <1>2. current \in Sends \cup {None}
    BY DEF WsTypeOK, SendsTyped
  <1>3. CASE current = s
    <2>1. current' = None /\ shown'.status = status
      BY <1>3 DEF SettleRun, Drawer
    <2>2. QED
      BY <1>1, <1>3, <2>1 DEF OneRunShown
  <1>4. CASE current # s
    BY <1>1, <1>2, <1>4 DEF SettleRun, OneRunShown
  <1>5. QED
    BY <1>3, <1>4

LEMMA RunStep ==
  ASSUME WsTypeOK, OneRunShown, WsNext
  PROVE  OneRunShown'
  <1>1. CASE UNCHANGED <<stream, current, shown>>
    BY <1>1 DEF OneRunShown
  <1>2. ASSUME NEW s \in Sends, StartRun(s)
        PROVE  OneRunShown'
    <2>1. /\ current' = s /\ shown' = Drawer(s, "running")
          /\ stream' = [r \in Sends |-> IF r = s THEN "open"
                                        ELSE IF r = current THEN "aborted"
                                        ELSE stream[r]]
      BY <1>2 DEF StartRun
    <2>2. /\ stream'[s] = "open"
          /\ \A r \in Sends \ {s} : stream'[r] = "open" =>
               r # current /\ stream[r] = "open"
      BY <2>1
    <2>3. \A r \in Sends : stream'[r] = "open" => r = s
      BY <2>2 DEF OneRunShown
    <2>4. s # None
      BY WorkspaceAssumption
    <2>5. QED
      BY <2>1, <2>2, <2>3, <2>4 DEF OneRunShown
  <1>3. CASE AbortRun
    <2>1. /\ current \in Sends /\ UNCHANGED <<current, shown>>
          /\ stream' = [stream EXCEPT ![current] = "aborted"]
      BY <1>3 DEF AbortRun, runVars, WsTypeOK, SendsTyped
    <2>2. /\ stream'[current] = "aborted"
          /\ \A r \in Sends \ {current} : stream'[r] = stream[r]
      BY <2>1 DEF WsTypeOK, SendsTyped
    <2>3. QED
      BY <2>1, <2>2 DEF OneRunShown
  <1>4. ASSUME NEW s \in Sends, NEW status \in {"done", "aborted", "error"},
               RunEnds(s, status) \/ (status = "aborted" /\ RunCancelled(s))
        PROVE  OneRunShown'
    <2>1. SettleRun(s, status) /\ stream' = [stream EXCEPT ![s] = "none"]
      BY <1>4 DEF RunEnds, RunCancelled
    <2>2. QED
      BY <2>1, SettleRunShown
  <1>5. CASE UserStep
    BY <1>1, <1>3, <1>5 DEF UserStep, OpenTab, Activate, CloseTab, Edit, Save,
       EditTree, Send, RunTree, sendVars, runVars
  <1>6. CASE SaveStep
    BY <1>1, <1>6 DEF SaveStep, BeginSave, Accept, Accepted, Refuse, Write,
       WriteFails, Respond, SettleSave, Drop, sendVars, runVars
  <1>7. CASE FetchStep
    BY <1>1, <1>7 DEF FetchStep, FetchList, FetchToken, FetchArrives, sendVars,
       runVars
  <1>8. ASSUME NEW s \in Sends, Capture(s) \/ \E i \in Items : Import(s, i)
        PROVE  OneRunShown'
    BY <1>1, <1>8, StoringTyped DEF StoresList, runVars
  <1>9. ASSUME NEW s \in Sends, Moves(s)
        PROVE  OneRunShown'
    BY <1>1, <1>2, <1>4, <1>8, <1>9 DEF Moves, Advance, Post, Load, LoadFails,
       Loaded, Answer, WriteBack, SendEnds, RunAbandoned, runVars
  <1>10. CASE RemoveOutside \/ \E i \in Items : EditOutside(i)
    BY <1>1, <1>10 DEF EditOutside, RemoveOutside, sendVars, runVars
  <1>11. QED
    BY <1>5, <1>6, <1>7, <1>8, <1>9, <1>10 DEF WsNext, Moves

\* Whatever is started, stopped, answered late or abandoned, a stream that is
\* not aborted belongs to the run in the drawer, and a drawer that says
\* "running" has a run that will end it.
THEOREM OneRunIsShown == WsSpec => []OneRunShown
  <1>1. WsInit => OneRunShown
    BY DEF WsInit, OneRunShown, Drawer
  <1>2. WsTypeOK /\ OneRunShown /\ [WsNext]_wsVars => OneRunShown'
    <2>1. CASE UNCHANGED wsVars
      BY <2>1 DEF wsVars, OneRunShown
    <2>2. QED
      BY <2>1, RunStep
  <1>3. QED
    BY <1>1, <1>2, WorkspaceTyped, PTL DEF WsSpec

-----------------------------------------------------------------------------
(* A tab that says it is sending is going to be told otherwise.  A send    *)
(* that waits for its save is the save's alone: one update carries it, and *)
(* nothing but the end of that save moves it.                              *)

Working == {"posted", "loading", "calling", "storing", "answered"}

\* A send by itself: one that waits has no stream, one that is free or whose
\* page has left has no tab.
SendState ==
  \A s \in Sends :
    /\ phase[s] = "saving" => stream[s] = "none"
    /\ Free(s) => origin[s] = None
    /\ isRun[s] /\ phase[s] \in Working /\ stream[s] = "none" => origin[s] = None

Waits(u) ==
  u.send # None =>
    u.tab # None /\ phase[u.send] = "saving" /\ origin[u.send] = u.tab
QueueWaits ==
  /\ \A n \in DOMAIN queue : Waits(queue[n])
  /\ \A m, n \in DOMAIN queue :
       queue[m].send # None /\ queue[m].send = queue[n].send => m = n
FlightWaits ==
  flight.at # "idle" =>
    /\ Waits(flight.update)
    /\ flight.update.send # None =>
         \A n \in DOMAIN queue : queue[n].send # flight.update.send

SendInv == SendState /\ QueueWaits /\ FlightWaits /\ SendingExplained

\* A step that leaves the saves and the waiting sends alone.
SavingAlone ==
  /\ UNCHANGED <<queue, flight>>
  /\ \A s \in Sends : phase[s] = "saving" =>
                        phase'[s] = "saving" /\ origin'[s] = origin[s]

LEMMA WaitingAlone ==
  ASSUME WsTypeOK, QueueWaits, FlightWaits, SavingAlone
  PROVE  QueueWaits' /\ FlightWaits'
  <1>1. \A n \in DOMAIN queue : queue[n] \in UpdateType
    BY DEF WsTypeOK, SavesTyped
  <1>2. flight.update \in UpdateType
    BY DEF WsTypeOK, SavesTyped, FlightType
  <1>3. \A u \in UpdateType : Waits(u) => Waits(u)'
    BY DEF Waits, SavingAlone, UpdateType
  <1>4. QED
    BY <1>1, <1>2, <1>3 DEF QueueWaits, FlightWaits, SavingAlone

\* What each step of a send does to the send's own state.
LEMMA AdvanceFields ==
  ASSUME WsTypeOK, OneRunShown, SendState, NEW s \in Sends, Moves(s)
  PROVE  SavingAlone /\ SendState'
  <1>1. UNCHANGED <<queue, flight, isRun>>
    BY DEF Moves, Advance, Post, StartRun, Load, LoadFails, Loaded, Answer, WriteBack, SendEnds,
       RunCancelled, RunAbandoned, RunEnds, Capture, Storing, saveVars
  <1>2. \A r \in Sends \ {s} : phase'[r] = phase[r] /\ origin'[r] = origin[r]
    BY DEF Moves, Advance, Post, StartRun, Load, LoadFails, Loaded, Answer, WriteBack, SendEnds,
       RunCancelled, RunAbandoned, RunEnds, Capture, Storing, WsTypeOK, SendsTyped
  <1>3. \A r \in Sends \ {s} :
          \/ stream'[r] = stream[r]
          \/ stream'[r] = "aborted" /\ stream[r] # "none"
    <2>1. CASE StartRun(s)
      <3>1. \A r \in Sends \ {s} :
              stream'[r] = IF r = current THEN "aborted" ELSE stream[r]
        BY <2>1 DEF StartRun
      <3>2. \A r \in Sends : r = current => stream[r] # "none"
        BY WorkspaceAssumption DEF OneRunShown
      <3>3. QED
        BY <3>1, <3>2
    <2>2. CASE ~StartRun(s)
      BY <2>2 DEF Moves, Advance, Post, Load, LoadFails, Loaded, Answer, WriteBack, SendEnds,
         RunCancelled, RunAbandoned, RunEnds, Capture, Storing, WsTypeOK, SendsTyped
    <2>3. QED
      BY <2>1, <2>2
  <1>4. phase[s] = "saving" => phase'[s] = "saving" /\ origin'[s] = origin[s]
    BY DEF Moves, Advance, Post, StartRun, Load, LoadFails, Loaded, Answer, WriteBack, SendEnds,
       RunCancelled, RunAbandoned, RunEnds, Capture, Storing, WsTypeOK, SendsTyped,
       SendState
  <1>5. phase'[s] = "saving" => stream'[s] = "none"
    BY DEF Moves, Advance, Post, StartRun, Load, LoadFails, Loaded, Answer, WriteBack, SendEnds,
       RunCancelled, RunAbandoned, RunEnds, Capture, Storing, WsTypeOK, SendsTyped,
       SendState
  <1>6. /\ Free(s)' => origin'[s] = None
        /\ isRun[s] /\ phase'[s] \in Working /\ stream'[s] = "none"
             => origin'[s] = None
    <2> USE DEF WsTypeOK, SendsTyped, SendState, Free, Working
    <2>1. CASE Post(s) \/ StartRun(s)
      BY <2>1 DEF Post, StartRun
    <2>2. CASE \/ Load(s) \/ Loaded(s) \/ LoadFails(s) \/ Answer(s)
               \/ WriteBack(s) \/ Capture(s)
      BY <2>2 DEF Load, Loaded, LoadFails, Answer, WriteBack, Capture, Storing
    <2>3. CASE SendEnds(s) \/ RunCancelled(s)
                \/ \E status \in {"done", "aborted", "error"} : RunEnds(s, status)
      BY <2>3 DEF SendEnds, RunCancelled, RunEnds
    <2>4. CASE RunAbandoned(s)
      BY <2>4 DEF RunAbandoned
    <2>5. QED
      BY <2>1, <2>2, <2>3, <2>4 DEF Moves, Advance
  <1>7. QED
    BY <1>1, <1>2, <1>3, <1>4, <1>5, <1>6 DEF SavingAlone, SendState, Free

\* The end of a save moves the send that waited for it, and no other: on, or
\* back to where it was before anybody pressed Send.
SaveEnds(s) ==
  /\ flight'.at = "idle" /\ UNCHANGED <<queue, isRun, stream>>
  /\ \A r \in Sends \ {s} : phase'[r] = phase[r] /\ origin'[r] = origin[r]
  /\ s # None =>
       \/ phase'[s] = "ready" /\ origin'[s] = origin[s]
       \/ phase'[s] = "idle" /\ origin'[s] = None

LEMMA DropEnds ==
  ASSUME WsTypeOK, Drop(flight.update)
  PROVE  SaveEnds(flight.update.send)
  <1> DEFINE s == flight.update.send
  <1>1. s \in Sends \cup {None}
    BY DEF WsTypeOK, SavesTyped, FlightType, UpdateType
  <1>2. flight'.at = "idle" /\ UNCHANGED <<queue, isRun, stream>>
    BY NothingTyped DEF Drop
  <1>3. /\ phase' = IF s = None THEN phase ELSE [phase EXCEPT ![s] = "idle"]
        /\ origin' = IF s = None THEN origin ELSE [origin EXCEPT ![s] = None]
    BY DEF Drop
  <1> HIDE DEF s
  <1>4. QED
    BY <1>1, <1>2, <1>3 DEF SaveEnds, WsTypeOK, SendsTyped, s

LEMMA SettleEnds ==
  ASSUME WsTypeOK, SettleSave
  PROVE  SaveEnds(flight.update.send)
  <1> DEFINE s == flight.update.send
             goes(p) == s # None /\ (isRun[s] => Open(flight.update.tab) /\ p)
  <1>1. s \in Sends \cup {None}
    BY DEF WsTypeOK, SavesTyped, FlightType, UpdateType
  <1>2. flight'.at = "idle" /\ UNCHANGED <<queue, isRun, stream>>
    BY NothingTyped DEF SettleSave
  <1>3. PICK prepared \in BOOLEAN :
          /\ phase' = IF s = None THEN phase
                      ELSE [phase EXCEPT ![s] = IF goes(prepared) THEN "ready"
                                                ELSE "idle"]
          /\ origin' = IF s = None \/ goes(prepared) THEN origin
                       ELSE [origin EXCEPT ![s] = None]
    BY DEF SettleSave
  <1> DEFINE onward == goes(prepared)
  <1> HIDE DEF goes
  <1>4. CASE onward
    BY <1>1, <1>2, <1>3, <1>4 DEF SaveEnds, WsTypeOK, SendsTyped
  <1>5. CASE ~onward
    BY <1>1, <1>2, <1>3, <1>5 DEF SaveEnds, WsTypeOK, SendsTyped
  <1>6. QED
    BY <1>4, <1>5

LEMMA SaveEndsWaits ==
  ASSUME WsTypeOK, SendInv, flight.at # "idle", SaveEnds(flight.update.send)
  PROVE  SendState' /\ QueueWaits' /\ FlightWaits'
  <1> DEFINE s == flight.update.send
  <1>1. s \in Sends \cup {None}
    BY DEF WsTypeOK, SavesTyped, FlightType, UpdateType
  <1>2. SaveEnds(s) /\ queue' = queue
    BY DEF SaveEnds
  <1>3. s # None => \A n \in DOMAIN queue : queue[n].send # s
    BY DEF SendInv, FlightWaits
  <1>4. \A n \in DOMAIN queue : queue[n].send \in Sends \cup {None}
    <2>1. \A n \in DOMAIN queue : queue[n] \in UpdateType
      BY DEF WsTypeOK, SavesTyped
    <2>2. QED
      BY <2>1 DEF UpdateType
  <1>5. s # None => phase[s] = "saving" /\ stream[s] = "none"
    BY <1>1 DEF SendInv, FlightWaits, Waits, SendState
  <1> HIDE DEF s
  <1>6. SendState'
    <2>1. isRun' = isRun /\ stream' = stream
      BY <1>2 DEF SaveEnds
    <2>2. ASSUME NEW r \in Sends, r # s
          PROVE  phase'[r] = phase[r] /\ origin'[r] = origin[r]
      BY <1>2, <2>2 DEF SaveEnds
    <2>3. ASSUME NEW r \in Sends, r = s
          PROVE  \/ phase'[r] = "ready"
                 \/ phase'[r] = "idle" /\ origin'[r] = None
      BY <1>2, <2>3, WorkspaceAssumption DEF SaveEnds
    <2>4. QED
      BY <2>1, <2>2, <2>3 DEF SendInv, SendState, Free, Working
  <1>7. \A n \in DOMAIN queue : Waits(queue[n])'
    BY <1>1, <1>2, <1>3, <1>4 DEF SendInv, QueueWaits, Waits, SaveEnds
  <1>8. QED
    BY <1>2, <1>6, <1>7 DEF SendInv, QueueWaits, FlightWaits, SaveEnds

\* The send that pressing Send starts is free, so nothing in the queue is its.
LEMMA SendWaits ==
  ASSUME WsTypeOK, SendInv, NEW s \in Sends, NEW run \in BOOLEAN, Send(s, run)
  PROVE  SendState' /\ QueueWaits' /\ FlightWaits'
  <1> DEFINE u == DraftOf(active, s)
  <1>1. active \in Tabs /\ Open(active) /\ s # None
    BY WorkspaceAssumption DEF Send, WsTypeOK, TabsTyped
  <1>2. u \in UpdateType /\ u.tab = active /\ u.send = s
    BY <1>1, DraftTyped
  <1>3. Enqueue(u) /\ Free(s) /\ flight' = flight /\ stream' = stream
    BY DEF Send
  <1>4. /\ phase'[s] = "saving" /\ origin'[s] = active
        /\ \A r \in Sends \ {s} : phase'[r] = phase[r] /\ origin'[r] = origin[r]
    BY DEF Send, WsTypeOK, SendsTyped
  <1>5. \A r \in Sends \ {s} : isRun'[r] = isRun[r]
    BY Zenon DEF Send, WsTypeOK, SendsTyped
  <1>6. SendState'
    BY <1>3, <1>4, <1>5 DEF SendInv, SendState, Free, Working
  <1> HIDE DEF u
  <1>7. /\ DOMAIN queue' = 1..(Len(queue) + 1) /\ DOMAIN queue = 1..Len(queue)
        /\ Len(queue) \in Nat
        /\ queue'[Len(queue) + 1] = u
        /\ \A n \in DOMAIN queue : queue'[n] = queue[n]
    BY <1>2, <1>3, Enqueued DEF WsTypeOK, SavesTyped
  <1>8. \A v \in UpdateType : Waits(v) => v.send # s /\ Waits(v)'
    <2>1. s # None /\ phase[s] # "saving"
      BY <1>3, WorkspaceAssumption DEF Free
    <2>2. ASSUME NEW v \in UpdateType, Waits(v)
          PROVE  v.send # s /\ Waits(v)'
      <3>1. v.send # s
        BY <2>1, <2>2 DEF Waits
      <3>2. v.send \in Sends \cup {None}
        BY <2>2 DEF UpdateType
      <3>3. QED
        BY <1>4, <2>2, <3>1, <3>2 DEF Waits
    <2>3. QED
      BY <2>2
  <1>9. /\ \A n \in DOMAIN queue : queue[n] \in UpdateType
        /\ flight.update \in UpdateType
    BY DEF WsTypeOK, SavesTyped, FlightType
  <1>10. active # None
    BY <1>1, WorkspaceAssumption
  <1>11. \A n \in DOMAIN queue' : n \in DOMAIN queue \/ n = Len(queue) + 1
    BY <1>7
  <1>12. QueueWaits'
    <2>1. \A n \in DOMAIN queue' : Waits(queue[n])'
      <3>1. ASSUME NEW n \in DOMAIN queue
            PROVE  Waits(queue[n])'
        BY <1>7, <1>8, <1>9, <3>1 DEF SendInv, QueueWaits
      <3>2. ASSUME NEW n \in DOMAIN queue', n = Len(queue) + 1
            PROVE  Waits(queue[n])'
        BY <1>2, <1>4, <1>7, <1>10, <3>2 DEF Waits
      <3>3. QED
        BY <1>11, <3>1, <3>2
    <2>2. \A n \in DOMAIN queue : queue[n].send # s
      BY <1>8, <1>9 DEF SendInv, QueueWaits
    <2>3. ASSUME NEW m \in DOMAIN queue', NEW n \in DOMAIN queue',
                 queue'[m].send # None, queue'[m].send = queue'[n].send
          PROVE  m = n
      BY <1>2, <1>7, <1>11, <2>2, <2>3 DEF SendInv, QueueWaits
    <2>4. QED
      BY <2>1, <2>3 DEF QueueWaits
  <1>13. FlightWaits'
    BY <1>2, <1>3, <1>7, <1>8, <1>9, <1>11 DEF SendInv, FlightWaits
  <1>14. QED
    BY <1>6, <1>12, <1>13

\* A save that no send waits for joins the queue.
LEMMA PlainSaveWaits ==
  ASSUME WsTypeOK, SendInv, NEW u \in UpdateType, u.send = None, Enqueue(u),
         UNCHANGED <<flight, sendVars>>
  PROVE  SendState' /\ QueueWaits' /\ FlightWaits'
  <1>1. SendState'
    BY DEF SendInv, SendState, sendVars, Free
  <1>2. /\ DOMAIN queue' = 1..(Len(queue) + 1) /\ DOMAIN queue = 1..Len(queue)
        /\ Len(queue) \in Nat
        /\ queue'[Len(queue) + 1] = u
        /\ \A n \in DOMAIN queue : queue'[n] = queue[n]
    BY Enqueued DEF WsTypeOK, SavesTyped
  <1>3. \A n \in DOMAIN queue' : n \in DOMAIN queue \/ n = Len(queue) + 1
    BY <1>2
  <1>4. \A v : Waits(v) => Waits(v)'
    BY DEF Waits, sendVars
  <1>5. Waits(u)'
    BY DEF Waits
  <1>6. QueueWaits'
    BY <1>2, <1>3, <1>4, <1>5 DEF SendInv, QueueWaits
  <1>7. FlightWaits'
    BY <1>2, <1>3, <1>4 DEF SendInv, FlightWaits
  <1>8. QED
    BY <1>1, <1>6, <1>7

LEMMA BeginSaveWaits ==
  ASSUME WsTypeOK, SendInv, BeginSave
  PROVE  SendState' /\ QueueWaits' /\ FlightWaits'
  <1> DEFINE h == Head(queue)
             u == Placed(h, cache.list)
  <1>1. SendState'
    BY DEF BeginSave, SendInv, SendState, sendVars, Free
  <1>2. /\ flight'.at = "sent" /\ flight'.update = u /\ queue' = Tail(queue)
        /\ queue # <<>> /\ UNCHANGED sendVars
    BY DEF BeginSave, Put
  <1>3. /\ 1 \in DOMAIN queue /\ h = queue[1] /\ h \in UpdateType
        /\ \A n \in DOMAIN queue' : n + 1 \in DOMAIN queue /\ n + 1 # 1
                                    /\ queue'[n] = queue[n + 1]
        /\ \A n \in DOMAIN queue' : n \in Nat
    BY <1>2, Dequeued DEF WsTypeOK, SavesTyped
  <1>0. u.send = h.send /\ u.tab = h.tab
    BY <1>3, PlacedTyped
  <1> HIDE DEF u, h
  <1>4. \A v : Waits(v) => Waits(v)'
    BY <1>2 DEF Waits, sendVars
  <1>5. QueueWaits'
    <2>1. \A n \in DOMAIN queue' : Waits(queue[n])'
      BY <1>3, <1>4 DEF SendInv, QueueWaits
    <2>2. ASSUME NEW m \in DOMAIN queue', NEW n \in DOMAIN queue',
                 queue'[m].send # None, queue'[m].send = queue'[n].send
          PROVE  m = n
      <3>1. m + 1 = n + 1
        BY <1>3, <2>2 DEF SendInv, QueueWaits
      <3>2. QED
        BY <1>3, <3>1
    <2>3. QED
      BY <2>1, <2>2 DEF QueueWaits
  <1>6. FlightWaits'
    BY <1>0, <1>2, <1>3, <1>4 DEF SendInv, QueueWaits, FlightWaits, Waits
  <1>7. QED
    BY <1>1, <1>5, <1>6

LEMMA WaitsStep ==
  ASSUME WsTypeOK, OneRunShown, SendInv, WsNext
  PROVE  SendState' /\ QueueWaits' /\ FlightWaits'
  <1>1. CASE UNCHANGED <<queue, flight, sendVars>>
    BY <1>1 DEF SendInv, SendState, QueueWaits, FlightWaits, Waits, sendVars,
       Free
  <1>2. CASE SavingAlone /\ SendState'
    BY <1>2, WaitingAlone DEF SendInv
  <1>3. CASE Save
    <2>1. DraftOf(active, None) \in UpdateType /\ DraftOf(active, None).send = None
      BY <1>3, DraftTyped DEF Save, WsTypeOK, TabsTyped
    <2>2. QED
      BY <1>3, <2>1, PlainSaveWaits DEF Save
  <1>4. ASSUME NEW i \in Items, EditTree(i)
        PROVE  SendState' /\ QueueWaits' /\ FlightWaits'
    <2>1. NewText \in Nat
      BY NewTextTyped
    <2>2. /\ Update(i, NewText, None, None) \in UpdateType
          /\ Update(i, NewText, None, None).send = None
      BY <2>1, UpdateTyped
    <2>3. QED
      BY <1>4, <2>2, PlainSaveWaits DEF EditTree
  <1>5. ASSUME NEW s \in Sends, RunTree(s)
        PROVE  SendState' /\ QueueWaits' /\ FlightWaits'
    <2>1. /\ UNCHANGED <<queue, flight, origin, stream>> /\ Free(s)
          /\ phase' = [phase EXCEPT ![s] = "ready"]
          /\ isRun' = [isRun EXCEPT ![s] = TRUE]
      BY <1>5 DEF RunTree, saveVars
    <2>2. phase'[s] = "ready" /\ \A r \in Sends \ {s} : phase'[r] = phase[r]
      BY <2>1 DEF WsTypeOK, SendsTyped
    <2>3. \A r \in Sends \ {s} : isRun'[r] = isRun[r]
      BY <2>1, Zenon DEF WsTypeOK, SendsTyped
    <2>4. SavingAlone
      BY <2>1, <2>2 DEF SavingAlone, Free
    <2>5. SendState'
      BY <2>1, <2>2, <2>3 DEF SendInv, SendState, Free, Working
    <2>6. QED
      BY <1>2, <2>4, <2>5
  <1>6. CASE AbortRun
    <2>1. /\ UNCHANGED <<queue, flight, phase, origin, isRun>>
          /\ stream' = [stream EXCEPT ![current] = "aborted"]
          /\ current \in Sends /\ stream[current] = "open"
      BY <1>6 DEF AbortRun, saveVars, WsTypeOK, SendsTyped
    <2>2. /\ stream'[current] = "aborted"
          /\ \A r \in Sends \ {current} : stream'[r] = stream[r]
      BY <2>1 DEF WsTypeOK, SendsTyped
    <2>3. SavingAlone
      BY <2>1 DEF SavingAlone
    <2>4. SendState'
      BY <2>1, <2>2 DEF SendInv, SendState, Free
    <2>5. QED
      BY <1>2, <2>3, <2>4
  <1>7. CASE UserStep
    <2>1. ASSUME NEW r \in Requests, NEW peek \in BOOLEAN, OpenTab(r, peek)
          PROVE  SendState' /\ QueueWaits' /\ FlightWaits'
      BY <1>1, <2>1 DEF OpenTab, saveVars
    <2>2. ASSUME NEW t \in Tabs, Activate(t) \/ CloseTab(t)
          PROVE  SendState' /\ QueueWaits' /\ FlightWaits'
      BY <1>1, <2>2 DEF Activate, CloseTab, saveVars
    <2>3. CASE Edit
      BY <1>1, <2>3 DEF Edit, saveVars
    <2>4. QED
      BY <1>3, <1>4, <1>5, <1>6, <1>7, <2>1, <2>2, <2>3, SendWaits DEF UserStep
  <1>8. CASE SaveStep
    <2>1. CASE Refuse \/ WriteFails
      BY <2>1, DropEnds, SaveEndsWaits DEF Refuse, WriteFails
    <2>2. CASE SettleSave
      BY <2>2, SettleEnds, SaveEndsWaits DEF SettleSave
    <2>3. CASE Accept \/ Write \/ Respond
      <3>1. /\ flight.at # "idle" /\ flight'.update = flight.update
            /\ UNCHANGED <<queue, sendVars>>
        BY <2>3 DEF Accept, Accepted, Write, Respond, Put, WsTypeOK, SavesTyped,
           FlightType
      <3>2. QED
        BY <3>1 DEF SendInv, SendState, QueueWaits, FlightWaits, Waits, sendVars,
           Free
    <2>4. QED
      BY <1>8, <2>1, <2>2, <2>3, BeginSaveWaits DEF SaveStep
  <1>9. CASE FetchStep
    BY <1>1, <1>9 DEF FetchStep, FetchList, FetchToken, FetchArrives
  <1>10. ASSUME NEW s \in Sends, Moves(s)
         PROVE  SendState' /\ QueueWaits' /\ FlightWaits'
    BY <1>2, <1>10, AdvanceFields DEF SendInv
  <1>11. CASE RemoveOutside \/ \E i \in Items : EditOutside(i)
    BY <1>1, <1>11 DEF EditOutside, RemoveOutside
  <1>12. ASSUME NEW s \in Sends, NEW i \in Items, Import(s, i)
         PROVE  SendState' /\ QueueWaits' /\ FlightWaits'
    <2>1. /\ UNCHANGED <<queue, flight, origin, stream>> /\ Free(s)
          /\ phase' = [phase EXCEPT ![s] = "storing"]
          /\ isRun' = [isRun EXCEPT ![s] = FALSE]
      BY <1>12 DEF Import, Storing, saveVars
    <2>2. phase'[s] = "storing" /\ \A r \in Sends \ {s} : phase'[r] = phase[r]
      BY <2>1 DEF WsTypeOK, SendsTyped
    <2>3. /\ ~isRun'[s]
          /\ \A r \in Sends \ {s} : isRun'[r] = isRun[r]
      BY <2>1, Zenon DEF WsTypeOK, SendsTyped
    <2>4. SavingAlone
      BY <2>1, <2>2 DEF SavingAlone, Free
    <2>5. SendState'
      BY <2>1, <2>2, <2>3 DEF SendInv, SendState, Free, Working
    <2>6. QED
      BY <1>2, <2>4, <2>5
  <1>13. QED
    BY <1>7, <1>8, <1>9, <1>10, <1>11, <1>12 DEF WsNext, Moves

\* A step that marks no tab as sending, and takes a clearing send away from no
\* tab that is still marked.
LEMMA ClearingKept ==
  ASSUME WsTypeOK, SendInv,
         \A t \in Tabs : sending'[t] => sending[t],
         \A s \in Sends, t \in Tabs :
           origin[s] = t /\ Clearing(s) /\ sending'[t] =>
             origin'[s] = t /\ Clearing(s)'
  PROVE  SendingExplained'
  BY DEF SendInv, SendingExplained

LEMMA AdvanceClearing ==
  ASSUME WsTypeOK, OneRunShown, SendInv, NEW s \in Sends, Moves(s)
  PROVE  SendingExplained'
  <1>1. isRun' = isRun
    BY DEF Moves, Advance, Post, StartRun, Load, LoadFails, Loaded, Answer, WriteBack, SendEnds,
       RunCancelled, RunAbandoned, RunEnds, Capture, Storing
  <1>2. \A r \in Sends \ {s} :
          /\ phase'[r] = phase[r] /\ origin'[r] = origin[r]
          /\ stream'[r] = stream[r] \/ stream'[r] = "aborted"
    BY DEF Moves, Advance, Post, StartRun, Load, LoadFails, Loaded, Answer, WriteBack, SendEnds,
       RunCancelled, RunAbandoned, RunEnds, Capture, Storing, WsTypeOK, SendsTyped
  <1>3. \A r \in Sends \ {s} : Clearing(r) => Clearing(r)'
    BY <1>1, <1>2 DEF Clearing
  <1>4. CASE \/ Post(s) \/ StartRun(s) \/ Load(s) \/ Loaded(s) \/ LoadFails(s)
             \/ Answer(s) \/ WriteBack(s) \/ RunAbandoned(s) \/ Capture(s)
    <2>1. UNCHANGED <<sending, origin>>
      BY <1>4 DEF Post, StartRun, Load, Loaded, LoadFails, Answer, WriteBack,
         RunAbandoned, Capture, Storing, tabVars
    <2>2. Clearing(s) => Clearing(s)'
      BY <1>4 DEF Clearing, Post, StartRun, Load, Loaded, LoadFails, Answer,
         WriteBack, RunAbandoned, Capture, Storing, WsTypeOK, SendsTyped
    <2>3. QED
      BY <1>3, <2>1, <2>2, ClearingKept
  <1>5. CASE SendEnds(s) \/ RunCancelled(s)
             \/ \E status \in {"done", "aborted", "error"} : RunEnds(s, status)
    <2>1. sending' = IF origin[s] = None THEN sending
                     ELSE [sending EXCEPT ![origin[s]] = FALSE]
      BY <1>5 DEF SendEnds, RunCancelled, RunEnds, NotSending
    <2>2. origin[s] \in Tabs \cup {None}
      BY DEF WsTypeOK, SendsTyped
    <2>3. /\ \A t \in Tabs : sending'[t] => sending[t]
          /\ origin[s] \in Tabs => ~sending'[origin[s]]
      <3>1. CASE origin[s] = None
        BY <2>1, <3>1, WorkspaceAssumption
      <3>2. CASE origin[s] # None
        BY <2>1, <2>2, <3>2, Zenon DEF WsTypeOK, TabsTyped
      <3>3. QED
        BY <3>1, <3>2
    <2>4. QED
      BY <1>2, <1>3, <2>2, <2>3, ClearingKept
  <1>6. QED
    BY <1>4, <1>5 DEF Moves, Advance

\* The end of a save is the end of no send that a tab waits to hear of, and
\* a send that goes on explains its tab.
LEMMA SaveEndsClearing ==
  ASSUME WsTypeOK, SendInv, flight.at # "idle", SaveEnds(flight.update.send),
         NEW s \in Sends, Clearing(s)
  PROVE  origin'[s] = origin[s] /\ Clearing(s)'
  <1>1. s # flight.update.send
    <2>1. CASE s = flight.update.send
      <3>1. Waits(flight.update) /\ flight.update.send # None
        BY <2>1, WorkspaceAssumption DEF SendInv, FlightWaits
      <3>2. phase[s] = "saving" /\ stream[s] = "none"
        BY <2>1, <3>1 DEF Waits, SendInv, SendState
      <3>3. QED
        BY <3>2 DEF Clearing
    <2>2. QED
      BY <2>1
  <1>2. QED
    BY <1>1 DEF SaveEnds, Clearing

LEMMA SettleClearing ==
  ASSUME WsTypeOK, SendInv, SettleSave
  PROVE  SendingExplained'
  <1> DEFINE u == flight.update
             goes(p) == u.send # None /\ (isRun[u.send] => Open(u.tab) /\ p)
  <1>1. PICK prepared \in BOOLEAN :
        /\ flight.at # "idle"
        /\ sending' = IF goes(prepared) /\ Open(u.tab)
                      THEN [sending EXCEPT ![u.tab] = TRUE] ELSE sending
        /\ phase' = IF u.send = None THEN phase
                    ELSE [phase EXCEPT ![u.send] = IF goes(prepared) THEN "ready"
                                                   ELSE "idle"]
        /\ origin' = IF u.send = None \/ goes(prepared) THEN origin
                     ELSE [origin EXCEPT ![u.send] = None]
    BY DEF SettleSave
  <1> DEFINE onward == goes(prepared)
  <1>2. \A s \in Sends : Clearing(s) => origin'[s] = origin[s] /\ Clearing(s)'
    BY <1>1, SettleEnds, SaveEndsClearing
  <1>3. u.send \in Sends \cup {None} /\ u.tab \in Tabs \cup {None}
    BY DEF WsTypeOK, SavesTyped, FlightType, UpdateType
  <1>4. Waits(u)
    BY <1>1 DEF SendInv, FlightWaits
  <1>a. onward => u.send # None
    OBVIOUS
  <1> HIDE DEF u, goes
  <1>5. CASE onward /\ Open(u.tab)
    <2>1. u.send \in Sends /\ u.tab \in Tabs
      BY <1>3, <1>4, <1>5, <1>a DEF Waits
    <2>2. \A t \in Tabs \ {u.tab} : sending'[t] => sending[t]
      BY <1>1, <1>5, <2>1, Zenon DEF WsTypeOK, TabsTyped
    <2>3. phase'[u.send] = "ready" /\ origin'[u.send] = u.tab
      BY <1>1, <1>4, <1>5, <1>a, <2>1 DEF Waits, WsTypeOK, SendsTyped
    <2>4. ASSUME NEW r \in Sends, r = u.send
          PROVE  origin'[r] = u.tab /\ Clearing(r)'
      BY <2>3, <2>4 DEF Clearing
    <2>5. \A t \in Tabs \ {u.tab} : sending'[t] =>
            \E s \in Sends : origin'[s] = t /\ Clearing(s)'
      BY <1>2, <2>2 DEF SendInv, SendingExplained
    <2>6. QED
      BY <2>1, <2>4, <2>5 DEF SendingExplained
  <1>6. CASE ~(onward /\ Open(u.tab))
    BY <1>1, <1>2, <1>6, ClearingKept
  <1>7. QED
    BY <1>5, <1>6

LEMMA ExplainedStep ==
  ASSUME WsTypeOK, OneRunShown, SendInv, WsNext
  PROVE  SendingExplained'
  <1>1. CASE UNCHANGED <<sending, sendVars>>
    BY <1>1 DEF SendInv, SendingExplained, Clearing, sendVars
  \* A tab that is opened or closed says nothing.
  <1>2. ASSUME NEW t \in Tabs, sending' = [sending EXCEPT ![t] = FALSE],
               UNCHANGED sendVars
        PROVE  SendingExplained'
    <2>1. \A x \in Tabs : sending'[x] => sending[x]
      BY <1>2, Zenon DEF WsTypeOK, TabsTyped
    <2>2. QED
      BY <1>2, <2>1 DEF SendInv, SendingExplained, Clearing, sendVars
  <1>3. ASSUME NEW s \in Sends, Free(s), UNCHANGED <<sending, stream>>,
               \A r \in Sends \ {s} : phase'[r] = phase[r] /\ origin'[r] = origin[r]
                                      /\ isRun'[r] = isRun[r]
        PROVE  SendingExplained'
    <2>1. ~Clearing(s)
      BY <1>3 DEF Free, Clearing
    <2>2. QED
      BY <1>3, <2>1, ClearingKept DEF Clearing
  <1>4. ASSUME NEW r \in Requests, NEW peek \in BOOLEAN, OpenTab(r, peek)
        PROVE  SendingExplained'
    <2>1. UNCHANGED sendVars
      BY <1>4 DEF OpenTab
    <2>2. CASE Revisit(r, peek)
      BY <1>1, <2>1, <2>2 DEF Revisit
    <2>3. CASE \E t \in Tabs, p \in BOOLEAN : Show(t, r, p)
      BY <1>2, <2>1, <2>3 DEF Show
    <2>4. QED
      BY <1>4, <2>2, <2>3 DEF OpenTab
  <1>5. ASSUME NEW t \in Tabs, CloseTab(t)
        PROVE  SendingExplained'
    BY <1>2, <1>5 DEF CloseTab
  <1>6. ASSUME NEW s \in Sends, NEW run \in BOOLEAN, Send(s, run)
        PROVE  SendingExplained'
    <2>1. Free(s) /\ UNCHANGED <<sending, stream>>
      BY <1>6 DEF Send, tabVars
    <2>2. \A r \in Sends \ {s} : phase'[r] = phase[r] /\ origin'[r] = origin[r]
      BY <1>6 DEF Send, WsTypeOK, SendsTyped
    <2>3. \A r \in Sends \ {s} : isRun'[r] = isRun[r]
      BY <1>6, Zenon DEF Send, WsTypeOK, SendsTyped
    <2>4. QED
      BY <1>3, <2>1, <2>2, <2>3
  <1>7. ASSUME NEW s \in Sends, RunTree(s)
        PROVE  SendingExplained'
    <2>1. Free(s) /\ UNCHANGED <<sending, stream>>
      BY <1>7 DEF RunTree, tabVars
    <2>2. \A r \in Sends \ {s} : phase'[r] = phase[r] /\ origin'[r] = origin[r]
      BY <1>7 DEF RunTree, WsTypeOK, SendsTyped
    <2>3. \A r \in Sends \ {s} : isRun'[r] = isRun[r]
      BY <1>7, Zenon DEF RunTree, WsTypeOK, SendsTyped
    <2>4. QED
      BY <1>3, <2>1, <2>2, <2>3
  <1>8. CASE AbortRun
    <2>1. /\ UNCHANGED <<sending, phase, origin, isRun>>
          /\ stream' = [stream EXCEPT ![current] = "aborted"]
      BY <1>8 DEF AbortRun, tabVars
    <2>2. \A r \in Sends : stream'[r] = stream[r] \/ stream'[r] = "aborted"
      BY <2>1 DEF WsTypeOK, SendsTyped
    <2>3. QED
      BY <2>1, <2>2, ClearingKept DEF Clearing
  <1>9. CASE UserStep
    <2>1. ASSUME NEW t \in Tabs, Activate(t)
          PROVE  SendingExplained'
      BY <1>1, <2>1 DEF Activate
    <2>2. CASE Edit \/ Save
      BY <1>1, <2>2 DEF Edit, Save, tabVars
    <2>3. ASSUME NEW i \in Items, EditTree(i)
          PROVE  SendingExplained'
      BY <1>1, <2>3 DEF EditTree, tabVars
    <2>4. QED
      BY <1>4, <1>5, <1>6, <1>7, <1>8, <1>9, <2>1, <2>2, <2>3 DEF UserStep
  <1>10. CASE SaveStep
    <2>1. CASE Refuse \/ WriteFails
      <3>1. /\ flight.at # "idle" /\ Drop(flight.update) /\ UNCHANGED sending
        BY <2>1 DEF Refuse, WriteFails, tabVars
      <3>2. \A s \in Sends : Clearing(s) => origin'[s] = origin[s] /\ Clearing(s)'
        BY <3>1, DropEnds, SaveEndsClearing
      <3>3. QED
        BY <3>1, <3>2, ClearingKept
    <2>2. CASE BeginSave \/ Accept \/ Write \/ Respond
      BY <1>1, <2>2 DEF BeginSave, Accept, Accepted, Write, Respond, tabVars
    <2>3. QED
      BY <1>10, <2>1, <2>2, SettleClearing DEF SaveStep
  <1>11. CASE FetchStep
    BY <1>1, <1>11 DEF FetchStep, FetchList, FetchToken, FetchArrives, tabVars
  <1>12. CASE RemoveOutside \/ \E i \in Items : EditOutside(i)
    BY <1>1, <1>12 DEF EditOutside, RemoveOutside, tabVars
  <1>13. ASSUME NEW s \in Sends, NEW i \in Items, Import(s, i)
         PROVE  SendingExplained'
    <2>1. Free(s) /\ UNCHANGED <<sending, stream, origin>>
      BY <1>13 DEF Import, tabVars
    <2>2. \A r \in Sends \ {s} : phase'[r] = phase[r]
      BY <1>13 DEF Import, Storing, WsTypeOK, SendsTyped
    <2>3. \A r \in Sends \ {s} : isRun'[r] = isRun[r]
      BY <1>13, Zenon DEF Import, WsTypeOK, SendsTyped
    <2>4. QED
      BY <1>3, <2>1, <2>2, <2>3
  <1>14. QED
    BY <1>9, <1>10, <1>11, <1>12, <1>13, AdvanceClearing DEF WsNext, Moves

\* A tab that says it is sending has a send or a run of its own that will take
\* that back, whichever tab is on screen, whatever was closed, reused, aborted or
\* superseded meanwhile.
THEOREM SendingIsExplained == WsSpec => []SendingExplained
  <1>1. WsInit => SendInv
    <2> SUFFICES ASSUME WsInit PROVE SendInv
      OBVIOUS
    <2>1. queue = <<>> /\ flight.at = "idle"
      BY NothingTyped DEF WsInit
    <2>2. \A s \in Sends : phase[s] = "idle" /\ stream[s] = "none"
                           /\ origin[s] = None
      BY DEF WsInit
    <2>3. \A t \in Tabs : ~sending[t]
      BY Zenon DEF WsInit
    <2>4. SendState /\ SendingExplained
      BY <2>2, <2>3 DEF SendState, SendingExplained, Free, Working
    <2>5. QED
      BY <2>1, <2>4 DEF SendInv, QueueWaits, FlightWaits
  <1>2. WsTypeOK /\ OneRunShown /\ SendInv /\ [WsNext]_wsVars => SendInv'
    <2>1. CASE UNCHANGED wsVars
      BY <2>1 DEF wsVars, SendInv, SendState, QueueWaits, FlightWaits, Waits,
         SendingExplained, Clearing, Free
    <2>2. CASE WsNext
      BY <2>2, WaitsStep, ExplainedStep DEF SendInv
    <2>3. QED
      BY <2>1, <2>2
  <1>3. SendInv => SendingExplained
    BY DEF SendInv
  <1>4. QED
    BY <1>1, <1>2, <1>3, WorkspaceTyped, OneRunIsShown, PTL DEF WsSpec
=============================================================================
