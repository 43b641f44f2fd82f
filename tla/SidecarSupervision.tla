------------------------- MODULE SidecarSupervision -------------------------
(***************************************************************************)
(* The shell's supervision of the sidecar process (sidecar.rs, production  *)
(* build): the boot thread, the crash watchers and the recovery they turn  *)
(* into, the restart command, and the kill when the app exits. All of them *)
(* share one slot for the child, its port and the flag of the shutdown.    *)
(*                                                                         *)
(* A process stands for its Child handle, its pid and its port. A thread   *)
(* is the boot thread, a restart command, or the watcher of a process.     *)
(***************************************************************************)
EXTENDS Naturals

CONSTANTS
    Procs,       \* bound on the sidecar processes ever started
    NoProc,
    Boot,        \* the thread of manage
    Commands,    \* restart commands under way at a time
    MaxAttempts  \* 3 in respawn_with_retries
                 \* (the restarts are bounded by the processes left)

ASSUME SidecarAssumption ==
    /\ NoProc \notin Procs /\ Boot \notin Procs \cup Commands
    /\ Procs \cap Commands = {}
    /\ MaxAttempts \in Nat \ {0}

Threads == {Boot} \cup Commands \cup Procs

VARIABLES
    child,     \* SidecarState.child
    port,      \* SidecarState.port: the process that reported it
    settled,   \* SidecarState.boot
    exiting,   \* SidecarState.shutting_down
    proc,      \* the processes
    thread,    \* the threads: what each does next, with which process
    gone,      \* the app's own process has ended
    replaced   \* history: live children overwritten in the slot

vars == <<child, port, settled, exiting, proc, thread, gone, replaced>>

-----------------------------------------------------------------------------
(* Helpers.                                                                *)

Unborn == {p \in Procs : proc[p] = "unborn"}
Alive(p) == proc[p] \in {"starting", "up"}
At(t, pc) == ~gone /\ thread[t].pc = pc
Doing(pc, p, n) == [pc |-> pc, proc |-> p, attempt |-> n]
Idle == Doing("idle", NoProc, 0)
Goes(t, pc) == thread' = [thread EXCEPT ![t].pc = pc]

\* The attempts of respawn_with_retries number the threads that recover: a
\* watcher that saw a crash, and the boot thread once its own spawn failed.
Recovering(t) == thread[t].attempt > 0

Init ==
    /\ child = NoProc /\ port = NoProc
    /\ settled = FALSE /\ exiting = FALSE /\ gone = FALSE
    /\ proc = [p \in Procs |-> "unborn"]
    /\ thread = [t \in Threads |-> IF t = Boot THEN Doing("spawn", NoProc, 0) ELSE Idle]
    /\ replaced = {}

-----------------------------------------------------------------------------
(* spawn_sidecar, in any thread.                                           *)

\* The thread starts a process and waits for the line with its port.
SpawnStarts(t, p) ==
    /\ At(t, "spawn") /\ p \in Unborn
    /\ proc' = [proc EXCEPT ![p] = "starting"]
    /\ thread' = [thread EXCEPT ![t].pc = "wait", ![t].proc = p]
    /\ UNCHANGED <<child, port, settled, exiting, gone, replaced>>

\* The port is reported. Boot and restart start a watcher before they store
\* the child, a recovery after it.
SpawnReady(t) ==
    /\ At(t, "wait") /\ proc[thread[t].proc] = "starting"
    /\ proc' = [proc EXCEPT ![thread[t].proc] = "up"]
    /\ Goes(t, IF Recovering(t) THEN "store" ELSE "supervise")
    /\ UNCHANGED <<child, port, settled, exiting, gone, replaced>>

\* After an error the boot thread settles the gate and recovers, a recovery
\* tries again until its attempts are used up, a command returns the error.
AfterError(t) ==
    CASE t \in Commands -> Idle
      [] t = Boot /\ ~Recovering(t) -> Doing("failed", NoProc, 0)
      [] Recovering(t) /\ thread[t].attempt < MaxAttempts ->
            Doing("spawn", NoProc, thread[t].attempt + 1)
      [] OTHER -> Doing("gaveUp", NoProc, thread[t].attempt)

\* There is no binary, or it does not start.
SpawnRefused(t) ==
    /\ At(t, "spawn")
    /\ thread' = [thread EXCEPT ![t] = AfterError(t)]
    /\ UNCHANGED <<child, port, settled, exiting, proc, gone, replaced>>

\* READY_TIMEOUT passes, or the process dies before it reports: it is killed.
SpawnTimesOut(t) ==
    /\ At(t, "wait") /\ proc[thread[t].proc] # "up"
    /\ proc' = [proc EXCEPT ![thread[t].proc] = "dead"]
    /\ thread' = [thread EXCEPT ![t] = AfterError(t)]
    /\ UNCHANGED <<child, port, settled, exiting, gone, replaced>>

-----------------------------------------------------------------------------
(* What a thread does with a process that reported.                        *)

\* Mutant: a manual restart leaves its process unsupervised.
SuperviseNotRestarted(t) ==
    /\ At(t, "supervise")
    /\ thread' = [thread EXCEPT
            ![thread[t].proc] = IF t \in Commands THEN @
                                ELSE Doing("watch", thread[t].proc, 0),
            ![t].pc = IF Recovering(t) THEN "done" ELSE "store"]
    /\ UNCHANGED <<child, port, settled, exiting, proc, gone, replaced>>

\* start_supervision, watch_for_crash: a watcher thread for this process.
Supervise(t) ==
    /\ At(t, "supervise")
    /\ thread' = [thread EXCEPT
            ![thread[t].proc] = Doing("watch", thread[t].proc, 0),
            ![t].pc = IF Recovering(t) THEN "done" ELSE "store"]
    /\ UNCHANGED <<child, port, settled, exiting, proc, gone, replaced>>

\* Boot goes on to settle the gate, a recovery to supervise, a command returns.
AfterStore(t, stored) ==
    CASE t \in Commands -> Idle
      [] t = Boot /\ ~Recovering(t) -> [thread[t] EXCEPT !.pc = "settle"]
      [] Recovering(t) /\ stored -> [thread[t] EXCEPT !.pc = "supervise"]
      [] OTHER -> [thread[t] EXCEPT !.pc = "done"]

\* Mutant: the flag is not looked at.
StoreAlways(t) ==
    LET p == thread[t].proc IN
    /\ At(t, "store")
    /\ child' = p /\ port' = p
    /\ replaced' = replaced \cup {q \in Procs : q = child /\ Alive(q)}
    /\ thread' = [thread EXCEPT ![t] = AfterStore(t, TRUE)]
    /\ UNCHANGED <<settled, exiting, proc, gone>>

\* Mutant: the port is the concern of whoever waits for the boot.
StoreChildOnly(t) ==
    LET p == thread[t].proc IN
    /\ At(t, "store") /\ ~exiting
    /\ child' = p /\ port' = (IF port = NoProc THEN p ELSE port)
    /\ replaced' = replaced \cup {q \in Procs : q = child /\ Alive(q)}
    /\ thread' = [thread EXCEPT ![t] = AfterStore(t, TRUE)]
    /\ UNCHANGED <<settled, exiting, proc, gone>>

\* store_spawned, under the lock of the child: once the app exits the child is
\* killed, before that it takes the slot from whoever was in it.
Store(t) ==
    LET p == thread[t].proc IN
    /\ At(t, "store")
    /\ IF exiting
       THEN /\ proc' = [proc EXCEPT ![p] = "dead"]
            /\ UNCHANGED <<child, port, replaced>>
       ELSE /\ child' = p /\ port' = p
            /\ replaced' = replaced \cup {q \in Procs : q = child /\ Alive(q)}
            /\ UNCHANGED proc
    /\ thread' = [thread EXCEPT ![t] = AfterStore(t, ~exiting)]
    /\ UNCHANGED <<settled, exiting, gone>>

\* manage: the gate opens after the port was stored, or after the failure,
\* from which the boot thread goes on to recover.
Settle(t) ==
    /\ At(t, "settle") \/ At(t, "failed")
    /\ settled' = TRUE
    /\ thread' = [thread EXCEPT ![t] =
            IF @.pc = "settle" THEN [@ EXCEPT !.pc = "done"]
                               ELSE Doing("spawn", NoProc, 1)]
    /\ UNCHANGED <<child, port, exiting, proc, gone, replaced>>

\* watch_for_crash, under the lock: the watcher ends when the slot is empty or
\* another's, and recovers when its process is dead. (A running one is polled
\* again.) The first poll is 500 ms after the watcher was started, by when its
\* process was stored or refused.
Poll(p) ==
    /\ At(p, "watch")
    /\ \A t \in Threads : ~(thread[t].pc = "store" /\ thread[t].proc = p)
    /\ \/ /\ child # p
          /\ Goes(p, "done")
          /\ UNCHANGED child
       \/ /\ child = p /\ proc[p] = "dead"
          /\ child' = NoProc
          /\ thread' = [thread EXCEPT ![p] = Doing("spawn", NoProc, 1)]
    /\ UNCHANGED <<port, settled, exiting, proc, gone, replaced>>

-----------------------------------------------------------------------------
(* The user and the system.                                                *)

KilledChild == [p \in Procs |-> IF p = child THEN "dead" ELSE proc[p]]

\* restart_sidecar: the child is taken out and killed under the lock, and the
\* rest of the command is a spawn of its own. (Commands come as long as there
\* are processes left to start.)
Restart(c) ==
    /\ At(c, "idle") /\ Unborn # {}
    /\ proc' = KilledChild /\ child' = NoProc
    /\ Goes(c, "spawn")
    /\ UNCHANGED <<port, settled, exiting, gone, replaced>>

\* kill_sidecar, on RunEvent::Exit.
Exit ==
    /\ ~exiting
    /\ exiting' = TRUE
    /\ proc' = KilledChild /\ child' = NoProc
    /\ UNCHANGED <<port, settled, thread, gone, replaced>>

\* The app's process ends and takes its threads with it.
AppEnds ==
    /\ exiting /\ ~gone
    /\ gone' = TRUE
    /\ UNCHANGED <<child, port, settled, exiting, proc, thread, replaced>>

\* The sidecar crashes.
Crash(p) ==
    /\ Alive(p)
    /\ proc' = [proc EXCEPT ![p] = "dead"]
    /\ UNCHANGED <<child, port, settled, exiting, thread, gone, replaced>>

Step(t) ==
    \/ \E p \in Procs : SpawnStarts(t, p)
    \/ SpawnReady(t) \/ SpawnRefused(t) \/ SpawnTimesOut(t)
    \/ Supervise(t) \/ Store(t) \/ Settle(t)

Next ==
    \/ \E t \in Threads : Step(t)
    \/ \E p \in Procs : Poll(p) \/ Crash(p)
    \/ \E c \in Commands : Restart(c)
    \/ Exit \/ AppEnds

Spec == Init /\ [][Next]_vars

\* Threads run, and a process reports its port or times out.
FairSpec ==
    /\ Spec
    /\ \A t \in Threads : WF_vars(Step(t))
    /\ \A p \in Procs : WF_vars(Poll(p))

-----------------------------------------------------------------------------
(* Properties.                                                             *)

ThreadType == [pc : {"idle", "spawn", "wait", "supervise", "store", "settle",
                     "failed", "watch", "done", "gaveUp"},
               proc : Procs \cup {NoProc}, attempt : 0..MaxAttempts]

\* Every variable keeps its type.
TypeOK ==
    /\ child \in Procs \cup {NoProc} /\ port \in Procs \cup {NoProc}
    /\ settled \in BOOLEAN /\ exiting \in BOOLEAN /\ gone \in BOOLEAN
    /\ proc \in [Procs -> {"unborn", "starting", "up", "dead"}]
    /\ thread \in [Threads -> ThreadType]
    /\ replaced \subseteq Procs

InHand(t, p) == thread[t].proc = p /\ thread[t].pc \in {"wait", "supervise", "store"}
InFlight(p) == \E t \in Threads : InHand(t, p)

\* A recovery supervises its process after it stored it, the others before.
Stored(t) == Recovering(t) /\ thread[t].pc = "supervise"

\* A thread that runs has the process in hand and is still to store it: with the
\* flag up, what it does instead is kill the process.
WillKill(t, p) == ~gone /\ InHand(t, p) /\ ~Stored(t)

\* The app's process ended while a spawn had this one in hand.
CutShort(p) == gone /\ \E t \in Threads : InHand(t, p) /\ ~Stored(t)

\* "A spawn finishing concurrently with app exit can never slip its child into
\* the slot after the exit-time kill" (kill_sidecar): once the app exits the slot
\* is empty, and a sidecar that still runs has a running thread that will kill
\* it, or is one of two kinds of orphan: an overlapping spawn had replaced it in
\* the slot, or the app's process ended before the spawn got to its store.
OrphansExplained ==
    exiting =>
        /\ child = NoProc
        /\ \A p \in Procs : Alive(p) =>
             \/ \E t \in Threads : WillKill(t, p)
             \/ p \in replaced \/ CutShort(p)

\* get_sidecar_port tells the port of the child in the slot, through crashes,
\* recoveries and restarts; and once the boot has settled it has one to tell
\* unless the boot failed or the app exits.
PortIsReal ==
    /\ child # NoProc => port = child
    /\ settled => port # NoProc \/ Recovering(Boot) \/ exiting

\* The child in the slot has a watcher, or its recovery is about to start one.
SlotIsWatched ==
    \A p \in Procs : child = p =>
        \/ thread[p].pc = "watch"
        \/ \E t \in Threads : thread[t].pc = "supervise" /\ thread[t].proc = p

\* The slot holds a sidecar that crashed, or a recovery is under way.
Unsettled ==
    \/ \E p \in Procs : child = p /\ proc[p] = "dead"
    \/ \E t \in Threads : Recovering(t) /\ thread[t].pc \notin {"done", "gaveUp"}

\* A crash is noticed, whoever had started the sidecar, and every recovery comes
\* to an end, replacing or giving up, unless the app exits.
CrashIsHandled == Unsettled ~> ~Unsettled \/ exiting

\* "Called on app exit so the sidecar never survives as an orphan"
\* (sidecar.rs:401-402): once the app exits, a sidecar that still runs has a
\* running thread that will kill it.  The code leaves both kinds of orphan that
\* OrphansExplained names.
NoOrphan ==
    exiting => \A p \in Procs : Alive(p) => \E t \in Threads : WillKill(t, p)
=============================================================================
