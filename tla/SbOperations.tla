---------------------------- MODULE SbOperations ----------------------------
(***************************************************************************)
(* The operation service: many reach-message and replay operations, their  *)
(* states in memory, the background runner of each, the crash journal and  *)
(* what the broker still holds for them.                                   *)
(*                                                                         *)
(* SbReach and SbReplay follow one runner message by message; here a run   *)
(* is the sequence of its observable steps, and the subject is what the    *)
(* runners, the API calls, the progress callbacks and the journal writes   *)
(* of several operations do to each other, and what a restart finds.       *)
(***************************************************************************)
EXTENDS Integers, FiniteSets

CONSTANTS
    Ops,          \* operation ids; a Guid is never used twice
    Entities,     \* the entity an operation runs against
    Kinds,        \* kinds of operation that are started
    TargetStamps, \* 1 if acting on the target stamps it too (resubmit)
    MaxWork,      \* messages one operation parks, or sends
    MaxRuns,      \* bound on the runs of one operation: a start and resumes
    MaxCrashes,   \* bound on crashes
    MaxLosses     \* bound on failed reads and writes of the journal

ASSUME SbOperationsAssumption ==
    /\ Entities # {}
    /\ Kinds \subseteq {"reach", "replay"}
    /\ TargetStamps \subseteq {0, 1}
    /\ MaxWork \in Nat /\ MaxRuns \in Nat
    /\ MaxCrashes \in Nat /\ MaxLosses \in Nat

States == {"Running", "Completed", "Failed", "Cancelled", "Interrupted",
           "Dismissed"}
Resumable == {"Interrupted", "Failed", "Cancelled"}
JournalStatuses == {"Running", "Completed", "Failed", "Cancelled", "Dismissed"}
Unfinished == {"Running", "Failed", "Cancelled"}
Working == {"park", "transition", "restore", "transfer"}
Unread == "unread"
NoClaim == -1

VARIABLES
    op,         \* _ops: what the service knows of each operation
    runner,     \* the task of each operation and its locals
    persists,   \* calls of PersistAsync that have not returned
    cancelling, \* CancelAsync calls between their check and their Cancel()
    entries,    \* the journal in memory
    disk,       \* the journal file
    dlq,        \* messages in the dead-letter queue with the operation's stamp
    up,         \* _initialized
    crashes,    \* crashes so far
    losses,     \* failed reads and writes of the journal so far
    ended       \* history: operations a run completed or the user dismissed

vars == <<op, runner, persists, cancelling, entries, disk, dlq, up,
          crashes, losses, ended>>
journal == <<entries, disk, losses>>
process == <<up, crashes>>

-----------------------------------------------------------------------------
(* Helpers.                                                                *)

AnyEntity == CHOOSE e \in Entities : TRUE

NoOp == [state |-> "None", entity |-> AnyEntity, kind |-> "reach", shown |-> 0,
         claim |-> NoClaim, token |-> FALSE]
NoEntry == [status |-> "None", entity |-> AnyEntity, kind |-> "reach",
            shown |-> 0, claim |-> NoClaim]
Idle(n) == [pc |-> "none", n |-> n, done |-> 0, reports |-> {}]

Stage(o) == runner[o].pc
Busy(o) == Stage(o) \in Working
Known(o) == op[o].state # "None"
RunningOn(e) == \E o \in Ops : op[o].state = "Running" /\ op[o].entity = e

\* A start, resume or dismiss holds _gate until its journal write returned.
ByCall == {"start", "resume", "dismiss"}
ByRunner == {"transition", "final", "throttle"}
GateFree == \A p \in persists : p.by \notin ByCall

PersistCall(o, by, status) ==
    [op |-> o, by |-> by, status |-> status, n |-> runner[o].n]

JournalStatus(s) == IF s = "Interrupted" THEN "Running" ELSE s

\* "N message(s) remain parked": a replay's note makes no such claim.
RemainderClaim(o) == IF op[o].kind = "reach" THEN op[o].shown ELSE NoClaim

Init ==
    /\ op = [o \in Ops |-> NoOp]
    /\ runner = [o \in Ops |-> Idle(0)]
    /\ persists = {}
    /\ cancelling = {}
    /\ entries = [o \in Ops |-> NoEntry]
    /\ disk = [o \in Ops |-> NoEntry]
    /\ dlq = [o \in Ops |-> 0]
    /\ up = FALSE
    /\ crashes = 0
    /\ losses = 0
    /\ ended = {}

JournalFails == losses < MaxLosses /\ losses' = losses + 1

-----------------------------------------------------------------------------
(* The service starts: the journal becomes the list of operations.         *)

\* Mutant: an entry left running loads as history.
LoadedStateAsHistory(s) == IF s = "Running" THEN "Completed" ELSE s

LoadedState(s) == IF s = "Running" THEN "Interrupted" ELSE s

FromEntry(e) ==
    [state |-> LoadedState(e.status), entity |-> e.entity, kind |-> e.kind,
     shown |-> e.shown, token |-> FALSE,
     claim |-> IF e.status = "Running" THEN NoClaim ELSE e.claim]

EnsureInitialized ==
    /\ ~up
    /\ up' = TRUE
    /\ \/ entries' = disk /\ UNCHANGED losses
       \/ entries' = [o \in Ops |-> NoEntry] /\ JournalFails
    /\ op' = [o \in Ops |-> FromEntry(entries'[o])]
    /\ UNCHANGED <<runner, persists, cancelling, disk, dlq, crashes, ended>>

-----------------------------------------------------------------------------
(* API calls.                                                              *)

Fresh(o) == runner[o].n = 0

TryStart(o) ==
    /\ up /\ GateFree /\ Fresh(o)
    /\ \E e \in Entities, k \in Kinds :
        /\ ~RunningOn(e)
        /\ op' = [op EXCEPT ![o] = [NoOp EXCEPT !.state = "Running",
                                                !.entity = e, !.kind = k]]
    /\ runner' = [runner EXCEPT ![o].n = 1]
    /\ persists' = persists \cup {[PersistCall(o, "start", "Running") EXCEPT !.n = 1]}
    /\ UNCHANGED <<cancelling, journal, dlq, process, ended>>

\* CancelAsync takes no gate: it looks at the state, then trips the source.
CancelCheck(o) ==
    /\ up /\ op[o].state = "Running"
    /\ cancelling' = cancelling \cup {[op |-> o, n |-> runner[o].n]}
    /\ UNCHANGED <<op, runner, persists, journal, dlq, process, ended>>

CancelTrip(c) ==
    /\ c \in cancelling
    /\ op' = [op EXCEPT ![c.op].token = TRUE]
    /\ cancelling' = cancelling \ {c}
    /\ UNCHANGED <<runner, persists, journal, dlq, process, ended>>

Resuming(o) == up /\ GateFree /\ runner[o].n < MaxRuns

\* Mutant: any state but the final ones may resume.
ResumeAnything(o) ==
    /\ Resuming(o) /\ op[o].state \in Resumable \cup {"Running"}
    /\ op' = [op EXCEPT ![o].state = "Running", ![o].claim = NoClaim,
                        ![o].token = FALSE]
    /\ runner' = [runner EXCEPT ![o].n = @ + 1]
    /\ persists' = persists \cup
         {[PersistCall(o, "resume", "Running") EXCEPT !.n = @ + 1]}
    /\ UNCHANGED <<cancelling, journal, dlq, process, ended>>

\* The target client of a replay is there: the endpoint refuses first.
Resume(o) ==
    /\ Resuming(o) /\ op[o].state \in Resumable
    /\ op' = [op EXCEPT ![o].state = "Running", ![o].claim = NoClaim,
                        ![o].token = FALSE]
    /\ runner' = [runner EXCEPT ![o].n = @ + 1]
    /\ persists' = persists \cup
         {[PersistCall(o, "resume", "Running") EXCEPT !.n = @ + 1]}
    /\ UNCHANGED <<cancelling, journal, dlq, process, ended>>

\* Mutant: a running operation can be dismissed.
DismissRunning(o) ==
    /\ up /\ GateFree /\ op[o].state \in Resumable \cup {"Running"}
    /\ op' = [op EXCEPT ![o].state = "Dismissed"]
    /\ persists' = persists \cup {PersistCall(o, "dismiss", "Dismissed")}
    /\ ended' = ended \cup {o}
    /\ UNCHANGED <<runner, cancelling, journal, dlq, process>>

Dismiss(o) ==
    /\ up /\ GateFree /\ op[o].state \in Resumable
    /\ op' = [op EXCEPT ![o].state = "Dismissed"]
    /\ persists' = persists \cup {PersistCall(o, "dismiss", "Dismissed")}
    /\ ended' = ended \cup {o}
    /\ UNCHANGED <<runner, cancelling, journal, dlq, process>>

-----------------------------------------------------------------------------
(* Runners.                                                                *)

\* The runner leaves the operation in state s and writes it down last.
RunnerStops(o, s, claim, shown) ==
    /\ op' = [op EXCEPT ![o].state = s, ![o].claim = claim, ![o].shown = shown]
    /\ runner' = [runner EXCEPT ![o].pc = "none"]
    /\ persists' = persists \cup {PersistCall(o, "final", Unread)}
    /\ ended' = IF s = "Completed" THEN ended \cup {o} ELSE ended

\* Park one message; Progress<int> posts the count to the thread pool.
ParkOne(o) ==
    /\ Stage(o) = "park" /\ ~op[o].token /\ runner[o].done < MaxWork
    /\ dlq' = [dlq EXCEPT ![o] = @ + 1]
    /\ runner' = [runner EXCEPT ![o].done = @ + 1, ![o].reports = @ \cup {runner[o].done + 1}]
    /\ UNCHANGED <<op, persists, cancelling, journal, process, ended>>

\* A posted callback runs when the pool gets to it, in any order.
Report(o, count) ==
    /\ count \in runner[o].reports
    /\ op' = [op EXCEPT ![o].shown = count]
    /\ runner' = [runner EXCEPT ![o].reports = @ \ {count}]
    /\ UNCHANGED <<persists, cancelling, journal, dlq, process, ended>>

ParkStopped(o) ==
    /\ Stage(o) = "park"
    /\ RunnerStops(o, "Failed", runner[o].done, runner[o].done)
    /\ UNCHANGED <<cancelling, journal, dlq, process>>

TargetReached(o) ==
    /\ Stage(o) = "park" /\ ~op[o].token
    /\ \E s \in TargetStamps : dlq' = [dlq EXCEPT ![o] = @ + s]
    /\ op' = [op EXCEPT ![o].shown = runner[o].done]
    /\ runner' = [runner EXCEPT ![o].pc = "transition"]
    /\ persists' = persists \cup {PersistCall(o, "transition", "Running")}
    /\ UNCHANGED <<cancelling, journal, process, ended>>

RestoreOne(o) ==
    /\ Stage(o) = "restore" /\ ~op[o].token /\ dlq[o] > 0
    /\ dlq' = [dlq EXCEPT ![o] = @ - 1]
    /\ UNCHANGED <<op, runner, persists, cancelling, journal, process, ended>>

\* FailedCount > 0: some copies could not be restored.
RestoreIncomplete(o) ==
    /\ Stage(o) = "restore" /\ dlq[o] > 0
    /\ RunnerStops(o, "Failed", NoClaim, op[o].shown)
    /\ UNCHANGED <<cancelling, journal, dlq, process>>

\* An empty receive ends the collection, so some may be left (SbReach).
RestoreDone(o) ==
    /\ Stage(o) = "restore"
    /\ RunnerStops(o, "Completed", NoClaim, op[o].shown)
    /\ UNCHANGED <<cancelling, journal, dlq, process>>

\* One more confirmed send; every so often a write is queued (SbReplay).
TransferOne(o) ==
    /\ Stage(o) = "transfer" /\ ~op[o].token /\ runner[o].done < MaxWork
    /\ runner' = [runner EXCEPT ![o].done = @ + 1]
    /\ \/ UNCHANGED persists
       \/ /\ \A p \in persists : ~(p.op = o /\ p.by = "throttle")
          /\ persists' = persists \cup {PersistCall(o, "throttle", Unread)}
    /\ UNCHANGED <<op, cancelling, journal, dlq, process, ended>>

TransferDone(o) ==
    /\ Stage(o) = "transfer"
    /\ \E s \in {"Completed", "Failed"} : RunnerStops(o, s, NoClaim, op[o].shown)
    /\ UNCHANGED <<cancelling, journal, dlq, process>>

\* A call of the client throws.
BrokerFails(o) ==
    /\ Stage(o) \in {"park", "restore", "transfer"}
    /\ RunnerStops(o, "Failed", RemainderClaim(o), op[o].shown)
    /\ UNCHANGED <<cancelling, journal, dlq, process>>

StopCancelled(o) ==
    /\ Stage(o) \in {"park", "restore", "transfer"} /\ op[o].token
    /\ RunnerStops(o, "Cancelled", RemainderClaim(o), op[o].shown)
    /\ UNCHANGED <<cancelling, journal, dlq, process>>

Run(o) ==
    \/ ParkOne(o) \/ ParkStopped(o) \/ TargetReached(o)
    \/ RestoreOne(o) \/ RestoreIncomplete(o) \/ RestoreDone(o)
    \/ TransferOne(o) \/ TransferDone(o)
    \/ BrokerFails(o) \/ StopCancelled(o)

-----------------------------------------------------------------------------
(* Journal writes: PersistAsync. The calls queue on _persistGate with the  *)
(* status they read before it; the rest of the entry is read behind it, so *)
(* a write is one step.                                                    *)

\* A runner's last write and a flush read the state when they get to run.
ReadStatus(p) ==
    /\ p \in persists /\ p.status = Unread
    /\ persists' = (persists \ {p}) \cup
         {[p EXCEPT !.status = JournalStatus(op[p.op].state)]}
    /\ UNCHANGED <<op, runner, cancelling, journal, dlq, process, ended>>

Entry(p) ==
    [status |-> p.status, entity |-> op[p.op].entity, kind |-> op[p.op].kind,
     shown |-> op[p.op].shown, claim |-> op[p.op].claim]

\* What the caller goes on to do once its write has returned.
StageAfter(p) ==
    CASE op[p.op].kind = "replay" /\ p.by \in {"start", "resume"} -> "transfer"
      [] op[p.op].kind = "reach" /\ p.by = "start" -> "park"
      [] op[p.op].kind = "reach" /\ p.by = "resume" -> "restore"
      [] p.by = "transition" -> "restore"
      [] OTHER -> Stage(p.op)

\* Mutant: a failed write is not swallowed and takes its caller down.
PersistLandsOrThrows(p) ==
    /\ p \in persists /\ p.status # Unread
    /\ entries' = [entries EXCEPT ![p.op] = Entry(p)]
    /\ persists' = persists \ {p}
    /\ \/ /\ disk' = entries'
          /\ runner' = [runner EXCEPT ![p.op].pc = StageAfter(p)]
          /\ UNCHANGED losses
       \/ UNCHANGED <<disk, runner>> /\ JournalFails
    /\ UNCHANGED <<op, cancelling, dlq, process, ended>>

\* The whole list is saved; a failure is logged and swallowed.
PersistLands(p) ==
    /\ p \in persists /\ p.status # Unread
    /\ entries' = [entries EXCEPT ![p.op] = Entry(p)]
    /\ persists' = persists \ {p}
    /\ runner' = [runner EXCEPT ![p.op].pc = StageAfter(p)]
    /\ \/ disk' = entries' /\ UNCHANGED losses
       \/ UNCHANGED disk /\ JournalFails
    /\ UNCHANGED <<op, cancelling, dlq, process, ended>>

\* The process dies; only the file and the broker remember.
Crash ==
    /\ crashes < MaxCrashes /\ crashes' = crashes + 1
    /\ op' = [o \in Ops |-> NoOp]
    /\ runner' = [o \in Ops |-> Idle(runner[o].n)]
    /\ persists' = {}
    /\ cancelling' = {}
    /\ entries' = [o \in Ops |-> NoEntry]
    /\ up' = FALSE
    /\ UNCHANGED <<disk, dlq, losses, ended>>

Call(o) == TryStart(o) \/ CancelCheck(o) \/ Resume(o) \/ Dismiss(o)
Callback(o) == \E count \in runner[o].reports : Report(o, count)

Next ==
    \/ EnsureInitialized
    \/ \E o \in Ops : Call(o) \/ Run(o) \/ Callback(o)
    \/ \E c \in cancelling : CancelTrip(c)
    \/ \E p \in persists : ReadStatus(p) \/ PersistLands(p)
    \/ Crash

Spec == Init /\ [][Next]_vars

\* The thread pool runs what is queued; users and crashes are never due.
FairSpec ==
    /\ Spec
    /\ \A o \in Ops : WF_vars(Run(o))
    /\ WF_vars(\E p \in persists : ReadStatus(p) \/ PersistLands(p))
    /\ WF_vars(\E c \in cancelling : CancelTrip(c))

-----------------------------------------------------------------------------
(* Properties.                                                             *)

OpType == [state : States \cup {"None"}, entity : Entities,
           kind : {"reach", "replay"}, shown : 0..MaxWork,
           claim : (0..MaxWork) \cup {NoClaim}, token : BOOLEAN]
RunnerType == [pc : Working \cup {"none"}, n : Nat, done : 0..MaxWork,
               reports : SUBSET (0..MaxWork)]
PersistType == [op : Ops, by : ByCall \cup ByRunner,
                status : JournalStatuses \cup {Unread, "None"}, n : Nat]
EntryType == [status : JournalStatuses \cup {"None"}, entity : Entities,
              kind : {"reach", "replay"}, shown : 0..MaxWork,
              claim : (0..MaxWork) \cup {NoClaim}]

\* Every variable keeps its type.
TypeOK ==
    /\ op \in [Ops -> OpType]
    /\ runner \in [Ops -> RunnerType]
    /\ persists \subseteq PersistType
    /\ cancelling \subseteq [op : Ops, n : Nat]
    /\ entries \in [Ops -> EntryType]
    /\ disk \in [Ops -> EntryType]
    /\ dlq \in [Ops -> Nat]
    /\ up \in BOOLEAN
    /\ crashes \in Nat /\ losses \in Nat
    /\ ended \subseteq Ops

Opening(o) == {p \in persists : p.op = o /\ p.by \in {"start", "resume"}}

\* An operation says Running exactly while one runner works on it or one call
\* is about to start one: never two runners, never Running with nobody at it
\* (TryStart*Async, ResumeAsync and DismissAsync against the runner's end).
OneRunner ==
    \A o \in Ops :
        /\ op[o].state = "Running" <=> (Busy(o) \/ Opening(o) # {})
        /\ ~(Busy(o) /\ Opening(o) # {})
        /\ \A p, q \in Opening(o) : p = q

\* Of two operations running on one entity at least one was resumed: starts
\* refuse each other under the gate however they interleave with runners.
StartsExclude ==
    \A a, b \in Ops :
        a # b /\ op[a].state = "Running" /\ op[b].state = "Running"
              /\ op[a].entity = op[b].entity
        => runner[a].n > 1 \/ runner[b].n > 1

\* As long as the journal could be read and written, an operation with stamped
\* messages that no run completed and nobody dismissed is offered for resume,
\* now or after a crash at this very moment (the write before the first park).
StrandedIsOffered ==
    losses = 0 =>
        \A o \in Ops : dlq[o] > 0 /\ o \notin ended =>
            /\ disk[o].status \in Unfinished
            /\ up => op[o].state \in Resumable \cup {"Running"}

\* While the process lives, a completed or dismissed operation stays that way:
\* no late runner, callback or call brings it back.
EndIsFinal ==
    [][\A o \in Ops :
        op[o].state \in {"Completed", "Dismissed"} /\ crashes' = crashes
            => op'[o].state = op[o].state]_vars

\* Every run ends, whatever the journal does: no call waits for ever on a gate
\* and no failed write takes a runner with it.
RunEnds == \A o \in Ops : op[o].state = "Running" ~> op[o].state # "Running"

\* "The second one is refused regardless of kind" (HasRunningAsync).
OneRunningPerEntity ==
    \A a, b \in Ops :
        a # b /\ op[a].state = "Running" /\ op[b].state = "Running"
            => op[a].entity # op[b].entity

\* What the gate on the writes is for: no stale status after a final one.
FinalStatusStays ==
    [][\A o \in Ops :
        disk[o].status \in {"Completed", "Dismissed"}
            => disk'[o].status = disk[o].status]_vars
=============================================================================
