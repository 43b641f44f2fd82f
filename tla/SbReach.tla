------------------------------ MODULE SbReach ------------------------------
(***************************************************************************)
(* One reach-message operation against one Service Bus entity: park every  *)
(* message in front of the target in the dead-letter queue (stamped with   *)
(* the operation), act on the target, then restore the stamped messages as *)
(* copies appended at the tail.                                            *)
(*                                                                         *)
(* The actors are the operation's runner (RunReachAsync, RunRestoreAsync   *)
(* and the client calls they await), the user (cancel, resume, dismiss),   *)
(* the broker (peek-locks and their expiry), competing receivers, and the  *)
(* process, which may die between any two steps.                           *)
(***************************************************************************)
EXTENDS Naturals, FiniteSets, Sequences

CONSTANTS
    N,          \* the entity holds sequence numbers 1..N
    F,          \* dead-letter messages N+1..N+F of some other origin
    MaxBatch,   \* messages per receive
    Caps,       \* the park caps the operation may be started with
    Actions,    \* the target actions the operation may be started with
    MaxFaults   \* bound on crashes, cancels, lost locks and broker errors

ASSUME SbReachAssumption ==
    /\ N \in Nat \ {0} /\ F \in Nat
    /\ MaxBatch \in Nat \ {0} /\ Caps \subseteq Nat /\ MaxFaults \in Nat
    /\ Actions \subseteq {"Complete", "DeadLetter", "Resubmit"}

Seqs == 1..N
Messages == 1..(N + F)
Places == {"active", "absent", "consumed", "completed", "deadLettered",
           "parked", "restored", "foreign"}
Locks == {"free", "held", "other"}
States == {"Running", "Completed", "Failed", "Cancelled", "Interrupted",
           "Dismissed"}
Resumable == {"Interrupted", "Failed", "Cancelled"}

VARIABLES
    op,        \* what the operation was asked: target, action, before, maxParked
    state,     \* its SbOperationState
    restored,  \* its RestoredCount
    cancelled, \* its cancellation token
    place,     \* where the broker has each message
    lock,      \* the peek-lock on each message
    tail,      \* copies appended to the entity, oldest first
    pc,        \* where the runner is
    run,       \* the runner's locals
    faults     \* interruptions so far

vars == <<op, state, restored, cancelled, place, lock, tail, pc, run, faults>>
broker == <<place, lock, tail>>

-----------------------------------------------------------------------------
(* Helpers.                                                                *)

Free(m) == lock[m] = "free"
InDlq(m) == place[m] \in {"parked", "deadLettered", "foreign"}
\* Only a park or a resubmit writes the operation's stamp.
IsParkedBy(m) == place[m] = "parked"
IsTarget(m) == m = op.target

FreshRun == [batch |-> {}, stop |-> FALSE, parked |-> 0, reached |-> FALSE,
             collected |-> [m \in Seqs |-> 0], sent |-> <<>>, restored |-> 0,
             failed |-> FALSE, blind |-> {}]

\* OrderBy(role = target == targetAfterPrefix), ThenBy(OriginalSequence).
RestoreRank(m) == IF IsTarget(m) = op.before THEN 1 ELSE 0
RestoresBefore(a, b) ==
    \/ RestoreRank(a) < RestoreRank(b)
    \/ RestoreRank(a) = RestoreRank(b) /\ a <= b

First(S, m) == m \in S /\ \A s \in S : m <= s

\* The receiver is disposed with its locks still held: they only expire.
AbandonedLocks == [m \in Messages |-> IF lock[m] = "held" THEN "other" ELSE lock[m]]

\* The runner stops in state s, keeping only what the broker has.
RunnerStops(s) ==
    /\ state' = s
    /\ pc' = "idle"
    /\ run' = [FreshRun EXCEPT !.blind = run.blind]
    /\ lock' = AbandonedLocks

Init ==
    /\ op \in [target : Seqs, action : Actions, before : BOOLEAN, maxParked : Caps]
    /\ state = "Running"
    /\ restored = 0
    /\ cancelled = FALSE
    /\ place \in {p \in [Messages -> {"active", "absent", "foreign"}] :
                    \A m \in Messages : (m \in Seqs) <=> (p[m] # "foreign")}
    /\ lock = [m \in Messages |-> "free"]
    /\ tail = <<>>
    /\ pc = "park"
    /\ run = FreshRun
    /\ faults = 0

-----------------------------------------------------------------------------
(* Park phase: ReachParkProcessor.ProcessAsync.                            *)

Receivable == {m \in Seqs : place[m] = "active" /\ Free(m)}

\* A receive hands out the oldest unlocked messages, under peek-lock.
ParkReceive ==
    /\ pc = "park" /\ ~run.stop /\ run.batch = {} /\ ~cancelled
    /\ \E B \in SUBSET Receivable :
        /\ B # {} /\ Cardinality(B) <= MaxBatch
        /\ \A b \in B, m \in Receivable \ B : b < m
        /\ run' = [run EXCEPT !.batch = B]
        /\ lock' = [m \in Messages |-> IF m \in B THEN "held" ELSE lock[m]]
    /\ UNCHANGED <<op, state, restored, cancelled, place, tail, pc, faults>>

Handling(m) == pc = "park" /\ First(run.batch, m) /\ ~cancelled

\* Mutant: the sequence is compared for inequality, so overshoots park too.
ParkPastTarget(m) ==
    /\ Handling(m) /\ ~run.stop /\ lock[m] = "held"
    /\ ~IsTarget(m) /\ run.parked < op.maxParked
    /\ place' = [place EXCEPT ![m] = "parked"]
    /\ lock' = [lock EXCEPT ![m] = "free"]
    /\ run' = [run EXCEPT !.batch = @ \ {m}, !.parked = @ + 1]
    /\ UNCHANGED <<op, state, restored, cancelled, tail, pc, faults>>

\* Mutant: the cap is off by one.
ParkOverCap(m) ==
    /\ Handling(m) /\ ~run.stop /\ lock[m] = "held"
    /\ m < op.target /\ run.parked <= op.maxParked
    /\ place' = [place EXCEPT ![m] = "parked"]
    /\ lock' = [lock EXCEPT ![m] = "free"]
    /\ run' = [run EXCEPT !.batch = @ \ {m}, !.parked = @ + 1]
    /\ UNCHANGED <<op, state, restored, cancelled, tail, pc, faults>>

\* Below the target and under the cap: dead-letter with the stamp.
Park(m) ==
    /\ Handling(m) /\ ~run.stop /\ lock[m] = "held"
    /\ m < op.target /\ run.parked < op.maxParked
    /\ place' = [place EXCEPT ![m] = "parked"]
    /\ lock' = [lock EXCEPT ![m] = "free"]
    /\ run' = [run EXCEPT !.batch = @ \ {m}, !.parked = @ + 1]
    /\ UNCHANGED <<op, state, restored, cancelled, tail, pc, faults>>

TargetPlace == CASE op.action = "Complete" -> "completed"
                 [] op.action = "DeadLetter" -> "deadLettered"
                 [] op.action = "Resubmit" -> "parked"

ActOnReachTarget(m) ==
    /\ Handling(m) /\ ~run.stop /\ lock[m] = "held" /\ IsTarget(m)
    /\ place' = [place EXCEPT ![m] = TargetPlace]
    /\ lock' = [lock EXCEPT ![m] = "free"]
    /\ run' = [run EXCEPT !.batch = @ \ {m}, !.reached = TRUE, !.stop = TRUE]
    /\ UNCHANGED <<op, state, restored, cancelled, tail, pc, faults>>

\* After the stop, at the cap, or past the target: only released.
Release(m) ==
    /\ Handling(m) /\ lock[m] = "held"
    /\ \/ run.stop
       \/ m < op.target /\ run.parked >= op.maxParked
       \/ m > op.target
    /\ lock' = [lock EXCEPT ![m] = "free"]
    /\ run' = [run EXCEPT !.batch = @ \ {m}, !.stop = TRUE]
    /\ UNCHANGED <<op, state, restored, cancelled, place, tail, pc, faults>>

\* Mutant: a settle that lost its lock is retried for ever.
SettleLostRetried ==
    /\ pc \in {"park", "collect"} /\ ~cancelled
    /\ \E m \in run.batch : lock[m] # "held"
    /\ UNCHANGED vars

\* Settling a message whose lock was lost throws and fails the operation.
SettleLost ==
    /\ pc \in {"park", "collect"} /\ ~cancelled
    /\ \E m \in run.batch :
        /\ pc = "park" => First(run.batch, m)
        /\ pc = "collect" => ~IsParkedBy(m)
        /\ lock[m] # "held"
    /\ RunnerStops("Failed")
    /\ UNCHANGED <<op, restored, cancelled, place, tail, faults>>

\* The processor returns; an unreached target fails the operation.
ParkDone ==
    /\ pc = "park" /\ run.batch = {}
    /\ run.stop \/ (Receivable = {} /\ ~cancelled)
    /\ IF run.reached
       THEN pc' = "collect" /\ UNCHANGED <<state, run, lock>>
       ELSE RunnerStops("Failed")
    /\ UNCHANGED <<op, restored, cancelled, place, tail, faults>>

-----------------------------------------------------------------------------
(* Restore phase: RestoreParkedCopiesAsync.                                *)

DlqReceivable == {m \in Messages : InDlq(m) /\ Free(m)}

CollectReceive ==
    /\ pc = "collect" /\ run.batch = {} /\ ~cancelled
    /\ \E B \in SUBSET DlqReceivable :
        /\ B # {} /\ Cardinality(B) <= MaxBatch
        /\ run' = [run EXCEPT !.batch = B]
        /\ lock' = [m \in Messages |-> IF m \in B THEN "held" ELSE lock[m]]
    /\ UNCHANGED <<op, state, restored, cancelled, place, tail, pc, faults>>

\* A stamped message joins the list and keeps its lock.
Collect(m) ==
    /\ pc = "collect" /\ m \in run.batch /\ ~cancelled /\ IsParkedBy(m)
    /\ run' = [run EXCEPT !.batch = @ \ {m}, !.collected[m] = @ + 1]
    /\ UNCHANGED <<op, state, restored, cancelled, broker, pc, faults>>

\* Any other dead letter is abandoned: it may be received again at once.
Abandon(m) ==
    /\ pc = "collect" /\ m \in run.batch /\ ~cancelled /\ ~IsParkedBy(m)
    /\ lock[m] = "held"
    /\ lock' = [lock EXCEPT ![m] = "free"]
    /\ run' = [run EXCEPT !.batch = @ \ {m}]
    /\ UNCHANGED <<op, state, restored, cancelled, place, tail, pc, faults>>

\* Mutant: one receive batch is taken for the whole stamped set.
CollectDoneEarly ==
    /\ pc = "collect" /\ run.batch = {} /\ ~cancelled
    /\ pc' = "send"
    /\ UNCHANGED <<op, state, restored, cancelled, broker, run, faults>>

CollectDone ==
    /\ pc = "collect" /\ run.batch = {} /\ DlqReceivable = {} /\ ~cancelled
    /\ pc' = "send"
    /\ UNCHANGED <<op, state, restored, cancelled, broker, run, faults>>

Pending == {m \in Seqs : run.collected[m] > 0}
\* Mutant: copies go out in the order they were received.
NextInReceiveOrder(m) == m \in Pending

NextToSend(m) == m \in Pending /\ \A s \in Pending : RestoresBefore(m, s)
Sending(m) == pc = "send" /\ NextToSend(m) /\ ~cancelled
Confirming(m) == pc = "complete" /\ m = run.sent[Len(run.sent)]

\* Mutant: the send is not awaited, so its failure goes unseen.
SendUnawaited(m) ==
    /\ Sending(m)
    /\ tail' \in {tail, Append(tail, m)}
    /\ run' = [run EXCEPT !.sent = Append(@, m)]
    /\ pc' = "complete"
    /\ UNCHANGED <<op, state, restored, cancelled, place, lock, faults>>

\* The clone is on the entity; the stamped copy is not settled yet.
Send(m) ==
    /\ Sending(m)
    /\ tail' = Append(tail, m)
    /\ run' = [run EXCEPT !.sent = Append(@, m)]
    /\ pc' = "complete"
    /\ UNCHANGED <<op, state, restored, cancelled, place, lock, faults>>

\* Only the newest list entry of a message can still own its lock.
OwnsLock(m) == run.collected[m] = 1 /\ lock[m] = "held"

CompleteCopy(m) ==
    /\ Confirming(m) /\ OwnsLock(m)
    /\ place' = [place EXCEPT ![m] = "restored"]
    /\ lock' = [lock EXCEPT ![m] = "free"]
    /\ run' = [run EXCEPT !.collected[m] = @ - 1, !.restored = @ + 1]
    /\ pc' = "send"
    /\ UNCHANGED <<op, state, restored, cancelled, tail, faults>>

\* Mutant: a copy that could not be settled is sent again in the same run.
CompleteLostRetried(m) ==
    /\ Confirming(m) /\ ~OwnsLock(m)
    /\ pc' = "send"
    /\ UNCHANGED <<op, state, restored, cancelled, broker, run, faults>>

\* A lost lock is tolerated per message: FailedCount++ and on to the next.
CompleteLost(m) ==
    /\ Confirming(m) /\ ~OwnsLock(m)
    /\ run' = [run EXCEPT !.collected[m] = @ - 1, !.failed = TRUE]
    /\ pc' = "send"
    /\ UNCHANGED <<op, state, restored, cancelled, broker, faults>>

RestoreDone ==
    /\ pc = "send" /\ Pending = {}
    /\ restored' = restored + run.restored
    /\ RunnerStops(IF run.failed THEN "Failed" ELSE "Completed")
    /\ UNCHANGED <<op, cancelled, place, tail, faults>>

\* The token is observed at a check or inside an awaited call.
RunCancelled ==
    /\ pc # "idle" /\ cancelled
    /\ RunnerStops("Cancelled")
    /\ UNCHANGED <<op, restored, cancelled, place, tail, faults>>

Runner ==
    \/ ParkReceive \/ SettleLost \/ ParkDone
    \/ CollectReceive \/ CollectDone \/ RestoreDone \/ RunCancelled
    \/ \E m \in Seqs : \/ Park(m) \/ ActOnReachTarget(m) \/ Release(m)
                       \/ Collect(m)
                       \/ Send(m) \/ CompleteCopy(m) \/ CompleteLost(m)
    \/ \E m \in Messages : Abandon(m)

-----------------------------------------------------------------------------
(* What goes wrong.                                                        *)

Fault == faults < MaxFaults /\ faults' = faults + 1

\* A receive or settle of the first two loops throws, before its effect.
\* (After its effect is the same action one step later.)
BrokerFails ==
    /\ Fault
    /\ pc \in {"park", "collect"}
    /\ RunnerStops("Failed")
    /\ UNCHANGED <<op, restored, cancelled, place, tail>>

\* A send or complete throws; its effect may have happened all the same.
SendFails(m) ==
    /\ Fault
    /\ Sending(m)
    /\ tail' \in {tail, Append(tail, m)}
    /\ run' = [run EXCEPT !.collected[m] = @ - 1, !.failed = TRUE]
    /\ UNCHANGED <<op, state, restored, cancelled, place, lock, pc>>

CompleteFails(m) ==
    /\ Fault
    /\ Confirming(m) /\ OwnsLock(m)
    /\ \/ UNCHANGED <<place, lock>>
       \/ /\ place' = [place EXCEPT ![m] = "restored"]
          /\ lock' = [lock EXCEPT ![m] = "free"]
    /\ run' = [run EXCEPT !.collected[m] = @ - 1, !.failed = TRUE]
    /\ pc' = "send"
    /\ UNCHANGED <<op, state, restored, cancelled, tail>>

\* A peek-lock of the running operation expires under it.
LockLost(m) ==
    /\ Fault
    /\ lock[m] = "held"
    /\ lock' = [lock EXCEPT ![m] = "free"]
    /\ UNCHANGED <<op, state, restored, cancelled, place, tail, pc, run>>

\* The sidecar dies; after the restart the journal says Interrupted.
Crash ==
    /\ Fault
    /\ state = "Running"
    /\ RunnerStops("Interrupted")
    /\ cancelled' = FALSE
    /\ UNCHANGED <<op, restored, place, tail>>

\* A lock without a live owner expires, or its other receiver abandons.
LockExpires(m) ==
    /\ lock[m] = "other"
    /\ lock' = [lock EXCEPT ![m] = "free"]
    /\ UNCHANGED <<op, state, restored, cancelled, place, tail, pc, run, faults>>

\* Another receiver of the entity takes and settles an active message.
OthersLock(m) ==
    /\ place[m] = "active" /\ Free(m)
    /\ lock' = [lock EXCEPT ![m] = "other"]
    /\ UNCHANGED <<op, state, restored, cancelled, place, tail, pc, run, faults>>

\* It settles that message, or someone empties an unstamped dead letter.
OthersSettle(m) ==
    /\ \/ place[m] = "active" /\ lock[m] = "other"
       \/ place[m] \in {"foreign", "deadLettered"} /\ Free(m)
    /\ place' = [place EXCEPT ![m] = "consumed"]
    /\ lock' = [lock EXCEPT ![m] = "free"]
    /\ UNCHANGED <<op, state, restored, cancelled, tail, pc, run, faults>>

-----------------------------------------------------------------------------
(* The user.                                                               *)

Cancel ==
    /\ Fault
    /\ state = "Running" /\ ~cancelled
    /\ cancelled' = TRUE
    /\ UNCHANGED <<op, state, restored, broker, pc, run>>

\* Re-runs the restore phase with a fresh token, whatever the locks are.
Resume ==
    /\ state \in Resumable
    /\ state' = "Running"
    /\ cancelled' = FALSE
    /\ pc' = "collect"
    /\ run' = [FreshRun EXCEPT !.blind = {m \in Seqs : IsParkedBy(m) /\ ~Free(m)}]
    /\ UNCHANGED <<op, restored, broker, faults>>

Dismiss ==
    /\ state \in Resumable
    /\ state' = "Dismissed"
    /\ UNCHANGED <<op, restored, cancelled, broker, pc, run, faults>>

\* Completed and dismissed operations stay as they are.
Settled ==
    /\ state \in {"Completed", "Dismissed"}
    /\ UNCHANGED vars

Environment ==
    \/ BrokerFails \/ Crash
    \/ \E m \in Seqs : SendFails(m) \/ CompleteFails(m)
    \/ \E m \in Messages : LockLost(m) \/ OthersLock(m) \/ OthersSettle(m)

User == Cancel \/ Resume \/ Dismiss

Next ==
    \/ Runner \/ Environment \/ User \/ Settled
    \/ \E m \in Messages : LockExpires(m)

Spec == Init /\ [][Next]_vars

\* The thread pool runs the runner; the broker expires every lock.
Fairness == WF_vars(Runner) /\ \A m \in Messages : WF_vars(LockExpires(m))

FairSpec == Spec /\ Fairness

-----------------------------------------------------------------------------
(* Properties.                                                             *)

RunType == [batch : SUBSET Messages, stop : BOOLEAN, parked : Nat,
            reached : BOOLEAN, collected : [Seqs -> Nat], sent : Seq(Seqs),
            restored : Nat, failed : BOOLEAN, blind : SUBSET Seqs]

\* Every variable has its type (the record of the runner's locals included).
TypeOK ==
    /\ op \in [target : Seqs, action : Actions, before : BOOLEAN, maxParked : Caps]
    /\ state \in States
    /\ restored \in Nat
    /\ cancelled \in BOOLEAN
    /\ place \in [Messages -> Places]
    /\ lock \in [Messages -> Locks]
    /\ tail \in Seq(Seqs)
    /\ pc \in {"idle", "park", "collect", "send", "complete"}
    /\ run \in RunType
    /\ faults \in 0..MaxFaults

Copies(m) == Cardinality({i \in DOMAIN tail : tail[i] = m})

\* A message leaves the dead-letter queue as "restored" only once a copy of it
\* is on the entity, whatever crashed, was cancelled or lost its lock between
\* the send and the complete (RestoreParkedCopiesAsync: at-least-once).
NothingLost == \A m \in Seqs : place[m] = "restored" => \E i \in DOMAIN tail : tail[i] = m

\* The operation settles what it was asked to and nothing else: messages past
\* the target are never settled, the target only by its own action, and a
\* dead-lettered or completed target never comes back as a copy.
OnlyAskedSettled ==
    \A m \in Seqs :
        /\ place[m] \in {"parked", "restored"} =>
              m < op.target \/ (IsTarget(m) /\ op.action = "Resubmit")
        /\ place[m] \in {"completed", "deadLettered"} =>
              IsTarget(m) /\ place[m] = TargetPlace

\* No copy is appended for a message the operation may not resend.
OnlyAskedCopied ==
    \A i \in DOMAIN tail : tail[i] < op.target \/ (tail[i] = op.target /\ op.action = "Resubmit")

\* Neither the dead-letter queue nor the entity changes for a message outside
\* the operation's request, whatever is interrupted and resumed in between.
OnlyAsked == OnlyAskedSettled /\ OnlyAskedCopied

\* Messages taken out of the way never exceed the cap, counting every batch.
CapHonoured ==
    Cardinality({m \in Seqs : m < op.target /\ place[m] \in {"parked", "restored"}}) <= op.maxParked

\* Whatever is interrupted and resumed, an operation touches what it was asked
\* to and no more than it was allowed to.
WithinRequest == OnlyAsked /\ CapHonoured

\* A second copy of a message needs an interruption or a lock lost between
\* the send and the complete: a resume alone never duplicates.
DuplicatesNeedFaults == \A m \in Seqs : Copies(m) <= 1 + faults

\* Within one restore run copies go out in OrderParkedForRestore's order,
\* whatever order the receive batches came in.
RestoreOrdered ==
    \A i, j \in DOMAIN run.sent : i < j => RestoresBefore(run.sent[i], run.sent[j])

\* RestoredCount never says more than the messages that really went back.
RestoredCountHonest ==
    restored + run.restored <= Cardinality({m \in Seqs : place[m] = "restored"})

\* A restore that ends Completed leaves no stamped message behind except those
\* whose lock was still held when it started.
CompletedDrains ==
    state = "Completed" => \A m \in Seqs : IsParkedBy(m) => m \in run.blind

\* What an operation reports of its restore is true: the number that went back,
\* and that nothing is left when it says so.
ResultIsHonest == RestoredCountHonest /\ CompletedDrains

\* "cancel or crash mid-op leaves parked messages in the DLQ - the op reports
\* that, never hides it": Completed means that no stamped message is left.
CompletedMeansRestored == state = "Completed" => \A m \in Seqs : ~IsParkedBy(m)

\* The run has a dead letter without its stamp in hand: a foreign one, or its own
\* target. It abandons it and may receive it again at once.
Meets == pc = "collect" /\ \E m \in run.batch : ~IsParkedBy(m)

\* A run ends, whatever its action, or it meets dead letters without its stamp
\* again and again: nothing else keeps an operation Running for ever. (The loop
\* of the restore ends on an empty receive only, and no document says that it
\* ends with such letters on the queue.)
RunEnds == (state = "Running") ~> (state # "Running" \/ Meets)

=============================================================================
