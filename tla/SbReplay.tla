------------------------------ MODULE SbReplay ------------------------------
(***************************************************************************)
(* One cross-environment replay: receive the requested messages of an      *)
(* entity (or of its dead-letter queue) under peek-lock, send a clone of   *)
(* each to another namespace, then complete the source (move) or abandon   *)
(* it back (copy), journalling the confirmed sequences now and then.       *)
(***************************************************************************)
EXTENDS Naturals, FiniteSets

CONSTANTS
    N,            \* the source holds sequence numbers 1..N
    MaxBatch,     \* messages per receive
    FlushEvery,   \* confirmed sends per journal flush (25 in the code)
    MaxDelivery,  \* the entity's MaxDeliveryCount
    Sources,      \* which values of deadLetter the operation may start with
    MaxFaults     \* bound on crashes, cancels, lost locks and broker errors

ASSUME SbReplayAssumption ==
    /\ N \in Nat \ {0} /\ MaxBatch \in Nat \ {0} /\ FlushEvery \in Nat \ {0}
    /\ MaxDelivery \in Nat \ {0} /\ MaxFaults \in Nat
    /\ Sources \subseteq BOOLEAN

Seqs == 1..N
Resumable == {"Interrupted", "Failed", "Cancelled"}

VARIABLES
    op,         \* requested sequences, removeSource, deadLetter
    state,      \* SbOperationState
    cancelled,  \* the cancellation token
    processed,  \* ProcessedSequences
    missing,    \* what the last run reported as never found
    journal,    \* the entry on disk: status and processed set
    unsaved,    \* the terminal persist has not reached the journal yet
    flush,      \* the throttled persist: "none", "queued" or "written"
    place,      \* where the broker has each source message
    lock,       \* the peek-lock on each source message
    deliveries, \* DeliveryCount of each source message
    copies,     \* clones of each message on the target
    pc,         \* where the runner is
    run,        \* the runner's locals
    faults      \* interruptions so far

broker == <<place, lock, deliveries>>
saved == <<journal, unsaved, flush>>
vars == <<op, state, cancelled, processed, missing, saved, broker, copies, pc, run, faults>>

-----------------------------------------------------------------------------
(* Helpers.                                                                *)

InSource(m) == place[m] = "source"
Receivable == {m \in Seqs : InSource(m) /\ lock[m] = "free"}

\* The broker takes a message back: free again, or dead-lettered once it was
\* delivered too often. A dead-letter queue has no delivery limit.
Returned(m) ==
    /\ lock' = [lock EXCEPT ![m] = "free"]
    /\ place' = IF ~op.deadLetter /\ deliveries[m] >= MaxDelivery
                THEN [place EXCEPT ![m] = "deadLettered"] ELSE place

FreshRun(w) == [wanted |-> w, batch |-> {}, failed |-> FALSE]

\* The runner stops: its receiver is disposed and its locks only expire.
RunnerStops(s) ==
    /\ state' = s
    /\ pc' = "idle"
    /\ run' = FreshRun({})
    /\ lock' = [m \in Seqs |-> IF lock[m] = "held" THEN "other" ELSE lock[m]]

Init ==
    /\ op \in [requested : (SUBSET Seqs) \ {{}}, removeSource : BOOLEAN, deadLetter : Sources]
    /\ state = "Running" /\ cancelled = FALSE
    /\ processed = {} /\ missing = {}
    /\ journal = [status |-> "Running", processed |-> {}]
    /\ unsaved = FALSE /\ flush = "none"
    /\ place \in [Seqs -> {"source", "gone"}]
    /\ lock = [m \in Seqs |-> "free"]
    /\ deliveries = [m \in Seqs |-> 0]
    /\ copies = [m \in Seqs |-> 0]
    /\ pc = "receive"
    /\ run = FreshRun(op.requested)
    /\ faults = 0

-----------------------------------------------------------------------------
(* The transfer loop: ReplayMessagesAsync.                                 *)

\* A receive hands out the oldest unlocked messages and counts a delivery.
Receive ==
    /\ pc = "receive" /\ run.batch = {} /\ run.wanted # {} /\ ~cancelled
    /\ \E B \in SUBSET Receivable :
        /\ B # {} /\ Cardinality(B) <= MaxBatch
        /\ \A b \in B, m \in Receivable \ B : b < m
        /\ run' = [run EXCEPT !.batch = B]
        /\ lock' = [m \in Seqs |-> IF m \in B THEN "held" ELSE lock[m]]
        /\ deliveries' = [m \in Seqs |-> IF m \in B /\ ~op.deadLetter
                                         THEN deliveries[m] + 1 ELSE deliveries[m]]
    /\ UNCHANGED <<op, state, cancelled, processed, missing, saved, place, copies, pc, faults>>

Handling(m) ==
    /\ pc = "receive" /\ ~cancelled
    /\ m \in run.batch /\ \A b \in run.batch : m <= b

\* A message nobody asked for goes straight back to the source.
AbandonUnwanted(m) ==
    /\ Handling(m) /\ m \notin run.wanted /\ lock[m] = "held"
    /\ Returned(m)
    /\ run' = [run EXCEPT !.batch = @ \ {m}]
    /\ UNCHANGED <<op, state, cancelled, processed, missing, saved, deliveries, copies, pc, faults>>

\* Abandoning after the lock is lost throws out of the loop.
AbandonLost(m) ==
    /\ Handling(m) /\ m \notin run.wanted /\ lock[m] # "held"
    /\ RunnerStops("Failed") /\ unsaved' = TRUE
    /\ UNCHANGED <<op, cancelled, processed, missing, journal, flush, place, deliveries, copies, faults>>

\* Mutant: the clone is sent, but the send is not awaited.
SendUnawaited(m) ==
    /\ Handling(m) /\ m \in run.wanted
    /\ copies' \in {copies, [copies EXCEPT ![m] = @ + 1]}
    /\ run' = [run EXCEPT !.wanted = @ \ {m}]
    /\ pc' = "settle"
    /\ UNCHANGED <<op, state, cancelled, processed, missing, saved, broker, faults>>

\* Mutant: the sequence stays wanted after it was sent.
SendStaysWanted(m) ==
    /\ Handling(m) /\ m \in run.wanted
    /\ copies' = [copies EXCEPT ![m] = @ + 1]
    /\ pc' = "settle"
    /\ UNCHANGED <<op, state, cancelled, processed, missing, saved, broker, run, faults>>

\* The clone is on the target; the source is not settled yet.
Send(m) ==
    /\ Handling(m) /\ m \in run.wanted
    /\ copies' = [copies EXCEPT ![m] = @ + 1]
    /\ run' = [run EXCEPT !.wanted = @ \ {m}]
    /\ pc' = "settle"
    /\ UNCHANGED <<op, state, cancelled, processed, missing, saved, broker, faults>>

Settling(m) == pc = "settle" /\ m \in run.batch /\ \A b \in run.batch : m <= b

\* Complete (move) or abandon (copy).
SettleSource(m) ==
    IF op.removeSource
    THEN /\ place' = [place EXCEPT ![m] = "moved"]
         /\ lock' = [lock EXCEPT ![m] = "free"]
    ELSE Returned(m)

\* The settle succeeds: the sequence is confirmed, and every FlushEvery-th
\* confirmation asks for a journal write unless one is still in flight.
Settle(m) ==
    /\ Settling(m) /\ lock[m] = "held"
    /\ SettleSource(m)
    /\ processed' = processed \cup {m}
    /\ flush' = IF Cardinality(processed') % FlushEvery = 0 /\ flush = "none"
                THEN "queued" ELSE flush
    /\ run' = [run EXCEPT !.batch = @ \ {m}]
    /\ pc' = "receive"
    /\ UNCHANGED <<op, state, cancelled, missing, journal, unsaved, deliveries, copies, faults>>

\* Mutant: a failed settle is swallowed instead of counted.
SettleLostSwallowed(m) ==
    /\ Settling(m) /\ lock[m] # "held"
    /\ run' = [run EXCEPT !.batch = @ \ {m}]
    /\ pc' = "receive"
    /\ UNCHANGED <<op, state, cancelled, processed, missing, saved, broker, copies, faults>>

\* The lock was lost: FailedCount++, on to the next message.
SettleLost(m) ==
    /\ Settling(m) /\ lock[m] # "held"
    /\ run' = [run EXCEPT !.batch = @ \ {m}, !.failed = TRUE]
    /\ pc' = "receive"
    /\ UNCHANGED <<op, state, cancelled, processed, missing, saved, broker, copies, faults>>

\* Mutant: an empty receive does not end the loop.
DoneWhenAllFound ==
    /\ pc = "receive" /\ run.batch = {} /\ run.wanted = {}
    /\ missing' = run.wanted
    /\ RunnerStops(IF run.failed THEN "Failed" ELSE "Completed")
    /\ unsaved' = TRUE
    /\ UNCHANGED <<op, cancelled, processed, journal, flush, place, deliveries, copies, faults>>

\* The loop ends: nothing wanted any more, or an empty receive. Whatever was
\* never matched is reported missing, not failed.
Done ==
    /\ pc = "receive" /\ run.batch = {}
    /\ run.wanted = {} \/ (Receivable = {} /\ ~cancelled)
    /\ missing' = run.wanted
    /\ RunnerStops(IF run.failed THEN "Failed" ELSE "Completed")
    /\ unsaved' = TRUE
    /\ UNCHANGED <<op, cancelled, processed, journal, flush, place, deliveries, copies, faults>>

\* The token is observed at a check or inside an awaited call.
RunCancelled ==
    /\ pc # "idle" /\ cancelled
    /\ RunnerStops("Cancelled") /\ unsaved' = TRUE
    /\ UNCHANGED <<op, cancelled, processed, missing, journal, flush, place, deliveries, copies, faults>>

Runner ==
    \/ Receive \/ Done \/ RunCancelled
    \/ \E m \in Seqs : \/ AbandonUnwanted(m) \/ AbandonLost(m)
                       \/ Send(m) \/ Settle(m) \/ SettleLost(m)

-----------------------------------------------------------------------------
(* The journal.                                                            *)

\* The persist of a terminal state lands. (A persist that computed its status
\* before a resume or dismiss and lands after it is modelled in SbOperations.)
Persist ==
    /\ unsaved
    /\ journal' = [status |-> state, processed |-> processed]
    /\ unsaved' = FALSE
    /\ UNCHANGED <<op, state, cancelled, processed, missing, flush, broker, copies, pc, run, faults>>

\* The throttled persist computed its status while the run was on; it writes
\* the processed set it finds, and lets the next flush in when it is over.
FlushWrite ==
    /\ flush = "queued"
    /\ journal' = [status |-> "Running", processed |-> processed]
    /\ flush' = "written"
    /\ UNCHANGED <<op, state, cancelled, processed, missing, unsaved, broker, copies, pc, run, faults>>

FlushEnd ==
    /\ flush = "written"
    /\ flush' = "none"
    /\ UNCHANGED <<op, state, cancelled, processed, missing, journal, unsaved, broker, copies, pc, run, faults>>

Journal == Persist \/ FlushWrite \/ FlushEnd

-----------------------------------------------------------------------------
(* What goes wrong.                                                        *)

Fault == faults < MaxFaults /\ faults' = faults + 1

\* The receive, or the abandon of an unwanted message, throws.
BrokerFails ==
    /\ Fault
    /\ pc = "receive"
    /\ RunnerStops("Failed") /\ unsaved' = TRUE
    /\ UNCHANGED <<op, cancelled, processed, missing, journal, flush, place, deliveries, copies>>

\* Mutant: a message whose send failed is reported as done.
SendFailsConfirmed(m) ==
    /\ Fault
    /\ Handling(m) /\ m \in run.wanted
    /\ processed' = processed \cup {m}
    /\ run' = [run EXCEPT !.wanted = @ \ {m}, !.batch = @ \ {m}, !.failed = TRUE]
    /\ UNCHANGED <<op, state, cancelled, missing, saved, broker, copies, pc>>

\* A send or settle throws; its effect may have happened all the same.
SendFails(m) ==
    /\ Fault
    /\ Handling(m) /\ m \in run.wanted
    /\ copies' \in {copies, [copies EXCEPT ![m] = @ + 1]}
    /\ run' = [run EXCEPT !.wanted = @ \ {m}, !.batch = @ \ {m}, !.failed = TRUE]
    /\ UNCHANGED <<op, state, cancelled, processed, missing, saved, broker, pc>>

SettleFails(m) ==
    /\ Fault
    /\ Settling(m) /\ lock[m] = "held"
    /\ SettleSource(m) \/ UNCHANGED <<place, lock>>
    /\ run' = [run EXCEPT !.batch = @ \ {m}, !.failed = TRUE]
    /\ pc' = "receive"
    /\ UNCHANGED <<op, state, cancelled, processed, missing, saved, deliveries, copies>>

LockLost(m) ==
    /\ Fault
    /\ lock[m] = "held"
    /\ Returned(m)
    /\ UNCHANGED <<op, state, cancelled, processed, missing, saved, deliveries, copies, pc, run>>

\* The sidecar dies: a restart knows what the journal knows.
Crash ==
    /\ Fault
    /\ RunnerStops(IF journal.status = "Running" THEN "Interrupted" ELSE journal.status)
    /\ processed' = journal.processed
    /\ unsaved' = FALSE /\ flush' = "none" /\ cancelled' = FALSE
    /\ UNCHANGED <<op, missing, journal, place, deliveries, copies>>

\* An orphaned lock expires, or another receiver abandons.
LockExpires(m) ==
    /\ lock[m] = "other"
    /\ Returned(m)
    /\ UNCHANGED <<op, state, cancelled, processed, missing, saved, deliveries, copies, pc, run, faults>>

OthersLock(m) ==
    /\ InSource(m) /\ lock[m] = "free"
    /\ lock' = [lock EXCEPT ![m] = "other"]
    /\ UNCHANGED <<op, state, cancelled, processed, missing, saved, place, deliveries, copies, pc, run, faults>>

OthersSettle(m) ==
    /\ InSource(m) /\ lock[m] = "other"
    /\ place' = [place EXCEPT ![m] = "gone"]
    /\ lock' = [lock EXCEPT ![m] = "free"]
    /\ UNCHANGED <<op, state, cancelled, processed, missing, saved, deliveries, copies, pc, run, faults>>

Environment ==
    \/ BrokerFails \/ Crash
    \/ \E m \in Seqs : SendFails(m) \/ SettleFails(m) \/ LockLost(m)
                       \/ OthersLock(m) \/ OthersSettle(m)

-----------------------------------------------------------------------------
(* The user.                                                               *)

Cancel ==
    /\ Fault
    /\ state = "Running" /\ ~cancelled
    /\ cancelled' = TRUE
    /\ UNCHANGED <<op, state, processed, missing, saved, broker, copies, pc, run>>

\* Mutant: resume starts over from the request.
ResumeFromScratch ==
    /\ state \in Resumable
    /\ state' = "Running" /\ cancelled' = FALSE
    /\ pc' = "receive" /\ run' = FreshRun(op.requested)
    /\ journal' = [status |-> "Running", processed |-> processed] /\ unsaved' = FALSE
    /\ UNCHANGED <<op, processed, missing, flush, broker, copies, faults>>

\* Resume skips what is confirmed; its own persist precedes the run.
Resume ==
    /\ state \in Resumable
    /\ state' = "Running" /\ cancelled' = FALSE
    /\ pc' = "receive" /\ run' = FreshRun(op.requested \ processed)
    /\ journal' = [status |-> "Running", processed |-> processed] /\ unsaved' = FALSE
    /\ UNCHANGED <<op, processed, missing, flush, broker, copies, faults>>

\* The target namespace no longer resolves.
ResumeWithoutTarget ==
    /\ state \in Resumable
    /\ state' = "Failed"
    /\ journal' = [status |-> "Failed", processed |-> processed] /\ unsaved' = FALSE
    /\ UNCHANGED <<op, cancelled, processed, missing, flush, broker, copies, pc, run, faults>>

Dismiss ==
    /\ state \in Resumable
    /\ state' = "Dismissed"
    /\ journal' = [status |-> "Dismissed", processed |-> processed] /\ unsaved' = FALSE
    /\ UNCHANGED <<op, cancelled, processed, missing, flush, broker, copies, pc, run, faults>>

User == Cancel \/ Resume \/ ResumeWithoutTarget \/ Dismiss

Settled == state \in {"Completed", "Dismissed"} /\ UNCHANGED vars

Next ==
    \/ Runner \/ Journal \/ Environment \/ User \/ Settled
    \/ \E m \in Seqs : LockExpires(m)

Spec == Init /\ [][Next]_vars

\* The thread pool runs the runner and the journal writes; locks expire.
FairSpec ==
    /\ Spec
    /\ WF_vars(Runner) /\ WF_vars(Journal)
    /\ \A m \in Seqs : WF_vars(LockExpires(m))

-----------------------------------------------------------------------------
(* Properties.                                                             *)

\* Every variable has its type, and a runner is there exactly while Running.
TypeOK ==
    /\ (pc = "idle") <=> (state # "Running")
    /\ op \in [requested : SUBSET Seqs, removeSource : BOOLEAN, deadLetter : Sources]
    /\ state \in {"Running", "Completed", "Failed", "Cancelled", "Interrupted", "Dismissed"}
    /\ cancelled \in BOOLEAN
    /\ processed \subseteq Seqs /\ missing \subseteq Seqs
    /\ journal \in [status : {"Running", "Completed", "Failed", "Cancelled", "Interrupted", "Dismissed"},
                    processed : SUBSET Seqs]
    /\ unsaved \in BOOLEAN /\ flush \in {"none", "queued", "written"}
    /\ place \in [Seqs -> {"source", "gone", "moved", "deadLettered"}]
    /\ lock \in [Seqs -> {"free", "held", "other"}]
    /\ deliveries \in [Seqs -> Nat]
    /\ copies \in [Seqs -> Nat]
    /\ pc \in {"idle", "receive", "settle"}
    /\ run \in [wanted : SUBSET Seqs, batch : SUBSET Seqs, failed : BOOLEAN]
    /\ faults \in 0..MaxFaults

\* A move takes a message off the source only once its clone is on the target.
MovedIsOnTarget == \A m \in Seqs : place[m] = "moved" => op.removeSource /\ copies[m] > 0

\* Only requested messages are cloned.
OnlyRequested == \A m \in Seqs : copies[m] > 0 => m \in op.requested

\* "skipping sequences the journal already confirmed": once a sequence is in
\* the processed set no run sends it again, whatever is resumed or restarted.
ConfirmedNotResent ==
    [][\A m \in Seqs : copies'[m] > copies[m] => m \notin processed]_vars

\* A second clone of a message needs an interruption between send and confirm,
\* or one that loses confirmations the journal did not have yet.
DuplicatesNeedFaults == \A m \in Seqs : copies[m] <= 1 + faults

\* Nothing the journal calls confirmed is without a clone on the target.
JournalIsTrue == journal.processed \cup processed \subseteq {m \in Seqs : copies[m] > 0}

\* Whatever the source or the journal calls done is on the target.
DoneIsOnTarget == MovedIsOnTarget /\ JournalIsTrue

\* A completed replay transferred every requested message it did not report.
CompletedAccounts ==
    state = "Completed" => op.requested \subseteq processed \cup missing

\* A replay from an active queue ends: abandoning what it does not want costs
\* a delivery, and at MaxDeliveryCount the broker takes it out of the way.
ActiveRunEnds == (state = "Running" /\ ~op.deadLetter) ~> (state # "Running")

\* Every run ends.
RunEnds == (state = "Running") ~> (state # "Running")

=============================================================================
