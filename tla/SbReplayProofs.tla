--------------------------- MODULE SbReplayProofs ---------------------------
(***************************************************************************)
(* Safety of a replay, for every number of messages, batch size, flush     *)
(* interval, delivery limit and number of interruptions.                   *)
(***************************************************************************)
EXTENDS SbReplay, TLAPS

\* A run only looks for what was asked for and is not confirmed yet.
LooksForTheRest == run.wanted \subseteq op.requested /\ run.wanted \cap processed = {}

\* What is about to be settled was sent, and is not looked for any more.
SentBeforeSettled ==
    \A m \in Seqs : Settling(m) => m \notin run.wanted /\ copies[m] > 0

\* As long as nothing failed, the run still knows what it has not done.
Accounted ==
    state = "Running" /\ ~run.failed =>
        \A m \in op.requested : m \in processed \/ m \in run.wanted \/ Settling(m)

\* The journal says Completed of a completed operation, whose entry accounts
\* for the request as well.
JournalAccounts ==
    journal.status = "Completed" =>
        state = "Completed" /\ op.requested \subseteq journal.processed \cup missing

\* Every clone that is not confirmed was paid for: by an interruption behind
\* it, or by none yet while its settle is under way with the lock in hand. A
\* received message whose lock is gone has an interruption to spare.
Paid ==
    \A m \in Seqs \ processed :
        /\ Settling(m) => /\ copies[m] <= 1 + faults
                          /\ cancelled \/ lock[m] # "held" => copies[m] <= faults
        /\ ~Settling(m) => copies[m] <= faults
        /\ m \in run.batch /\ lock[m] # "held" /\ ~Settling(m) => copies[m] + 1 <= faults

IInv ==
    /\ TypeOK /\ MovedIsOnTarget /\ OnlyRequested /\ JournalIsTrue
    /\ CompletedAccounts /\ DuplicatesNeedFaults
    /\ LooksForTheRest /\ SentBeforeSettled /\ Accounted /\ JournalAccounts /\ Paid

-----------------------------------------------------------------------------
(* Types.                                                                  *)

RunType == [wanted : SUBSET Seqs, batch : SUBSET Seqs, failed : BOOLEAN]

LEMMA RunUpdates ==
  ASSUME NEW r \in RunType, NEW m \in Seqs, NEW B \in SUBSET Seqs
  PROVE  /\ FreshRun(B) \in RunType
         /\ [r EXCEPT !.batch = B] \in RunType
         /\ [r EXCEPT !.batch = @ \ {m}] \in RunType
         /\ [r EXCEPT !.wanted = @ \ {m}] \in RunType
         /\ [r EXCEPT !.batch = @ \ {m}, !.failed = TRUE] \in RunType
         /\ [r EXCEPT !.wanted = @ \ {m}, !.batch = @ \ {m}, !.failed = TRUE] \in RunType
  BY DEF RunType, FreshRun

LEMMA LocalsType == TypeOK => run \in RunType
  BY DEF TypeOK, RunType

\* A message the broker takes back stays in a place there is, and no message
\* becomes "moved" by it.
LEMMA ReturnedType ==
  ASSUME TypeOK, NEW m \in Seqs, Returned(m)
  PROVE  /\ lock' = [lock EXCEPT ![m] = "free"]
         /\ lock' \in [Seqs -> {"free", "held", "other"}]
         /\ place' \in [Seqs -> {"source", "gone", "moved", "deadLettered"}]
         /\ \A b \in Seqs : place'[b] = "moved" => place[b] = "moved"
<1>1. lock' = [lock EXCEPT ![m] = "free"]
  BY DEF Returned
<1>2. place' = place \/ place' = [place EXCEPT ![m] = "deadLettered"]
  BY DEF Returned
<1> QED
  BY <1>1, <1>2 DEF TypeOK

\* Settling the source moves it only when the operation removes sources.
LEMMA SettledType ==
  ASSUME TypeOK, NEW m \in Seqs, SettleSource(m)
  PROVE  /\ lock' = [lock EXCEPT ![m] = "free"]
         /\ lock' \in [Seqs -> {"free", "held", "other"}]
         /\ place' \in [Seqs -> {"source", "gone", "moved", "deadLettered"}]
         /\ \A b \in Seqs : place'[b] = "moved" => place[b] = "moved" \/ (b = m /\ op.removeSource)
<1>1. CASE op.removeSource
  BY <1>1 DEF SettleSource, TypeOK
<1>2. CASE ~op.removeSource
  BY <1>2, ReturnedType DEF SettleSource
<1> QED
  BY <1>1, <1>2

LEMMA StopsType ==
  ASSUME TypeOK, NEW s, RunnerStops(s)
  PROVE  /\ state' = s /\ pc' = "idle" /\ run' = FreshRun({}) /\ run' \in RunType
         /\ lock' \in [Seqs -> {"free", "held", "other"}]
         /\ \A m \in Seqs : lock[m] # "held" => lock'[m] # "held"
<1>1. run' \in RunType
  BY LocalsType DEF RunnerStops, RunType, FreshRun
<1> QED
  BY <1>1 DEF RunnerStops, TypeOK

LEMMA InitTypes == Init => TypeOK
<1> SUFFICES ASSUME Init PROVE TypeOK
  OBVIOUS
<1>1. op.requested \in SUBSET Seqs
  BY DEF Init
<1>2. run \in RunType
  BY <1>1 DEF Init, RunType, FreshRun
<1>3. 0 \in 0..MaxFaults
  BY SbReplayAssumption
<1>4. /\ place \in [Seqs -> {"source", "gone", "moved", "deadLettered"}]
      /\ lock \in [Seqs -> {"free", "held", "other"}]
      /\ deliveries \in [Seqs -> Nat] /\ copies \in [Seqs -> Nat]
  BY DEF Init
<1>5. journal = [status |-> "Running", processed |-> {}]
  BY DEF Init
<1>6. op \in [requested : SUBSET Seqs, removeSource : BOOLEAN, deadLetter : Sources]
  BY DEF Init
<1>7. /\ pc = "receive" /\ state = "Running" /\ cancelled = FALSE /\ processed = {} /\ missing = {}
      /\ unsaved = FALSE /\ flush = "none" /\ faults = 0
  BY DEF Init
<1> QED
  BY <1>2, <1>3, <1>4, <1>5, <1>6, <1>7 DEF TypeOK, RunType

LEMMA FaultType == TypeOK /\ (Fault \/ UNCHANGED faults) => faults' \in 0..MaxFaults
  BY SbReplayAssumption DEF TypeOK, Fault

\* The steps that end a run.
Stops ==
    \/ Done \/ RunCancelled \/ BrokerFails \/ Crash
    \/ \E m \in Seqs : AbandonLost(m)

LEMMA StopsKeepTypes == TypeOK /\ Stops => TypeOK'
<1> SUFFICES ASSUME TypeOK, Stops PROVE TypeOK'
  OBVIOUS
<1>1. PICK s \in {"Completed", "Failed", "Cancelled", "Interrupted", "Dismissed"} : RunnerStops(s)
  BY DEF Stops, Done, RunCancelled, BrokerFails, Crash, AbandonLost, TypeOK
<1>2. UNCHANGED <<op, journal, place, deliveries, copies>>
  BY DEF Stops, Done, RunCancelled, BrokerFails, Crash, AbandonLost
<1>3. faults' \in 0..MaxFaults
  BY FaultType DEF Stops, Done, RunCancelled, BrokerFails, Crash, AbandonLost
<1>4. cancelled' \in BOOLEAN /\ unsaved' \in BOOLEAN /\ flush' \in {"none", "queued", "written"}
  BY DEF Stops, Done, RunCancelled, BrokerFails, Crash, AbandonLost, TypeOK
<1>5. processed' \subseteq Seqs /\ missing' \subseteq Seqs
  BY DEF Stops, Done, RunCancelled, BrokerFails, Crash, AbandonLost, TypeOK
<1>6. /\ state' = s /\ pc' = "idle" /\ run' \in RunType
      /\ lock' \in [Seqs -> {"free", "held", "other"}]
  BY <1>1, StopsType
<1> QED
  BY <1>2, <1>3, <1>4, <1>5, <1>6 DEF TypeOK, RunType

\* The steps of the loop that go on with it.
LEMMA LoopKeepsTypes ==
  ASSUME TypeOK, NEW m \in Seqs,
         \/ Receive \/ AbandonUnwanted(m) \/ Send(m) \/ Settle(m)
         \/ SettleLost(m) \/ SendFails(m) \/ SettleFails(m)
  PROVE  TypeOK'
<1> USE DEF Handling, Settling
<1>1. run \in RunType
  BY LocalsType
<1>2. run' \in RunType
  <2>1. CASE Receive
    <3>1. PICK B \in SUBSET Receivable : run' = [run EXCEPT !.batch = B]
      BY <2>1 DEF Receive
    <3> QED
      BY <1>1, <3>1, RunUpdates DEF Receivable
  <2>2. CASE run' = [run EXCEPT !.batch = @ \ {m}]
    BY <1>1, <2>2, RunUpdates
  <2>3. CASE run' = [run EXCEPT !.wanted = @ \ {m}]
    BY <1>1, <2>3, RunUpdates
  <2>4. CASE run' = [run EXCEPT !.batch = @ \ {m}, !.failed = TRUE]
    BY <1>1, <2>4, RunUpdates
  <2>5. CASE run' = [run EXCEPT !.wanted = @ \ {m}, !.batch = @ \ {m}, !.failed = TRUE]
    BY <1>1, <2>5, RunUpdates
  <2> QED
    BY <2>1, <2>2, <2>3, <2>4, <2>5 DEF AbandonUnwanted, Send, Settle, SettleLost, SendFails, SettleFails
<1>3. UNCHANGED <<op, state, cancelled, missing, journal, unsaved>>
  BY DEF Receive, AbandonUnwanted, Send, Settle, SettleLost, SendFails, SettleFails, saved
<1>4. processed' \subseteq Seqs /\ flush' \in {"none", "queued", "written"}
  BY DEF Receive, AbandonUnwanted, Send, Settle, SettleLost, SendFails, SettleFails, saved, TypeOK
<1>5. /\ lock' \in [Seqs -> {"free", "held", "other"}]
      /\ place' \in [Seqs -> {"source", "gone", "moved", "deadLettered"}]
  <2>1. CASE Receive
    BY <2>1 DEF Receive, TypeOK
  <2>2. CASE Returned(m)
    BY <2>2, ReturnedType
  <2>3. CASE SettleSource(m)
    BY <2>3, SettledType
  <2>4. CASE UNCHANGED <<place, lock>>
    BY <2>4 DEF TypeOK
  <2> QED
    BY <2>1, <2>2, <2>3, <2>4
       DEF AbandonUnwanted, Send, Settle, SettleLost, SendFails, SettleFails, broker
<1>6. deliveries' \in [Seqs -> Nat] /\ copies' \in [Seqs -> Nat]
  BY DEF Receive, AbandonUnwanted, Send, Settle, SettleLost, SendFails, SettleFails, broker, TypeOK
<1>7. pc # "idle" /\ pc' \in {"receive", "settle"}
  BY DEF Receive, AbandonUnwanted, Send, Settle, SettleLost, SendFails, SettleFails
<1>8. faults' \in 0..MaxFaults
  BY FaultType DEF Receive, AbandonUnwanted, Send, Settle, SettleLost, SendFails, SettleFails
<1> QED
  BY <1>2, <1>3, <1>4, <1>5, <1>6, <1>7, <1>8 DEF TypeOK, RunType

\* What others do to the source's messages, and the broker to their locks.
OthersMove(m) == LockLost(m) \/ LockExpires(m) \/ OthersLock(m) \/ OthersSettle(m)

LEMMA OthersKeepTypes ==
  ASSUME TypeOK, NEW m \in Seqs, OthersMove(m)
  PROVE  /\ TypeOK'
         /\ UNCHANGED <<op, state, cancelled, processed, missing, saved, copies, pc, run>>
         /\ \A b \in Seqs : place'[b] = "moved" => place[b] = "moved"
         /\ \A b \in Seqs : lock'[b] = lock[b] \/ lock[b] # "held" \/ Fault
         /\ \A b \in Seqs : lock'[b] = "held" => lock[b] = "held"
         /\ faults' = faults \/ Fault
<1>1. UNCHANGED <<op, state, cancelled, processed, missing, saved, deliveries, copies, pc, run>>
  BY DEF OthersMove, LockLost, LockExpires, OthersLock, OthersSettle
<1>2. /\ lock' \in [Seqs -> {"free", "held", "other"}]
      /\ lock' = [lock EXCEPT ![m] = "free"] \/ lock' = [lock EXCEPT ![m] = "other"]
      /\ place' \in [Seqs -> {"source", "gone", "moved", "deadLettered"}]
      /\ \A b \in Seqs : place'[b] = "moved" => place[b] = "moved"
  <2>1. CASE Returned(m)
    BY <2>1, ReturnedType
  <2>2. CASE OthersLock(m)
    BY <2>2 DEF OthersLock, TypeOK
  <2>3. CASE OthersSettle(m)
    BY <2>3 DEF OthersSettle, TypeOK
  <2> QED
    BY <2>1, <2>2, <2>3 DEF OthersMove, LockLost, LockExpires
<1>3. faults' = faults \/ Fault
  BY DEF OthersMove, LockLost, LockExpires, OthersLock, OthersSettle
<1>4. faults' \in 0..MaxFaults
  BY <1>3, FaultType
<1>5. \A b \in Seqs : lock'[b] = lock[b] \/ lock[b] # "held" \/ Fault
  <2>1. lock[m] # "held" \/ Fault
    BY DEF OthersMove, LockLost, LockExpires, OthersLock, OthersSettle
  <2> QED
    BY <1>2, <2>1 DEF TypeOK
<1>6. \A b \in Seqs : lock'[b] = "held" => lock[b] = "held"
  BY <1>2 DEF TypeOK
<1>7. TypeOK'
  BY <1>1, <1>2, <1>4 DEF TypeOK, saved
<1> QED
  BY <1>1, <1>2, <1>3, <1>5, <1>6, <1>7

-----------------------------------------------------------------------------
(* The steps.                                                              *)

LEMMA FaultCounts ==
  TypeOK => /\ faults \in Nat
            /\ Fault => faults' = faults + 1
            /\ \A m \in Seqs : copies[m] \in Nat
<1> SUFFICES ASSUME TypeOK PROVE faults \in Nat /\ (Fault => faults' = faults + 1) /\ \A m \in Seqs : copies[m] \in Nat
  OBVIOUS
<1>1. faults \in Nat
  BY SbReplayAssumption DEF TypeOK
<1> QED
  BY <1>1 DEF Fault, TypeOK

LEMMA InitInv == Init => IInv
<1> SUFFICES ASSUME Init PROVE IInv
  OBVIOUS
<1>1. TypeOK
  BY InitTypes
<1>2. op.requested \subseteq Seqs /\ \A m \in Seqs : copies[m] = 0 /\ place[m] # "moved"
  BY DEF Init
<1>3. /\ run = FreshRun(op.requested) /\ processed = {} /\ missing = {} /\ state = "Running"
      /\ journal.status = "Running" /\ journal.processed = {} /\ faults = 0 /\ pc = "receive"
  BY DEF Init
<1>4. MovedIsOnTarget /\ OnlyRequested /\ DuplicatesNeedFaults
  BY <1>2, <1>3 DEF MovedIsOnTarget, OnlyRequested, DuplicatesNeedFaults
<1>5. JournalIsTrue /\ CompletedAccounts /\ JournalAccounts
  BY <1>3 DEF JournalIsTrue, CompletedAccounts, JournalAccounts
<1>6. LooksForTheRest /\ SentBeforeSettled /\ Accounted
  BY <1>3 DEF LooksForTheRest, SentBeforeSettled, Accounted, Settling, FreshRun
<1>7. Paid
  BY <1>2, <1>3 DEF Paid, Settling, FreshRun
<1> QED
  BY <1>1, <1>4, <1>5, <1>6, <1>7 DEF IInv

\* The end of a run: a lock in hand is orphaned, nothing is being settled, and
\* what was being settled was paid for by the interruption or by the cancel.
LEMMA StopsKeep ==
  ASSUME IInv, Stops
  PROVE  IInv'
<1> USE DEF IInv
<1>1. TypeOK'
  BY StopsKeepTypes
<1>2. PICK s \in {"Completed", "Failed", "Cancelled", "Interrupted", "Dismissed"} : RunnerStops(s)
  BY DEF Stops, Done, RunCancelled, BrokerFails, Crash, AbandonLost, TypeOK
<1>3. state' = s /\ pc' = "idle" /\ run' = FreshRun({})
  BY <1>2, StopsType
<1>4. UNCHANGED <<op, journal, place, copies>>
  BY DEF Stops, Done, RunCancelled, BrokerFails, Crash, AbandonLost
<1>5. MovedIsOnTarget' /\ OnlyRequested'
  BY <1>4 DEF MovedIsOnTarget, OnlyRequested
<1>6. processed' = processed \/ (Crash /\ processed' = journal.processed)
  BY DEF Stops, Done, RunCancelled, BrokerFails, Crash, AbandonLost
<1>7. JournalIsTrue'
  BY <1>4, <1>6 DEF JournalIsTrue
<1>8. LooksForTheRest' /\ SentBeforeSettled' /\ Accounted'
  BY <1>3 DEF LooksForTheRest, SentBeforeSettled, Accounted, Settling, FreshRun
<1>9. faults' = faults \/ Fault
  BY DEF Stops, Done, RunCancelled, BrokerFails, Crash, AbandonLost
<1>10. DuplicatesNeedFaults'
  BY <1>4, <1>9, FaultCounts DEF DuplicatesNeedFaults
<1>11. ASSUME NEW m \in Seqs, m \notin processed'
       PROVE  copies[m] <= faults'
  <2>1. CASE Crash
    BY <2>1, FaultCounts DEF Crash, DuplicatesNeedFaults
  <2>2. CASE ~Crash
    <3>1. m \notin processed
      BY <1>6, <1>11, <2>2
    <3>2. Settling(m) => cancelled
      BY <2>2 DEF Stops, Done, RunCancelled, BrokerFails, AbandonLost, Handling, Settling
    <3>3. copies[m] <= faults
      BY <3>1, <3>2 DEF Paid
    <3> QED
      BY <3>3, <1>9, FaultCounts
  <2> QED
    BY <2>1, <2>2
<1>12. Paid'
  BY <1>3, <1>4, <1>11 DEF Paid, Settling, FreshRun
<1>13. CompletedAccounts' /\ JournalAccounts'
  <2>1. CASE Crash
    <3>1. missing' = missing /\ (s = "Completed" <=> journal.status = "Completed")
      BY <1>3, <2>1 DEF Crash, RunnerStops
    <3> QED
      BY <1>3, <1>4, <2>1, <3>1 DEF Crash, CompletedAccounts, JournalAccounts
  <2>2. CASE Done
    <3>1. state = "Running"
      BY <2>2 DEF Done, TypeOK
    <3>2. journal.status # "Completed"
      BY <3>1 DEF JournalAccounts
    <3>3. s = "Completed" => ~run.failed
      BY <1>3, <2>2 DEF Done, RunnerStops
    <3>4. s = "Completed" => op.requested \subseteq processed \cup run.wanted
      BY <3>1, <3>3, <2>2 DEF Done, Accounted, Settling
    <3>5. processed' = processed /\ missing' = run.wanted
      BY <2>2 DEF Done
    <3> QED
      BY <1>3, <1>4, <3>2, <3>4, <3>5 DEF CompletedAccounts, JournalAccounts
  <2>3. CASE ~Crash /\ ~Done
    <3>1. s # "Completed"
      BY <1>3, <2>3 DEF Stops, RunCancelled, BrokerFails, AbandonLost, RunnerStops
    <3>2. state = "Running"
      BY <2>3 DEF Stops, RunCancelled, BrokerFails, AbandonLost, Handling, TypeOK
    <3> QED
      BY <1>3, <1>4, <3>1, <3>2 DEF CompletedAccounts, JournalAccounts
  <2> QED
    BY <2>1, <2>2, <2>3
<1> QED
  BY <1>1, <1>5, <1>7, <1>8, <1>10, <1>12, <1>13

\* A new batch is all in hand.
LEMMA ReceiveKeeps == IInv /\ Receive => IInv'
<1> SUFFICES ASSUME IInv, Receive PROVE IInv'
  OBVIOUS
<1> USE DEF IInv
<1>1. TypeOK'
  <2>1. PICK m : m \in Seqs
    BY SbReplayAssumption DEF Seqs
  <2> QED
    BY <2>1, LoopKeepsTypes
<1>2. UNCHANGED <<op, state, cancelled, processed, missing, journal, place, copies, pc, faults>> /\ pc = "receive"
  BY DEF Receive, saved
<1>3. PICK B \in SUBSET Receivable :
         run' = [run EXCEPT !.batch = B] /\ lock' = [m \in Seqs |-> IF m \in B THEN "held" ELSE lock[m]]
  BY DEF Receive
<1>4. run'.batch = B /\ run'.wanted = run.wanted /\ run'.failed = run.failed
  BY <1>3 DEF TypeOK
<1>5. MovedIsOnTarget' /\ OnlyRequested' /\ JournalIsTrue' /\ DuplicatesNeedFaults'
  BY <1>2 DEF MovedIsOnTarget, OnlyRequested, JournalIsTrue, DuplicatesNeedFaults
<1>6. LooksForTheRest' /\ SentBeforeSettled' /\ Accounted'
  BY <1>2, <1>4 DEF LooksForTheRest, SentBeforeSettled, Accounted, Settling
<1>7. CompletedAccounts' /\ JournalAccounts'
  BY <1>2 DEF CompletedAccounts, JournalAccounts
<1>8. \A m \in Seqs : ~Settling(m) /\ ~Settling(m)'
  BY <1>2 DEF Settling
<1>9. Paid'
  BY <1>2, <1>3, <1>4, <1>8 DEF Paid
<1> QED
  BY <1>1, <1>5, <1>6, <1>7, <1>9

\* A step of the loop on the message m that ends with m out of the batch and
\* leaves the loop ready for the next one: what each part of the invariant
\* asks of it.
LEMMA DoneWith ==
  ASSUME IInv, TypeOK', NEW m \in Seqs,
         UNCHANGED <<op, state, cancelled, missing, journal>>, pc' = "receive",
         run'.batch = run.batch \ {m}, run'.wanted = run.wanted \ {m},
         run'.failed = run.failed \/ run'.failed = TRUE,
         \A b \in Seqs : b # m => lock'[b] = lock[b] /\ copies'[b] = copies[b],
         processed' = processed \/ (processed' = processed \cup {m} /\ copies[m] > 0 /\ m \notin run'.wanted),
         m \in processed' \/ (m \notin run.wanted /\ ~Settling(m)) \/ run'.failed,
         copies' = copies \/ (m \in run.wanted /\ copies'[m] = copies[m] + 1),
         \A b \in Seqs : Settling(b) => b = m,
         m \notin processed' => copies'[m] <= faults',
         copies'[m] <= 1 + faults',
         faults' = faults \/ Fault,
         \A b \in Seqs : place'[b] = "moved" => place[b] = "moved" \/ (b = m /\ op.removeSource /\ copies[m] > 0)
  PROVE  IInv'
<1> USE DEF IInv
<1>1. \A b \in Seqs : copies[b] \in Nat /\ copies'[b] \in Nat /\ copies'[b] >= copies[b] /\ (b # m => copies'[b] = copies[b])
  BY FaultCounts DEF TypeOK
<1>2. faults \in Nat /\ faults' \in Nat /\ faults' >= faults
  BY FaultCounts
<1>3. MovedIsOnTarget'
  BY <1>1 DEF MovedIsOnTarget
<1>4. OnlyRequested'
  BY <1>1 DEF OnlyRequested, LooksForTheRest
<1>5. JournalIsTrue'
  BY <1>1 DEF JournalIsTrue
<1>6. state = "Running"
  BY DEF TypeOK
<1>7. CompletedAccounts' /\ JournalAccounts'
  BY <1>6 DEF CompletedAccounts, JournalAccounts
<1>8. DuplicatesNeedFaults'
  BY <1>1, <1>2 DEF DuplicatesNeedFaults
<1>9. LooksForTheRest'
  BY DEF LooksForTheRest
<1>10. \A b \in Seqs : ~Settling(b)'
  BY DEF Settling
<1>11. SentBeforeSettled'
  BY <1>10 DEF SentBeforeSettled
<1>12. Accounted'
  <2> SUFFICES ASSUME ~run'.failed, NEW b \in op.requested
               PROVE  b \in processed' \/ b \in run'.wanted
    BY DEF Accounted
  <2>1. b \in Seqs /\ (b \in processed \/ b \in run.wanted \/ Settling(b))
    BY <1>6 DEF Accounted, TypeOK
  <2> QED
    BY <2>1
<1>13. Paid'
  <2> SUFFICES ASSUME NEW b \in Seqs, b \notin processed'
               PROVE  /\ copies'[b] <= faults'
                      /\ b \in run'.batch /\ lock'[b] # "held" => copies'[b] + 1 <= faults'
    BY <1>10 DEF Paid
  <2>1. CASE b = m
    BY <2>1
  <2>2. CASE b # m
    <3>1. ~Settling(b) /\ b \notin processed
      BY <2>2
    <3>2. copies[b] <= faults /\ (b \in run.batch /\ lock[b] # "held" => copies[b] + 1 <= faults)
      BY <3>1 DEF Paid
    <3> QED
      BY <1>1, <1>2, <2>2, <3>2
  <2> QED
    BY <2>1, <2>2
<1> QED
  BY <1>3, <1>4, <1>5, <1>7, <1>8, <1>9, <1>11, <1>12, <1>13

\* The smallest message of a batch is one message.
LEMMA OneAtATime == \A a, b \in Seqs : Settling(a) /\ Settling(b) => a = b
  BY DEF Settling, Seqs

\* Settling(m) is the case, or the loop has just received or sent.
LEMMA SettlesOnly ==
  ASSUME NEW m \in Seqs, pc = "receive" \/ Settling(m)
  PROVE  \A b \in Seqs : Settling(b) => b = m
<1>1. CASE pc = "receive"
  BY <1>1 DEF Settling
<1>2. CASE Settling(m)
  BY <1>2, OneAtATime
<1> QED
  BY <1>1, <1>2

LEMMA AbandonUnwantedKeeps ==
  ASSUME IInv, NEW m \in Seqs, AbandonUnwanted(m)
  PROVE  IInv'
<1> USE DEF IInv
<1>1. TypeOK'
  BY LoopKeepsTypes
<1>2. /\ UNCHANGED <<op, state, cancelled, processed, missing, journal, copies, pc, faults>>
      /\ pc = "receive" /\ m \notin run.wanted
  BY DEF AbandonUnwanted, Handling, saved
<1>3. run'.batch = run.batch \ {m} /\ run'.wanted = run.wanted \ {m} /\ run'.failed = run.failed
  BY <1>2 DEF AbandonUnwanted, TypeOK
<1>4. (\A b \in Seqs : b # m => lock'[b] = lock[b]) /\ \A b \in Seqs : place'[b] = "moved" => place[b] = "moved"
  BY ReturnedType DEF AbandonUnwanted, TypeOK
<1>5. ~Settling(m) /\ \A b \in Seqs : Settling(b) => b = m
  BY <1>2 DEF Settling
<1>6. (m \notin processed => copies[m] <= faults) /\ copies[m] <= 1 + faults
  BY <1>5 DEF Paid, DuplicatesNeedFaults
<1> QED
  BY <1>1, <1>2, <1>3, <1>4, <1>5, <1>6, DoneWith

LEMMA SettleKeeps ==
  ASSUME IInv, NEW m \in Seqs, Settle(m)
  PROVE  IInv'
<1> USE DEF IInv
<1>1. TypeOK'
  BY LoopKeepsTypes
<1>2. /\ UNCHANGED <<op, state, cancelled, missing, journal, copies, faults>> /\ pc' = "receive"
      /\ Settling(m) /\ processed' = processed \cup {m}
  BY DEF Settle
<1>3. m \notin run.wanted /\ copies[m] > 0
  BY <1>2 DEF SentBeforeSettled
<1>4. run'.batch = run.batch \ {m} /\ run'.wanted = run.wanted \ {m} /\ run'.failed = run.failed
  BY <1>3 DEF Settle, TypeOK
<1>5. /\ \A b \in Seqs : b # m => lock'[b] = lock[b]
      /\ \A b \in Seqs : place'[b] = "moved" => place[b] = "moved" \/ (b = m /\ op.removeSource)
  BY SettledType DEF Settle, TypeOK
<1>6. \A b \in Seqs : Settling(b) => b = m
  BY <1>2, SettlesOnly
<1>7. copies[m] <= 1 + faults
  BY DEF DuplicatesNeedFaults
<1>8. /\ processed' = processed \/ (processed' = processed \cup {m} /\ copies[m] > 0 /\ m \notin run'.wanted)
      /\ m \in processed' \/ (m \notin run.wanted /\ ~Settling(m)) \/ run'.failed
      /\ m \notin processed' => copies'[m] <= faults'
  <2>1. m \in processed'
    BY <1>2
  <2>2. m \notin run'.wanted
    BY <1>3, <1>4
  <2> HIDE DEF IInv
  <2> QED
    BY <1>2, <1>3, <2>1, <2>2
<1>9. \A b \in Seqs : place'[b] = "moved" => place[b] = "moved" \/ (b = m /\ op.removeSource /\ copies[m] > 0)
  BY <1>3, <1>5
<1>10. /\ \A b \in Seqs : b # m => lock'[b] = lock[b] /\ copies'[b] = copies[b]
       /\ copies'[m] <= 1 + faults'
       /\ UNCHANGED <<op, state, cancelled, missing, journal, copies, faults>> /\ pc' = "receive"
  BY <1>2, <1>5, <1>7
<1> HIDE DEF IInv
<1> QED
  BY <1>1, <1>4, <1>6, <1>8, <1>9, <1>10, DoneWith

LEMMA SettleLostKeeps ==
  ASSUME IInv, NEW m \in Seqs, SettleLost(m)
  PROVE  IInv'
<1> USE DEF IInv
<1>1. TypeOK'
  BY LoopKeepsTypes
<1>2. /\ UNCHANGED <<op, state, cancelled, processed, missing, journal, place, lock, copies, faults>>
      /\ pc' = "receive" /\ Settling(m) /\ lock[m] # "held"
  BY DEF SettleLost, saved, broker
<1>3. m \notin run.wanted
  BY <1>2 DEF SentBeforeSettled
<1>4. run'.batch = run.batch \ {m} /\ run'.wanted = run.wanted \ {m} /\ run'.failed = TRUE
  BY <1>3 DEF SettleLost, TypeOK
<1>5. \A b \in Seqs : Settling(b) => b = m
  BY <1>2, SettlesOnly
<1>6. (m \notin processed => copies[m] <= faults) /\ copies[m] <= 1 + faults
  BY <1>2 DEF Paid, DuplicatesNeedFaults
<1> QED
  BY <1>1, <1>2, <1>4, <1>5, <1>6, DoneWith

LEMMA SettleFailsKeeps ==
  ASSUME IInv, NEW m \in Seqs, SettleFails(m)
  PROVE  IInv'
<1> USE DEF IInv
<1>1. TypeOK'
  BY LoopKeepsTypes
<1>2. /\ UNCHANGED <<op, state, cancelled, processed, missing, journal, copies>>
      /\ pc' = "receive" /\ Settling(m) /\ Fault
  BY DEF SettleFails, saved
<1>3. m \notin run.wanted /\ copies[m] > 0
  BY <1>2 DEF SentBeforeSettled
<1>4. run'.batch = run.batch \ {m} /\ run'.wanted = run.wanted \ {m} /\ run'.failed = TRUE
  BY <1>3 DEF SettleFails, TypeOK
<1>5. /\ \A b \in Seqs : b # m => lock'[b] = lock[b]
      /\ \A b \in Seqs : place'[b] = "moved" => place[b] = "moved" \/ (b = m /\ op.removeSource)
  <2>1. CASE SettleSource(m)
    BY <2>1, SettledType DEF TypeOK
  <2>2. CASE UNCHANGED <<place, lock>>
    BY <2>2
  <2> QED
    BY <2>1, <2>2 DEF SettleFails
<1>6. \A b \in Seqs : Settling(b) => b = m
  BY <1>2, SettlesOnly
<1>7. copies[m] <= faults' /\ copies[m] <= 1 + faults'
  BY <1>2, FaultCounts DEF DuplicatesNeedFaults
<1> QED
  BY <1>1, <1>2, <1>3, <1>4, <1>5, <1>6, <1>7, DoneWith

LEMMA SendFailsKeeps ==
  ASSUME IInv, NEW m \in Seqs, SendFails(m)
  PROVE  IInv'
<1> USE DEF IInv
<1>1. TypeOK'
  BY LoopKeepsTypes
<1>2. /\ UNCHANGED <<op, state, cancelled, processed, missing, journal, place, lock, pc>>
      /\ pc = "receive" /\ Fault /\ m \in run.wanted
  BY DEF SendFails, Handling, saved, broker
<1>3. run'.batch = run.batch \ {m} /\ run'.wanted = run.wanted \ {m} /\ run'.failed = TRUE
  BY DEF SendFails, TypeOK
<1>4. copies' = copies \/ copies' = [copies EXCEPT ![m] = @ + 1]
  BY DEF SendFails
<1>5. /\ copies' = copies \/ copies'[m] = copies[m] + 1
      /\ \A b \in Seqs : b # m => copies'[b] = copies[b]
  BY <1>4 DEF TypeOK
<1>6. ~Settling(m) /\ \A b \in Seqs : Settling(b) => b = m
  BY <1>2 DEF Settling
<1>7. m \notin processed
  BY <1>2 DEF LooksForTheRest
<1>8. copies[m] <= faults
  BY <1>6, <1>7 DEF Paid
<1>9. copies'[m] <= faults' /\ copies'[m] <= 1 + faults'
  BY <1>2, <1>5, <1>8, FaultCounts
<1> QED
  BY <1>1, <1>2, <1>3, <1>5, <1>6, <1>9, DoneWith

\* The send spends what the received message has to spare.
LEMMA SendKeeps ==
  ASSUME IInv, NEW m \in Seqs, Send(m)
  PROVE  IInv'
<1> USE DEF IInv
<1>1. TypeOK'
  BY LoopKeepsTypes
<1>2. /\ UNCHANGED <<op, state, cancelled, processed, missing, journal, place, lock, faults>>
      /\ pc = "receive" /\ ~cancelled /\ pc' = "settle"
      /\ m \in run.wanted /\ m \in run.batch /\ \A b \in run.batch : m <= b
  BY DEF Send, Handling, saved, broker
<1>3. run'.batch = run.batch /\ run'.wanted = run.wanted \ {m} /\ run'.failed = run.failed
  BY DEF Send, TypeOK
<1>4. /\ copies'[m] = copies[m] + 1 /\ copies[m] \in Nat
      /\ \A b \in Seqs : b # m => copies'[b] = copies[b]
      /\ \A b \in Seqs : copies[b] \in Nat /\ copies'[b] >= copies[b]
  BY DEF Send, TypeOK
<1>5. \A b \in Seqs : Settling(b)' <=> b = m
  <2>1. run.batch \subseteq Seqs
    BY DEF TypeOK
  <2> QED
    BY <1>2, <1>3, <2>1 DEF Settling, Seqs
<1>6. \A b \in Seqs : ~Settling(b)
  BY <1>2 DEF Settling
<1>7. m \notin processed /\ m \in op.requested
  BY <1>2 DEF LooksForTheRest
<1>8. copies[m] <= faults /\ (lock[m] # "held" => copies[m] + 1 <= faults) /\ faults \in Nat
  BY <1>2, <1>6, <1>7, FaultCounts DEF Paid
<1>9. MovedIsOnTarget' /\ OnlyRequested' /\ JournalIsTrue'
  BY <1>2, <1>4, <1>7 DEF MovedIsOnTarget, OnlyRequested, JournalIsTrue
<1>10. DuplicatesNeedFaults'
  BY <1>2, <1>4, <1>8 DEF DuplicatesNeedFaults
<1>11. CompletedAccounts' /\ JournalAccounts'
  BY <1>2 DEF CompletedAccounts, JournalAccounts
<1>12. LooksForTheRest'
  BY <1>2, <1>3 DEF LooksForTheRest
<1>13. SentBeforeSettled'
  BY <1>3, <1>4, <1>5 DEF SentBeforeSettled
<1>14. Accounted'
  <2> SUFFICES ASSUME state = "Running", ~run.failed, NEW b \in op.requested
               PROVE  b \in processed \/ b \in run'.wanted \/ b = m
    BY <1>2, <1>3, <1>5 DEF Accounted, TypeOK
  <2>1. b \in Seqs
    BY DEF TypeOK
  <2> QED
    BY <1>3, <1>6, <2>1 DEF Accounted
<1>15. Paid'
  <2> SUFFICES ASSUME NEW b \in Seqs, b \notin processed
               PROVE  /\ b = m => copies'[b] <= 1 + faults /\ (lock[b] # "held" => copies'[b] <= faults)
                      /\ b # m => copies'[b] <= faults
                      /\ b # m /\ b \in run.batch /\ lock[b] # "held" => copies'[b] + 1 <= faults
    BY <1>2, <1>3, <1>5 DEF Paid
  <2>1. CASE b = m
    BY <1>4, <1>8, <2>1
  <2>2. CASE b # m
    BY <1>4, <1>6, <2>2 DEF Paid
  <2> QED
    BY <2>1, <2>2
<1> QED
  BY <1>1, <1>9, <1>10, <1>11, <1>12, <1>13, <1>14, <1>15

LEMMA OthersKeep ==
  ASSUME IInv, NEW m \in Seqs, OthersMove(m)
  PROVE  IInv'
<1> USE DEF IInv
<1>1. /\ TypeOK'
      /\ UNCHANGED <<op, state, cancelled, processed, missing, journal, copies, pc, run>>
      /\ \A b \in Seqs : place'[b] = "moved" => place[b] = "moved"
      /\ \A b \in Seqs : lock'[b] = lock[b] \/ lock[b] # "held" \/ Fault
      /\ \A b \in Seqs : lock'[b] = "held" => lock[b] = "held"
      /\ faults' = faults \/ Fault
  BY OthersKeepTypes DEF saved
<1>2. \A b \in Seqs : Settling(b)' <=> Settling(b)
  BY <1>1 DEF Settling
<1>3. MovedIsOnTarget' /\ OnlyRequested' /\ JournalIsTrue'
  BY <1>1 DEF MovedIsOnTarget, OnlyRequested, JournalIsTrue
<1>4. DuplicatesNeedFaults'
  BY <1>1, FaultCounts DEF DuplicatesNeedFaults
<1>5. CompletedAccounts' /\ JournalAccounts' /\ LooksForTheRest'
  BY <1>1 DEF CompletedAccounts, JournalAccounts, LooksForTheRest
<1>6. SentBeforeSettled'
  BY <1>1, <1>2 DEF SentBeforeSettled
<1>7. Accounted'
  BY <1>1, <1>2 DEF Accounted, TypeOK
<1>8. Paid'
  <2> SUFFICES ASSUME NEW b \in Seqs, b \notin processed
               PROVE  /\ Settling(b) => /\ copies[b] <= 1 + faults'
                                        /\ cancelled \/ lock'[b] # "held" => copies[b] <= faults'
                      /\ ~Settling(b) => copies[b] <= faults'
                      /\ b \in run.batch /\ lock'[b] # "held" /\ ~Settling(b) => copies[b] + 1 <= faults'
    BY <1>1, <1>2 DEF Paid
  <2>1. /\ Settling(b) => /\ copies[b] <= 1 + faults
                          /\ cancelled \/ lock[b] # "held" => copies[b] <= faults
        /\ ~Settling(b) => copies[b] <= faults
        /\ b \in run.batch /\ lock[b] # "held" /\ ~Settling(b) => copies[b] + 1 <= faults
    BY DEF Paid
  <2>2. copies[b] \in Nat /\ faults \in Nat
    BY FaultCounts
  <2>3. CASE Fault
    <3>1. faults' = faults + 1
      BY <2>3, FaultCounts
    <3> QED
      BY <2>1, <2>2, <3>1
  <2>4. CASE ~Fault
    <3>1. faults' = faults /\ (lock'[b] # "held" => lock[b] # "held")
      BY <1>1, <2>4
    <3> QED
      BY <2>1, <3>1
  <2> QED
    BY <2>3, <2>4
<1> QED
  BY <1>1, <1>3, <1>4, <1>5, <1>6, <1>7, <1>8

\* The journal's writes copy what is confirmed.
LEMMA JournalKeeps == IInv /\ Journal => IInv'
<1> SUFFICES ASSUME IInv, Journal PROVE IInv'
  OBVIOUS
<1> USE DEF IInv
<1>1. UNCHANGED <<op, state, cancelled, processed, missing, place, lock, deliveries, copies, pc, run, faults>>
  BY DEF Journal, Persist, FlushWrite, FlushEnd, broker
<1>2. \/ journal' = journal
      \/ journal' = [status |-> state, processed |-> processed]
      \/ journal' = [status |-> "Running", processed |-> processed]
  BY DEF Journal, Persist, FlushWrite, FlushEnd
<1>3. TypeOK'
  <2>1. unsaved' \in BOOLEAN /\ flush' \in {"none", "queued", "written"}
    BY DEF Journal, Persist, FlushWrite, FlushEnd, TypeOK
  <2> QED
    BY <1>1, <1>2, <2>1 DEF TypeOK
<1>4. JournalIsTrue'
  BY <1>1, <1>2 DEF JournalIsTrue
<1>5. JournalAccounts'
  BY <1>1, <1>2 DEF JournalAccounts, CompletedAccounts
<1>6. MovedIsOnTarget' /\ OnlyRequested' /\ CompletedAccounts' /\ DuplicatesNeedFaults'
  BY <1>1 DEF MovedIsOnTarget, OnlyRequested, CompletedAccounts, DuplicatesNeedFaults
<1>7. LooksForTheRest' /\ SentBeforeSettled' /\ Accounted' /\ Paid'
  BY <1>1 DEF LooksForTheRest, SentBeforeSettled, Accounted, Paid, Settling
<1> QED
  BY <1>3, <1>4, <1>5, <1>6, <1>7

LEMMA CancelKeeps == IInv /\ Cancel => IInv'
<1> SUFFICES ASSUME IInv, Cancel PROVE IInv'
  OBVIOUS
<1> USE DEF IInv
<1>1. UNCHANGED <<op, state, processed, missing, saved, broker, copies, pc, run>> /\ cancelled' = TRUE /\ Fault
  BY DEF Cancel
<1>2. faults' = faults + 1 /\ faults \in Nat /\ \A b \in Seqs : copies[b] \in Nat
  BY <1>1, FaultCounts
<1>3. TypeOK'
  <2>1. faults' \in 0..MaxFaults
    BY <1>1, FaultType
  <2> QED
    BY <1>1, <2>1 DEF TypeOK, saved, broker
<1>4. MovedIsOnTarget' /\ OnlyRequested' /\ CompletedAccounts' /\ JournalIsTrue' /\ JournalAccounts'
  BY <1>1 DEF MovedIsOnTarget, OnlyRequested, CompletedAccounts, JournalIsTrue, JournalAccounts, saved, broker
<1>5. LooksForTheRest' /\ SentBeforeSettled' /\ Accounted'
  BY <1>1 DEF LooksForTheRest, SentBeforeSettled, Accounted, Settling
<1>6. DuplicatesNeedFaults'
  BY <1>1, <1>2 DEF DuplicatesNeedFaults
<1>7. Paid'
  <2> SUFFICES ASSUME NEW b \in Seqs, b \notin processed
               PROVE  /\ Settling(b) => copies[b] <= faults + 1
                      /\ ~Settling(b) => copies[b] <= faults + 1
                      /\ b \in run.batch /\ lock[b] # "held" /\ ~Settling(b) => copies[b] + 1 <= faults + 1
    BY <1>1, <1>2 DEF Paid, Settling, broker
  <2> QED
    BY <1>2 DEF Paid
<1> QED
  BY <1>3, <1>4, <1>5, <1>6, <1>7

\* Resume, resume without a target, and dismiss: nothing is being settled.
LEMMA ResumesKeep == IInv /\ (Resume \/ ResumeWithoutTarget \/ Dismiss) => IInv'
<1> SUFFICES ASSUME IInv, Resume \/ ResumeWithoutTarget \/ Dismiss PROVE IInv'
  OBVIOUS
<1> USE DEF IInv
<1>1. /\ UNCHANGED <<op, processed, missing, place, lock, deliveries, copies, faults>>
      /\ state \in Resumable /\ state' # "Completed"
      /\ journal'.status # "Completed" /\ journal'.processed = processed
  BY DEF Resume, ResumeWithoutTarget, Dismiss, broker
<1>2. /\ pc = "idle"
      /\ \A m \in Seqs : ~Settling(m) /\ ~Settling(m)'
  BY <1>1 DEF Resume, ResumeWithoutTarget, Dismiss, Settling, TypeOK, Resumable
<1>3. run' = run \/ run' = FreshRun(op.requested \ processed)
  BY DEF Resume, ResumeWithoutTarget, Dismiss
<1>4. TypeOK'
  <2>1. run' \in RunType
    <3>1. op.requested \ processed \in SUBSET Seqs /\ run \in RunType
      BY LocalsType DEF TypeOK
    <3> HIDE DEF IInv
    <3>2. FreshRun(op.requested \ processed) \in RunType
      BY <3>1 DEF RunType, FreshRun
    <3> QED
      BY <1>3, <3>1, <3>2
  <2>2. /\ (pc' = "idle") <=> (state' # "Running")
        /\ state' \in {"Running", "Failed", "Dismissed"} /\ pc' \in {"idle", "receive"}
    BY <1>2 DEF Resume, ResumeWithoutTarget, Dismiss
  <2>3. journal' = [status |-> state', processed |-> processed]
    BY DEF Resume, ResumeWithoutTarget, Dismiss
  <2>4. cancelled' \in BOOLEAN /\ unsaved' = FALSE /\ flush' = flush
    BY DEF Resume, ResumeWithoutTarget, Dismiss, TypeOK
  <2>5. journal' \in [status : {"Running", "Completed", "Failed", "Cancelled", "Interrupted", "Dismissed"},
                      processed : SUBSET Seqs]
    <3>1. processed \in SUBSET Seqs
      BY DEF TypeOK
    <3> HIDE DEF IInv
    <3>2. state' \in {"Running", "Completed", "Failed", "Cancelled", "Interrupted", "Dismissed"}
      BY <2>2
    <3> QED
      BY <2>3, <3>1, <3>2
  <2> QED
    BY <1>1, <2>1, <2>2, <2>4, <2>5 DEF TypeOK, RunType
<1>5. MovedIsOnTarget' /\ OnlyRequested' /\ DuplicatesNeedFaults' /\ JournalIsTrue'
  BY <1>1 DEF MovedIsOnTarget, OnlyRequested, DuplicatesNeedFaults, JournalIsTrue
<1>6. CompletedAccounts' /\ JournalAccounts' /\ SentBeforeSettled'
  BY <1>1, <1>2 DEF CompletedAccounts, JournalAccounts, SentBeforeSettled
<1>7. LooksForTheRest'
  BY <1>1, <1>3 DEF LooksForTheRest, FreshRun
<1>8. Accounted'
  <2>1. state' = "Running" => run' = FreshRun(op.requested \ processed)
    BY DEF Resume, ResumeWithoutTarget, Dismiss
  <2> QED
    BY <1>1, <2>1 DEF Accounted, FreshRun
<1>9. Paid'
  BY <1>1, <1>2, <1>3 DEF Paid, FreshRun
<1> QED
  BY <1>4, <1>5, <1>6, <1>7, <1>8, <1>9

LEMMA StutterKeeps == IInv /\ UNCHANGED vars => IInv'
<1> SUFFICES ASSUME IInv, UNCHANGED vars PROVE IInv'
  OBVIOUS
<1> USE DEF IInv, vars, saved, broker
<1>1. TypeOK' /\ MovedIsOnTarget' /\ OnlyRequested' /\ JournalIsTrue'
  BY DEF TypeOK, MovedIsOnTarget, OnlyRequested, JournalIsTrue
<1>2. CompletedAccounts' /\ DuplicatesNeedFaults' /\ LooksForTheRest' /\ JournalAccounts'
  BY DEF CompletedAccounts, DuplicatesNeedFaults, LooksForTheRest, JournalAccounts
<1>3. SentBeforeSettled' /\ Accounted' /\ Paid'
  BY DEF SentBeforeSettled, Accounted, Paid, Settling
<1> QED
  BY <1>1, <1>2, <1>3

LEMMA Inductive == IInv /\ [Next]_vars => IInv'
<1> SUFFICES ASSUME IInv, [Next]_vars PROVE IInv'
  OBVIOUS
<1>1. CASE Runner
  BY <1>1, ReceiveKeeps, StopsKeep, AbandonUnwantedKeeps, SendKeeps, SettleKeeps, SettleLostKeeps
     DEF Runner, Stops
<1>2. CASE Environment
  BY <1>2, StopsKeep, SendFailsKeeps, SettleFailsKeeps, OthersKeep DEF Environment, Stops, OthersMove
<1>3. CASE Journal
  BY <1>3, JournalKeeps
<1>4. CASE User
  BY <1>4, CancelKeeps, ResumesKeep DEF User
<1>5. CASE \E m \in Seqs : LockExpires(m)
  BY <1>5, OthersKeep DEF OthersMove
<1>6. CASE Settled \/ UNCHANGED vars
  BY <1>6, StutterKeeps DEF Settled
<1> QED
  BY <1>1, <1>2, <1>3, <1>4, <1>5, <1>6 DEF Next

LEMMA Invariance == Spec => []IInv
  BY InitInv, Inductive, PTL DEF Spec

-----------------------------------------------------------------------------
(* The theorems.                                                           *)

\* A replay's variables keep their types, and Running means one runner.
THEOREM TypeCorrect == Spec => []TypeOK
<1>1. IInv => TypeOK
  BY DEF IInv
<1> QED
  BY <1>1, Invariance, PTL

\* Whatever fails or dies in between, a message is taken off the source, or
\* confirmed in memory or in the journal, only when its clone is on the target.
THEOREM DoneLosesNothing == Spec => []DoneIsOnTarget
<1>1. IInv => DoneIsOnTarget
  BY DEF IInv, DoneIsOnTarget
<1> QED
  BY <1>1, Invariance, PTL

\* No clone is made of a message nobody asked for.
THEOREM OnlyRequestedIsCopied == Spec => []OnlyRequested
<1>1. IInv => OnlyRequested
  BY DEF IInv
<1> QED
  BY <1>1, Invariance, PTL

\* A completed replay has confirmed or reported every requested message.
THEOREM CompletedIsComplete == Spec => []CompletedAccounts
<1>1. IInv => CompletedAccounts
  BY DEF IInv
<1> QED
  BY <1>1, Invariance, PTL

\* A message is cloned at most once more than there were interruptions.
THEOREM DuplicatesAreBounded == Spec => []DuplicatesNeedFaults
<1>1. IInv => DuplicatesNeedFaults
  BY DEF IInv
<1> QED
  BY <1>1, Invariance, PTL

\* Only a send, or one that throws, adds a clone.
LEMMA OnlySendsCopy ==
  ASSUME [Next]_vars, copies' # copies
  PROVE  \E b \in Seqs : Send(b) \/ SendFails(b)
<1>1. CASE Runner
  <2>1. ~Receive /\ ~Done /\ ~RunCancelled
    BY DEF Receive, Done, RunCancelled
  <2>2. \A b \in Seqs : ~AbandonUnwanted(b) /\ ~AbandonLost(b) /\ ~Settle(b) /\ ~SettleLost(b)
    BY DEF AbandonUnwanted, AbandonLost, Settle, SettleLost
  <2> QED
    BY <1>1, <2>1, <2>2 DEF Runner
<1>2. CASE Environment
  <2>1. ~BrokerFails /\ ~Crash
    BY DEF BrokerFails, Crash
  <2>2. \A b \in Seqs : ~SettleFails(b) /\ ~LockLost(b) /\ ~OthersLock(b) /\ ~OthersSettle(b)
    BY DEF SettleFails, LockLost, OthersLock, OthersSettle
  <2> QED
    BY <1>2, <2>1, <2>2 DEF Environment
<1>3. CASE Journal
  BY <1>3 DEF Journal, Persist, FlushWrite, FlushEnd
<1>4. CASE User
  BY <1>4 DEF User, Cancel, Resume, ResumeWithoutTarget, Dismiss
<1>5. CASE Settled \/ UNCHANGED vars \/ \E b \in Seqs : LockExpires(b)
  BY <1>5 DEF Settled, vars, LockExpires
<1> QED
  BY <1>1, <1>2, <1>3, <1>4, <1>5 DEF Next

\* No step sends what is confirmed: not of this run, not of a resumed one.
THEOREM ConfirmedStaysConfirmed == Spec => ConfirmedNotResent
<1>1. ASSUME IInv, [Next]_vars, NEW m \in Seqs, copies'[m] > copies[m]
      PROVE  m \notin processed
  <2>1. copies \in [Seqs -> Nat] /\ run.wanted \cap processed = {}
    BY <1>1 DEF IInv, TypeOK, LooksForTheRest
  <2>2. copies' # copies
    BY <1>1, <2>1
  <2>3. PICK b \in Seqs : Send(b) \/ SendFails(b)
    BY <1>1, <2>2, OnlySendsCopy
  <2>4. (copies' = copies \/ copies' = [copies EXCEPT ![b] = @ + 1]) /\ b \in run.wanted
    BY <2>3 DEF Send, SendFails
  <2>5. b = m
    BY <1>1, <2>1, <2>2, <2>4
  <2> QED
    BY <2>1, <2>4, <2>5
<1>2. IInv /\ [Next]_vars => [\A m \in Seqs : copies'[m] > copies[m] => m \notin processed]_vars
  BY <1>1
<1> QED
  BY <1>2, Invariance, PTL DEF Spec, ConfirmedNotResent
=============================================================================
