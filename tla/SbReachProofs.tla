--------------------------- MODULE SbReachProofs ---------------------------
(***************************************************************************)
(* Safety of a reach-message operation, for every number of messages, cap, *)
(* batch size and number of interruptions.                                 *)
(***************************************************************************)
EXTENDS SbReach, Integers, FiniteSetTheorems, TLAPS

\* The messages the operation may append a copy of.
MayResend(m) == m < op.target \/ (m = op.target /\ op.action = "Resubmit")

\* While a copy waits to be confirmed it is on the entity and still listed.
Confirmable ==
    pc = "complete" =>
        /\ Len(run.sent) > 0
        /\ run.collected[run.sent[Len(run.sent)]] > 0
        /\ \E i \in DOMAIN tail : tail[i] = run.sent[Len(run.sent)]

\* Only stamped messages are listed, and only messages to resend are stamped.
OnlyAskedCollected == \A m \in Seqs : run.collected[m] > 0 => MayResend(m)

IInv == /\ TypeOK
        /\ Confirmable
        /\ OnlyAskedCollected
        /\ OnlyAskedSettled
        /\ OnlyAskedCopied
        /\ NothingLost

-----------------------------------------------------------------------------

\* A run starts with well-typed locals, whatever was locked at its start.
LEMMA FreshRunType ==
    /\ FreshRun \in RunType
    /\ \A b \in SUBSET Seqs : [FreshRun EXCEPT !.blind = b] \in RunType
  <1>1. [m \in Seqs |-> 0] \in [Seqs -> Nat] /\ <<>> \in Seq(Seqs)
    OBVIOUS
  <1>2. FreshRun \in RunType
    BY <1>1 DEF FreshRun, RunType
  <1> QED
    BY <1>2 DEF RunType

\* The updates the runner makes to its locals keep their types.
LEMMA RunUpdates ==
    ASSUME NEW r \in RunType, NEW m \in Seqs
    PROVE  /\ [r EXCEPT !.batch = @ \ {m}, !.parked = @ + 1] \in RunType
           /\ [r EXCEPT !.batch = @ \ {m}, !.collected[m] = @ + 1] \in RunType
           /\ [r EXCEPT !.sent = Append(@, m)] \in RunType
           /\ r.collected[m] > 0 =>
                /\ [r EXCEPT !.collected[m] = @ - 1, !.failed = TRUE] \in RunType
                /\ [r EXCEPT !.collected[m] = @ - 1, !.restored = @ + 1] \in RunType
  <1>1. r.batch \ {m} \in SUBSET Messages /\ r.parked + 1 \in Nat /\ r.restored + 1 \in Nat
    BY DEF RunType
  <1>2. Append(r.sent, m) \in Seq(Seqs)
    BY DEF RunType
  <1>3. [r.collected EXCEPT ![m] = @ + 1] \in [Seqs -> Nat]
    BY DEF RunType
  <1>4. r.collected[m] > 0 => [r.collected EXCEPT ![m] = @ - 1] \in [Seqs -> Nat]
    BY DEF RunType
  <1>5. [r EXCEPT !.batch = @ \ {m}, !.parked = @ + 1] \in RunType
    BY <1>1 DEF RunType
  <1>6. [r EXCEPT !.batch = @ \ {m}, !.collected[m] = @ + 1] \in RunType
    BY <1>1, <1>3 DEF RunType
  <1>7. [r EXCEPT !.sent = Append(@, m)] \in RunType
    BY <1>2 DEF RunType
  <1>8. ASSUME r.collected[m] > 0
        PROVE  /\ [r EXCEPT !.collected[m] = @ - 1, !.failed = TRUE] \in RunType
               /\ [r EXCEPT !.collected[m] = @ - 1, !.restored = @ + 1] \in RunType
    <2>1. [r EXCEPT !.collected[m] = @ - 1, !.failed = TRUE] \in RunType
      BY <1>1, <1>4, <1>8 DEF RunType
    <2>2. [r EXCEPT !.collected[m] = @ - 1, !.restored = @ + 1] \in RunType
      BY <1>1, <1>4, <1>8 DEF RunType
    <2> QED
      BY <2>1, <2>2
  <1> QED
    BY <1>5, <1>6, <1>7, <1>8

\* Stopping the runner forgets its locals and turns its locks into orphans.
LEMMA RunnerStopsKeeps ==
    ASSUME IInv, NEW s \in States, RunnerStops(s),
           UNCHANGED <<op, place, tail>>, restored' \in Nat,
           cancelled' \in BOOLEAN, faults' \in 0..MaxFaults
    PROVE  IInv'
  <1>1. TypeOK'
    <2>1. lock' \in [Messages -> Locks]
      BY DEF IInv, TypeOK, RunnerStops, AbandonedLocks, Locks
    <2>2. run' \in RunType
      BY FreshRunType DEF IInv, TypeOK, RunnerStops, RunType
    <2> QED
      BY <2>1, <2>2 DEF IInv, TypeOK, RunnerStops, States
  <1>2. run'.collected = [m \in Seqs |-> 0]
    BY DEF RunnerStops, FreshRun
  <1>3. TargetPlace' = TargetPlace
    BY DEF TargetPlace
  <1>4. Confirmable'
    BY DEF RunnerStops, Confirmable
  <1>5. OnlyAskedCollected'
    BY <1>2 DEF OnlyAskedCollected
  <1>6. OnlyAskedSettled'
    BY <1>3 DEF IInv, OnlyAskedSettled, IsTarget
  <1>7. OnlyAskedCopied' /\ NothingLost'
    BY DEF IInv, OnlyAskedCopied, NothingLost
  <1> QED
    BY <1>1, <1>4, <1>5, <1>6, <1>7 DEF IInv

LEMMA InitIInv == Init => IInv
  <1> SUFFICES ASSUME Init PROVE IInv
    OBVIOUS
  <1>1. TypeOK
    <2>1. run \in RunType
      BY FreshRunType DEF Init
    <2>2. place \in [Messages -> Places] /\ lock \in [Messages -> Locks]
      BY DEF Init, Places, Locks
    <2>3. tail \in Seq(Seqs)
      BY DEF Init
    <2>4. 0 \in 0..MaxFaults
      BY SbReachAssumption
    <2> QED
      BY <2>1, <2>2, <2>3, <2>4 DEF Init, TypeOK, States
  <1>2. \A m \in Seqs : place[m] \in {"active", "absent"}
    BY SbReachAssumption DEF Init, Seqs, Messages
  <1>3. OnlyAskedCollected
    BY DEF Init, FreshRun, OnlyAskedCollected
  <1>4. OnlyAskedSettled /\ NothingLost
    BY <1>2 DEF OnlyAskedSettled, NothingLost
  <1>5. Confirmable /\ OnlyAskedCopied
    BY DEF Init, Confirmable, OnlyAskedCopied
  <1> QED
    BY <1>1, <1>3, <1>4, <1>5 DEF IInv

\* A step that leaves the broker's messages and copies where they are only
\* has to keep the types and what is said of the runner's locals.
LEMMA QuietStep ==
    ASSUME IInv, TypeOK', UNCHANGED <<op, place, tail>>,
           Confirmable', OnlyAskedCollected'
    PROVE  IInv'
  <1>1. TargetPlace' = TargetPlace
    BY DEF TargetPlace
  <1>2. OnlyAskedSettled'
    BY <1>1 DEF IInv, OnlyAskedSettled, IsTarget
  <1>3. OnlyAskedCopied' /\ NothingLost'
    BY DEF IInv, OnlyAskedCopied, NothingLost
  <1> QED
    BY <1>2, <1>3 DEF IInv

LEMMA ParkPhaseKeeps ==
    ASSUME IInv, NEW m \in Seqs, Park(m) \/ ActOnReachTarget(m) \/ Release(m)
    PROVE  IInv'
  <1> USE DEF IInv
  <1>1. pc = "park" /\ UNCHANGED <<op, state, restored, cancelled, tail, pc, faults>>
    BY DEF Park, ActOnReachTarget, Release, Handling
  <1>2. m \in Messages
    BY SbReachAssumption DEF Seqs, Messages
  <1>3. run' \in RunType /\ run'.collected = run.collected
    <2>1. CASE Park(m)
      <3>1. run' = [run EXCEPT !.batch = @ \ {m}, !.parked = @ + 1]
        BY <2>1 DEF Park
      <3>2. run' \in RunType
        BY <3>1, RunUpdates DEF TypeOK
      <3> QED
        BY <3>1, <3>2 DEF TypeOK, RunType
    <2>2. CASE ActOnReachTarget(m)
      BY <2>2 DEF ActOnReachTarget, TypeOK, RunType
    <2>3. CASE Release(m)
      BY <2>3 DEF Release, TypeOK, RunType
    <2> QED
      BY <2>1, <2>2, <2>3
  <1>4. lock' \in [Messages -> Locks]
    BY <1>2 DEF Park, ActOnReachTarget, Release, TypeOK, Locks
  <1>5. TargetPlace \in Places /\ TargetPlace' = TargetPlace
    BY <1>1, SbReachAssumption DEF TargetPlace, TypeOK, Places
  <1>6. place' \in [Messages -> Places]
    BY <1>2, <1>5 DEF Park, ActOnReachTarget, Release, TypeOK, Places
  <1>7. TypeOK'
    BY <1>1, <1>3, <1>4, <1>6 DEF TypeOK
  <1>8. Confirmable' /\ OnlyAskedCollected' /\ OnlyAskedCopied'
    BY <1>1, <1>3 DEF Confirmable, OnlyAskedCollected, OnlyAskedCopied, MayResend
  <1>9. OnlyAskedSettled' /\ NothingLost'
    <2>1. CASE Park(m)
      BY <2>1, <1>1, <1>2, <1>5 DEF Park, OnlyAskedSettled, NothingLost, IsTarget, TypeOK
    <2>2. CASE ActOnReachTarget(m)
      <3>1. place' = [place EXCEPT ![m] = TargetPlace] /\ m = op.target
        BY <2>2 DEF ActOnReachTarget, IsTarget
      <3>2. /\ TargetPlace = "parked" => op.action = "Resubmit"
            /\ TargetPlace # "restored"
        BY SbReachAssumption DEF TargetPlace, TypeOK
      <3> QED
        BY <3>1, <3>2, <1>1, <1>2, <1>5 DEF OnlyAskedSettled, NothingLost, IsTarget, TypeOK
    <2>3. CASE Release(m)
      BY <2>3, <1>1, <1>5 DEF Release, OnlyAskedSettled, NothingLost, IsTarget
    <2> QED
      BY <2>1, <2>2, <2>3
  <1> QED
    BY <1>7, <1>8, <1>9

\* The steps of the restore loops that settle nothing.
LEMMA CollectPhaseKeeps ==
    ASSUME IInv, NEW m \in Messages,
           Abandon(m) \/ (m \in Seqs /\ (Collect(m) \/ CompleteLost(m)))
    PROVE  IInv'
  <1> USE DEF IInv
  <1>1. UNCHANGED <<op, place, tail, state, restored, cancelled, faults>>
    BY DEF Abandon, Collect, CompleteLost, broker
  <1>2. CASE Abandon(m)
    <2>1. run' \in RunType /\ run'.collected = run.collected /\ pc' = "collect"
      BY <1>2 DEF Abandon, TypeOK, RunType
    <2>2. lock' \in [Messages -> Locks]
      BY <1>2 DEF Abandon, TypeOK, Locks
    <2>3. TypeOK'
      BY <1>1, <2>1, <2>2 DEF TypeOK
    <2> QED
      BY <1>1, <2>1, <2>3, QuietStep DEF Confirmable, OnlyAskedCollected, MayResend
  <1>3. CASE m \in Seqs /\ Collect(m)
    <2>1. /\ run' = [run EXCEPT !.batch = @ \ {m}, !.collected[m] = @ + 1]
          /\ pc' = "collect" /\ lock' = lock
      BY <1>3 DEF Collect, broker
    <2>2. run' \in RunType
      BY <2>1, <1>3, RunUpdates DEF TypeOK
    <2>3. TypeOK'
      BY <1>1, <2>1, <2>2 DEF TypeOK
    <2>4. MayResend(m)
      BY <1>3 DEF Collect, IsParkedBy, OnlyAskedSettled, MayResend, IsTarget
    <2>5. \A s \in Seqs : s # m => run'.collected[s] = run.collected[s]
      BY <2>1, <1>3 DEF TypeOK, RunType
    <2>6. OnlyAskedCollected'
      BY <1>1, <2>4, <2>5 DEF OnlyAskedCollected, MayResend
    <2> QED
      BY <1>1, <2>1, <2>3, <2>6, QuietStep DEF Confirmable
  <1>4. CASE m \in Seqs /\ CompleteLost(m)
    <2>1. /\ run' = [run EXCEPT !.collected[m] = @ - 1, !.failed = TRUE]
          /\ pc' = "send" /\ lock' = lock /\ run.collected[m] > 0
      BY <1>4 DEF CompleteLost, broker, Confirming, Confirmable
    <2>2. run' \in RunType
      BY <2>1, <1>4, RunUpdates DEF TypeOK
    <2>3. TypeOK'
      BY <1>1, <2>1, <2>2 DEF TypeOK
    <2>4. OnlyAskedCollected'
      BY <1>1, <1>4, <2>1 DEF OnlyAskedCollected, MayResend, TypeOK, RunType
    <2> QED
      BY <1>1, <2>1, <2>3, <2>4, QuietStep DEF Confirmable
  <1> QED
    BY <1>2, <1>3, <1>4

\* The send and the settle of one stamped message.
LEMMA SendKeeps ==
    ASSUME IInv, NEW m \in Seqs, Send(m) \/ SendFails(m)
    PROVE  IInv'
  <1> USE DEF IInv
  <1>1. /\ UNCHANGED <<op, place, lock, state, restored, cancelled>>
        /\ Sending(m)
    BY DEF Send, SendFails
  <1>2. run.collected[m] > 0 /\ MayResend(m) /\ pc = "send"
    BY <1>1 DEF Sending, NextToSend, Pending, OnlyAskedCollected
  <1>3. tail' \in {tail, Append(tail, m)} /\ tail' \in Seq(Seqs)
    <2>1. tail \in Seq(Seqs) /\ Append(tail, m) \in Seq(Seqs)
      BY DEF TypeOK
    <2>2. tail' \in {tail, Append(tail, m)}
      BY DEF Send, SendFails
    <2> QED
      BY <2>1, <2>2
  <1>4. faults' \in 0..MaxFaults
    BY SbReachAssumption DEF Send, SendFails, Fault, TypeOK
  <1>5. \A i \in DOMAIN tail : i \in DOMAIN tail' /\ tail'[i] = tail[i]
    BY <1>3 DEF TypeOK
  <1>6. OnlyAskedCopied'
    <2>1. \A i \in DOMAIN tail' : i \in DOMAIN tail \/ tail'[i] = m
      BY <1>3 DEF TypeOK
    <2> QED
      BY <2>1, <1>1, <1>2, <1>5 DEF OnlyAskedCopied, MayResend
  <1>7. TargetPlace' = TargetPlace
    BY <1>1 DEF TargetPlace
  <1>8. OnlyAskedSettled' /\ NothingLost'
    BY <1>1, <1>5, <1>7 DEF OnlyAskedSettled, NothingLost, IsTarget
  <1>9. CASE Send(m)
    <2>1. /\ run' = [run EXCEPT !.sent = Append(@, m)]
          /\ tail' = Append(tail, m) /\ pc' = "complete"
      BY <1>9 DEF Send
    <2>2. run' \in RunType /\ run'.collected = run.collected
      <3>1. run' \in RunType
        BY <2>1, RunUpdates DEF TypeOK
      <3> QED
        BY <2>1, <3>1 DEF TypeOK, RunType
    <2>3. TypeOK'
      BY <1>1, <1>3, <1>4, <2>1, <2>2 DEF TypeOK
    <2>4. Confirmable'
      <3>1. Len(run'.sent) > 0 /\ run'.sent[Len(run'.sent)] = m
        BY <2>1 DEF TypeOK, RunType
      <3>2. Len(tail') \in DOMAIN tail' /\ tail'[Len(tail')] = m
        BY <2>1 DEF TypeOK
      <3> QED
        BY <1>2, <2>2, <3>1, <3>2 DEF Confirmable
    <2> QED
      BY <1>1, <1>6, <1>8, <2>2, <2>3, <2>4 DEF OnlyAskedCollected, MayResend
  <1>10. CASE SendFails(m)
    <2>1. run' = [run EXCEPT !.collected[m] = @ - 1, !.failed = TRUE] /\ pc' = "send"
      BY <1>10, <1>2 DEF SendFails
    <2>2. run' \in RunType
      BY <1>2, <2>1, RunUpdates DEF TypeOK
    <2>3. TypeOK'
      BY <1>1, <1>3, <1>4, <2>1, <2>2 DEF TypeOK
    <2>4. OnlyAskedCollected'
      BY <1>1, <2>1 DEF OnlyAskedCollected, MayResend, TypeOK, RunType
    <2> QED
      BY <1>6, <1>8, <2>1, <2>3, <2>4 DEF Confirmable
  <1> QED
    BY <1>9, <1>10

LEMMA CompleteKeeps ==
    ASSUME IInv, NEW m \in Seqs, CompleteCopy(m) \/ CompleteFails(m)
    PROVE  IInv'
  <1> USE DEF IInv
  <1>1. /\ UNCHANGED <<op, tail, state, cancelled, restored>> /\ pc' = "send"
        /\ Confirming(m) /\ OwnsLock(m)
    BY DEF CompleteCopy, CompleteFails
  <1>2. /\ run.collected[m] = 1 /\ run.collected[m] > 0 /\ MayResend(m)
        /\ \E i \in DOMAIN tail : tail[i] = m
    BY <1>1 DEF Confirming, OwnsLock, Confirmable, OnlyAskedCollected
  <1>3. m \in Messages
    BY SbReachAssumption DEF Seqs, Messages
  <1>4. faults' \in 0..MaxFaults
    BY SbReachAssumption DEF CompleteCopy, CompleteFails, Fault, TypeOK
  <1>5. place' \in {place, [place EXCEPT ![m] = "restored"]}
    BY DEF CompleteCopy, CompleteFails
  <1>6. lock' \in [Messages -> Locks]
    BY <1>3 DEF CompleteCopy, CompleteFails, TypeOK, Locks
  <1>7. run' \in RunType /\ run'.collected = [run.collected EXCEPT ![m] = 0]
    <2> DEFINE spent == [run.collected EXCEPT ![m] = @ - 1]
    <2>3. run.collected \in [Seqs -> Nat] /\ spent = [run.collected EXCEPT ![m] = 0]
      BY <1>2 DEF TypeOK, RunType
    <2>4. run \in RunType
      BY DEF TypeOK
    <2>1. CASE run' = [run EXCEPT !.collected[m] = @ - 1, !.restored = @ + 1]
      <3>1. run' \in RunType
        BY <1>2, <2>1, <2>4, RunUpdates
      <3>2. run'.collected = spent
        BY <2>1, <2>4 DEF RunType
      <3> QED
        BY <2>3, <3>1, <3>2
    <2>2. CASE run' = [run EXCEPT !.collected[m] = @ - 1, !.failed = TRUE]
      <3>1. run' \in RunType
        BY <1>2, <2>2, <2>4, RunUpdates
      <3>2. run'.collected = spent
        BY <2>2, <2>4 DEF RunType
      <3> QED
        BY <2>3, <3>1, <3>2
    <2> QED
      BY <2>1, <2>2 DEF CompleteCopy, CompleteFails
  <1>8. TypeOK'
    <2>1. place' \in [Messages -> Places]
      BY <1>3, <1>5 DEF TypeOK, Places
    <2> QED
      BY <1>1, <1>4, <1>6, <1>7, <2>1 DEF TypeOK
  <1>9. TargetPlace' = TargetPlace
    BY <1>1 DEF TargetPlace
  <1>10. OnlyAskedSettled' /\ NothingLost'
    <2>1. \A s \in Seqs : place'[s] # place[s] => s = m /\ place'[s] = "restored"
      BY <1>3, <1>5, SbReachAssumption DEF TypeOK, Seqs, Messages
    <2>2. OnlyAskedSettled'
      BY <1>1, <1>2, <1>9, <2>1 DEF OnlyAskedSettled, MayResend, IsTarget
    <2>3. NothingLost'
      BY <1>1, <1>2, <2>1 DEF NothingLost
    <2> QED
      BY <2>2, <2>3
  <1>11. OnlyAskedCollected' /\ OnlyAskedCopied' /\ Confirmable'
    BY <1>1, <1>7 DEF OnlyAskedCollected, OnlyAskedCopied, Confirmable, MayResend, TypeOK, RunType
  <1> QED
    BY <1>8, <1>10, <1>11

\* What the runner does without a settle, and what others do to the broker.
LEMMA OtherRunnerStepsKeep ==
    ASSUME IInv, ParkReceive \/ CollectReceive \/ CollectDone \/ ParkDone
    PROVE  IInv'
  <1> USE DEF IInv
  <1>1. CASE ParkReceive \/ CollectReceive
    <2>1. PICK B \in SUBSET Messages :
            /\ run' = [run EXCEPT !.batch = B]
            /\ lock' = [m \in Messages |-> IF m \in B THEN "held" ELSE lock[m]]
      <3>1. Receivable \subseteq Messages /\ DlqReceivable \subseteq Messages
        BY SbReachAssumption DEF Receivable, DlqReceivable, Seqs, Messages
      <3>2. CASE ParkReceive
        BY <3>1, <3>2 DEF ParkReceive
      <3>3. CASE CollectReceive
        BY <3>1, <3>3 DEF CollectReceive
      <3> QED
        BY <1>1, <3>2, <3>3
    <2>2. UNCHANGED <<op, state, restored, cancelled, place, tail, pc, faults>> /\ pc # "complete"
      BY <1>1 DEF ParkReceive, CollectReceive
    <2>3. run' \in RunType /\ run'.collected = run.collected
      BY <2>1 DEF TypeOK, RunType
    <2>4. lock' \in [Messages -> Locks]
      BY <2>1 DEF TypeOK, Locks
    <2>5. TypeOK'
      BY <2>2, <2>3, <2>4 DEF TypeOK
    <2> QED
      BY <2>2, <2>3, <2>5, QuietStep DEF Confirmable, OnlyAskedCollected, MayResend
  <1>2. CASE CollectDone
    <2>1. UNCHANGED <<op, state, restored, cancelled, broker, run, faults>> /\ pc' = "send"
      BY <1>2 DEF CollectDone
    <2>2. TypeOK'
      BY <2>1 DEF TypeOK, broker
    <2> QED
      BY <2>1, <2>2, QuietStep DEF Confirmable, OnlyAskedCollected, MayResend, broker
  <1>3. CASE ParkDone
    <2>1. UNCHANGED <<op, restored, cancelled, place, tail, faults>>
      BY <1>3 DEF ParkDone
    <2>2. CASE run.reached
      <3>1. pc' = "collect" /\ UNCHANGED <<state, run, lock>>
        BY <1>3, <2>2 DEF ParkDone
      <3>2. TypeOK'
        BY <2>1, <3>1 DEF TypeOK
      <3> QED
        BY <2>1, <3>1, <3>2, QuietStep DEF Confirmable, OnlyAskedCollected, MayResend
    <2>3. CASE ~run.reached
      BY <1>3, <2>1, <2>3, RunnerStopsKeeps DEF ParkDone, States, TypeOK
    <2> QED
      BY <2>2, <2>3
  <1> QED
    BY <1>1, <1>2, <1>3

LEMMA StopsKeep ==
    ASSUME IInv, SettleLost \/ RestoreDone \/ RunCancelled \/ BrokerFails \/ Crash
    PROVE  IInv'
  <1>1. UNCHANGED <<op, place, tail>>
    BY DEF SettleLost, RestoreDone, RunCancelled, BrokerFails, Crash
  <1>2. faults' \in 0..MaxFaults
    BY SbReachAssumption
       DEF IInv, TypeOK, SettleLost, RestoreDone, RunCancelled, BrokerFails, Crash, Fault
  <1>3. restored' \in Nat /\ cancelled' \in BOOLEAN
    <2>1. restored' \in {restored, restored + run.restored}
      BY DEF SettleLost, RestoreDone, RunCancelled, BrokerFails, Crash
    <2>2. restored' \in Nat
      BY <2>1 DEF IInv, TypeOK, RunType
    <2>3. cancelled' = cancelled \/ cancelled' = FALSE
      BY DEF SettleLost, RestoreDone, RunCancelled, BrokerFails, Crash
    <2> QED
      BY <2>2, <2>3 DEF IInv, TypeOK
  <1>4. \E s \in States : RunnerStops(s)
    BY DEF SettleLost, RestoreDone, RunCancelled, BrokerFails, Crash, States
  <1> QED
    BY <1>1, <1>2, <1>3, <1>4, RunnerStopsKeeps

\* Locks, competing receivers and the user never touch stamped messages.
LEMMA OthersKeep ==
    ASSUME IInv, NEW m \in Messages,
           \/ LockLost(m) \/ LockExpires(m) \/ OthersLock(m) \/ OthersSettle(m)
           \/ Cancel \/ Resume \/ Dismiss
    PROVE  IInv'
  <1> USE DEF IInv
  <1>1. UNCHANGED <<op, tail, restored>> /\ faults' \in 0..MaxFaults
    BY SbReachAssumption DEF LockLost, LockExpires, OthersLock, OthersSettle,
       Cancel, Resume, Dismiss, Fault, TypeOK, broker
  <1>2. lock' \in [Messages -> Locks]
    BY DEF LockLost, LockExpires, OthersLock, OthersSettle, Cancel, Resume,
       Dismiss, TypeOK, broker, Locks
  <1>3. CASE LockLost(m) \/ LockExpires(m) \/ OthersLock(m) \/ Cancel \/ Dismiss
    <2>1. /\ UNCHANGED <<place, pc, run>>
          /\ state' \in States /\ cancelled' \in BOOLEAN
      BY <1>3 DEF LockLost, LockExpires, OthersLock, Cancel, Dismiss, TypeOK, States, broker
    <2>2. TypeOK'
      BY <1>1, <1>2, <2>1 DEF TypeOK
    <2> QED
      BY <1>1, <2>1, <2>2, QuietStep DEF Confirmable, OnlyAskedCollected, MayResend
  <1>4. CASE OthersSettle(m)
    <2>1. UNCHANGED <<state, cancelled, pc, run>> /\ place' = [place EXCEPT ![m] = "consumed"]
      BY <1>4 DEF OthersSettle
    <2>2. TypeOK'
      BY <1>1, <1>2, <2>1 DEF TypeOK, Places
    <2>3. TargetPlace' = TargetPlace
      BY <1>1 DEF TargetPlace
    <2>4. \A s \in Seqs : place'[s] # place[s] => place'[s] = "consumed"
      BY <2>1, SbReachAssumption DEF TypeOK, Seqs, Messages
    <2>5. OnlyAskedSettled' /\ NothingLost'
      BY <1>1, <2>3, <2>4 DEF OnlyAskedSettled, NothingLost, IsTarget
    <2> QED
      BY <1>1, <2>1, <2>2, <2>5
         DEF Confirmable, OnlyAskedCollected, OnlyAskedCopied, MayResend
  <1>5. CASE Resume
    <2>1. /\ UNCHANGED <<place>> /\ state' \in States /\ cancelled' = FALSE
          /\ pc' = "collect"
          /\ run' = [FreshRun EXCEPT !.blind = {n \in Seqs : IsParkedBy(n) /\ ~Free(n)}]
      BY <1>5 DEF Resume, States, broker
    <2>2. run' \in RunType
      BY <2>1, FreshRunType
    <2>3. run'.collected = [n \in Seqs |-> 0]
      BY <2>1 DEF FreshRun
    <2>4. TypeOK'
      BY <1>1, <1>2, <2>1, <2>2 DEF TypeOK
    <2>5. OnlyAskedCollected' /\ Confirmable'
      BY <2>1, <2>3 DEF OnlyAskedCollected, Confirmable
    <2> QED
      BY <1>1, <2>1, <2>4, <2>5, QuietStep
  <1> QED
    BY <1>3, <1>4, <1>5

-----------------------------------------------------------------------------

LEMMA SeqsInMessages == Seqs \subseteq Messages /\ Messages # {}
  <1>1. N \in Nat /\ N # 0 /\ F \in Nat
    BY SbReachAssumption
  <1> QED
    BY <1>1 DEF Seqs, Messages

LEMMA Inductive == IInv /\ [Next]_vars => IInv'
  <1> SUFFICES ASSUME IInv, [Next]_vars PROVE IInv'
    OBVIOUS
  <1>0. Seqs \subseteq Messages /\ Messages # {}
    BY SeqsInMessages
  <1>1. CASE Runner
    BY <1>0, <1>1, ParkPhaseKeeps, CollectPhaseKeeps, SendKeeps, CompleteKeeps,
       OtherRunnerStepsKeep, StopsKeep DEF Runner
  <1>2. CASE Environment
    BY <1>2, SendKeeps, CompleteKeeps, StopsKeep, OthersKeep DEF Environment
  <1>3. CASE User \/ \E m \in Messages : LockExpires(m)
    BY <1>0, <1>3, OthersKeep DEF User
  <1>4. CASE Settled \/ UNCHANGED vars
    <2>1. UNCHANGED vars
      BY <1>4 DEF Settled
    <2>2. TypeOK'
      BY <2>1 DEF vars, IInv, TypeOK
    <2> QED
      BY <2>1, <2>2, QuietStep DEF vars, IInv, Confirmable, OnlyAskedCollected, MayResend
  <1> QED
    BY <1>1, <1>2, <1>3, <1>4 DEF Next

-----------------------------------------------------------------------------
(* What is counted and what is ordered.                                    *)

\* A message that is listed is still in the dead-letter queue, and nobody
\* holds a lock on one that left it.
Listed ==
    \A m \in Seqs :
        /\ run.collected[m] > 0 => place[m] = "parked"
        /\ place[m] = "restored" => lock[m] = "free"

\* The runner works while the operation says Running, and forgets at its end.
Working ==
    /\ pc = "idle" <=> state # "Running"
    /\ pc = "idle" => run = [FreshRun EXCEPT !.blind = run.blind]
    /\ pc \in {"park", "collect"} => run.sent = <<>>

OutOfTheWay == {m \in Seqs : m < op.target /\ place[m] \in {"parked", "restored"}}
Capped ==
    /\ Cardinality(OutOfTheWay) <= op.maxParked
    /\ pc = "park" => /\ Cardinality(OutOfTheWay) <= run.parked
                      /\ run.parked <= op.maxParked

\* What was sent went before everything that is still to be sent.
SentFirst ==
    \A i \in DOMAIN run.sent, m \in Pending : RestoresBefore(run.sent[i], m)

\* Where the runner has every stamped message that nobody else holds.
InHand(m) ==
    CASE pc = "park" -> Free(m)
      [] pc = "collect" -> \/ Free(m) \/ m \in run.batch
                           \/ run.collected[m] > 0 \/ m \in run.blind
      [] pc \in {"send", "complete"} -> \/ run.collected[m] > 0 \/ m \in run.blind
                                        \/ run.failed
      [] OTHER -> state = "Completed" => m \in run.blind
Drains == \A m \in Seqs : IsParkedBy(m) => InHand(m)

\* Copies are paid for by interruptions. A message in hand under a held lock
\* may be sent once on top of that, and a cancel still to be observed pays
\* for the copy it leaves unconfirmed.
One(b) == IF b THEN 1 ELSE 0
Unconfirmed(m) == pc = "complete" /\ m = run.sent[Len(run.sent)]
Allowed(m) == lock[m] = "held" /\ (run.collected[m] > 0 \/ m \in run.batch)
\* What a message has cost in all that is not a copy yet.
Account(m) == run.collected[m] + One(m \in run.batch) + One(cancelled /\ pc # "idle")
                  - faults - One(Allowed(m)) - One(Unconfirmed(m))

PaidFor(m) ==
    /\ place[m] = "parked" => Copies(m) + Account(m) <= 0
    /\ place[m] = "restored" => Copies(m) <= 1 + faults
    /\ place[m] \notin {"parked", "restored"} => Copies(m) = 0
Paid == \A m \in Seqs : PaidFor(m)

JInv == /\ Listed /\ Working /\ Capped /\ RestoredCountHonest
        /\ SentFirst /\ RestoreOrdered /\ Drains /\ Paid

LEMMA OneIsBit == \A b : One(b) \in {0, 1}
  BY DEF One

LEMMA SeqFacts ==
    ASSUME TypeOK
    PROVE  /\ faults \in Nat /\ restored \in Nat /\ run.restored \in Nat /\ run.parked \in Nat
           /\ op.maxParked \in Nat /\ op.target \in Seqs
           /\ \A m \in Seqs : /\ m \in Messages /\ m \in Nat
                              /\ run.collected[m] \in Nat /\ lock[m] \in Locks
  <1>1. faults \in Nat /\ restored \in Nat /\ run.restored \in Nat /\ run.parked \in Nat
    BY SbReachAssumption DEF TypeOK, RunType
  <1>2. op.maxParked \in Nat /\ op.target \in Seqs
    BY SbReachAssumption DEF TypeOK
  <1>3. \A m \in Seqs : m \in Messages /\ m \in Nat
    BY SeqsInMessages, SbReachAssumption DEF Seqs
  <1>4. \A m \in Seqs : run.collected[m] \in Nat /\ lock[m] \in Locks
    BY <1>3 DEF TypeOK, RunType
  <1> QED
    BY <1>1, <1>2, <1>3, <1>4

LEMMA CopiesCount ==
    ASSUME TypeOK, NEW m \in Seqs
    PROVE  Copies(m) \in Nat
  <1>1. {i \in DOMAIN tail : tail[i] = m} \subseteq 1..Len(tail) /\ Len(tail) \in Nat
    BY DEF TypeOK
  <1>2. IsFiniteSet(1..Len(tail))
    BY <1>1, FS_Interval
  <1> QED
    BY <1>1, <1>2, FS_Subset, FS_CardinalityType DEF Copies

\* A copy appended for one message is counted for that message alone.
LEMMA CopyAppended ==
    ASSUME TypeOK, NEW m \in Seqs, NEW s \in Seqs, tail' = Append(tail, m)
    PROVE  Copies(s)' = IF s = m THEN Copies(s) + 1 ELSE Copies(s)
  <1> DEFINE Old == {i \in DOMAIN tail : tail[i] = s}
             New == {i \in DOMAIN tail' : tail'[i] = s}
  <1>1. /\ tail \in Seq(Seqs) /\ Len(tail) \in Nat /\ DOMAIN tail = 1..Len(tail)
        /\ DOMAIN tail' = 1..(Len(tail) + 1) /\ tail'[Len(tail) + 1] = m
        /\ \A i \in 1..Len(tail) : tail'[i] = tail[i]
    BY DEF TypeOK
  <1>2. IsFiniteSet(Old) /\ Len(tail) + 1 \notin Old
    <2>1. IsFiniteSet(1..Len(tail))
      BY <1>1, FS_Interval
    <2>2. Old \subseteq 1..Len(tail) /\ Len(tail) + 1 \notin 1..Len(tail)
      BY <1>1
    <2> QED
      BY <2>1, <2>2, FS_Subset
  <1>3. New = IF s = m THEN Old \cup {Len(tail) + 1} ELSE Old
    BY <1>1
  <1>4. Cardinality(Old \cup {Len(tail) + 1}) = Cardinality(Old) + 1
    BY <1>2, FS_AddElement
  <1> QED
    BY <1>3, <1>4 DEF Copies

LEMMA SeqsFinite ==
    /\ IsFiniteSet(Seqs)
    /\ \A S \in SUBSET Seqs : IsFiniteSet(S) /\ Cardinality(S) \in Nat
  <1>1. IsFiniteSet(Seqs)
    BY SbReachAssumption, FS_Interval DEF Seqs
  <1> QED
    BY <1>1, FS_Subset, FS_CardinalityType

LEMMA InitJInv == Init => JInv
  <1> SUFFICES ASSUME Init PROVE JInv
    OBVIOUS
  <1>0. IInv /\ TypeOK
    BY InitIInv DEF IInv
  <1>1. \A m \in Seqs : /\ place[m] \in {"active", "absent"} /\ lock[m] = "free"
                        /\ run.collected[m] = 0
    BY <1>0, SeqFacts DEF Init, FreshRun
  <1>2. Listed
    BY <1>1 DEF Listed
  <1>3. Working
    BY DEF Init, Working, FreshRun
  <1>4. OutOfTheWay = {} /\ {m \in Seqs : place[m] = "restored"} = {}
    BY <1>1 DEF OutOfTheWay
  <1>5. Capped /\ RestoredCountHonest
    <2>1. Cardinality({}) = 0 /\ op.maxParked \in Nat
      BY <1>0, FS_EmptySet, SeqFacts
    <2>2. restored = 0 /\ run.restored = 0 /\ run.parked = 0
      BY DEF Init, FreshRun
    <2> QED
      BY <1>4, <2>1, <2>2 DEF Capped, RestoredCountHonest
  <1>6. SentFirst /\ RestoreOrdered
    BY DEF Init, FreshRun, SentFirst, RestoreOrdered
  <1>7. Drains
    BY <1>1 DEF Drains, IsParkedBy
  <1>8. Paid
    <2> SUFFICES ASSUME NEW m \in Seqs PROVE Copies(m) = 0
      BY <1>1 DEF Paid, PaidFor
    <2>1. {i \in DOMAIN tail : tail[i] = m} = {}
      BY DEF Init
    <2> QED
      BY <2>1, FS_EmptySet DEF Copies
  <1> QED
    BY <1>2, <1>3, <1>5, <1>6, <1>7, <1>8 DEF JInv

\* The order of the copies, as long as nothing is sent or newly listed.
LEMMA OrderKeeps ==
    ASSUME TypeOK, SentFirst, RestoreOrdered, op' = op,
           \/ run'.sent = run.sent /\ (Pending' \subseteq Pending \/ run.sent = <<>>)
           \/ run'.sent = <<>>
    PROVE  SentFirst' /\ RestoreOrdered'
  <1>1. \A a, b \in Seqs : RestoresBefore(a, b)' <=> RestoresBefore(a, b)
    BY DEF RestoresBefore, RestoreRank, IsTarget
  <1>2. CASE run'.sent = <<>>
    BY <1>2 DEF SentFirst, RestoreOrdered
  <1>3. CASE run'.sent = run.sent /\ run.sent # <<>> /\ Pending' \subseteq Pending
    <2>1. \A i \in DOMAIN run.sent : run.sent[i] \in Seqs
      BY DEF TypeOK, RunType
    <2>2. Pending \subseteq Seqs
      BY DEF Pending
    <2> QED
      BY <1>1, <1>3, <2>1, <2>2 DEF SentFirst, RestoreOrdered
  <1> QED
    BY <1>2, <1>3

\* Where no message changes its place, the counted sets stay what they are.
LEMMA CountsKeep ==
    ASSUME Capped, RestoredCountHonest, UNCHANGED <<op, place>>, TypeOK, TypeOK',
           pc' = "park" => pc = "park" /\ run'.parked = run.parked,
           restored' + run'.restored <= restored + run.restored
    PROVE  Capped' /\ RestoredCountHonest'
  <1>1. OutOfTheWay' = OutOfTheWay
    BY DEF OutOfTheWay
  <1>2. Capped'
    BY <1>1 DEF Capped
  <1> DEFINE back == Cardinality({m \in Seqs : place[m] = "restored"})
  <1>3. back' = back /\ back \in Nat /\ restored + run.restored <= back
    BY SeqsFinite DEF RestoredCountHonest
  <1>4. restored \in Nat /\ run.restored \in Nat /\ restored' \in Nat /\ run'.restored \in Nat
    BY DEF TypeOK, RunType
  <1>5. restored' + run'.restored <= back'
    <2> HIDE DEF back
    <2> QED
      BY <1>3, <1>4
  <1> QED
    BY <1>2, <1>5 DEF RestoredCountHonest

\* A runner that stops gives back what it had in hand.
LEMMA StopsJ ==
    ASSUME IInv, IInv', JInv, NEW s \in States \ {"Running"}, RunnerStops(s),
           UNCHANGED <<op, place, tail>>, faults' \in Nat, pc # "idle",
           restored' <= restored + run.restored,
           s = "Completed" => pc = "send" /\ Pending = {} /\ ~run.failed,
           faults' >= faults, pc = "complete" => cancelled \/ faults' > faults
    PROVE  JInv'
  <1>0. TypeOK /\ TypeOK' /\ Confirmable
    BY DEF IInv
  <1>1. /\ pc' = "idle" /\ state' = s /\ run' = [FreshRun EXCEPT !.blind = run.blind]
        /\ run'.collected = [m \in Seqs |-> 0] /\ run'.batch = {} /\ run'.sent = <<>>
        /\ run'.restored = 0 /\ run'.blind = run.blind
        /\ \A m \in Seqs : lock'[m] = IF lock[m] = "held" THEN "other" ELSE lock[m]
    BY <1>0, SeqFacts DEF RunnerStops, FreshRun, AbandonedLocks
  <1>2. Listed' /\ Working'
    BY <1>1 DEF JInv, Listed, Working
  <1>3. Capped' /\ RestoredCountHonest'
    BY <1>0, <1>1, CountsKeep, SeqFacts DEF JInv, TypeOK
  <1>4. SentFirst' /\ RestoreOrdered'
    BY <1>0, <1>1, OrderKeeps DEF JInv
  <1>5. Drains'
    BY <1>1 DEF JInv, Drains, InHand, IsParkedBy, Pending
  <1>6. Paid'
    <2> SUFFICES ASSUME NEW m \in Seqs PROVE PaidFor(m)'
      BY DEF Paid
    <2>1. Copies(m)' = Copies(m) /\ Copies(m) \in Nat
      BY <1>0, CopiesCount DEF Copies
    <2>2. PaidFor(m) /\ faults \in Nat /\ run.collected[m] \in Nat
      BY <1>0, SeqFacts DEF JInv, Paid
    <2>3. Unconfirmed(m) => run.collected[m] > 0 /\ (cancelled \/ faults' > faults)
      BY DEF Unconfirmed, IInv, Confirmable
    <2>4. place[m] = "parked" => Copies(m) <= faults'
      BY <2>1, <2>2, <2>3 DEF PaidFor, Account, One, Allowed
    <2> QED
      BY <1>1, <2>1, <2>2, <2>4 DEF PaidFor, Account, One, Allowed, Unconfirmed
  <1> QED
    BY <1>2, <1>3, <1>4, <1>5, <1>6 DEF JInv

LEMMA StoppingJ ==
    ASSUME IInv, IInv', JInv, SettleLost \/ RestoreDone \/ RunCancelled \/ BrokerFails \/ Crash
    PROVE  JInv'
  <1>1. PICK s \in States \ {"Running"} :
           RunnerStops(s) /\ (s = "Completed" => RestoreDone /\ ~run.failed)
    BY DEF SettleLost, RestoreDone, RunCancelled, BrokerFails, Crash, States
  <1>2. faults \in Nat /\ restored \in Nat /\ run.restored \in Nat
    BY SeqFacts DEF IInv
  <1>3. UNCHANGED <<op, place, tail>> /\ faults' \in Nat /\ faults' >= faults
    BY <1>2 DEF SettleLost, RestoreDone, RunCancelled, BrokerFails, Crash, Fault
  <1>4. restored' <= restored + run.restored
    BY <1>2 DEF SettleLost, RestoreDone, RunCancelled, BrokerFails, Crash
  <1>5. pc # "idle"
    BY DEF SettleLost, RestoreDone, RunCancelled, BrokerFails, Crash, JInv, Working
  <1>6. pc = "complete" => cancelled \/ faults' > faults
    BY <1>2 DEF SettleLost, RestoreDone, RunCancelled, BrokerFails, Crash, Fault
  <1>7. RestoreDone => pc = "send" /\ Pending = {}
    BY DEF RestoreDone
  <1> QED
    BY <1>1, <1>3, <1>4, <1>5, <1>6, <1>7, StopsJ

\* The steps that change no place and append no copy.
LEMMA StillJ ==
    ASSUME IInv, IInv', JInv, UNCHANGED <<op, place, tail>>,
           Listed', Working', Drains',
           pc' = "park" => pc = "park" /\ run'.parked = run.parked,
           restored' + run'.restored <= restored + run.restored,
           \/ run'.sent = run.sent /\ (Pending' \subseteq Pending \/ run.sent = <<>>)
           \/ run'.sent = <<>>,
           faults' \in Nat, faults' >= faults,
           \A m \in Seqs : place[m] = "parked" => Account(m)' <= Account(m)
    PROVE  JInv'
  <1>0. TypeOK /\ TypeOK'
    BY DEF IInv
  <1>1. Capped' /\ RestoredCountHonest'
    BY <1>0, CountsKeep DEF JInv
  <1>2. SentFirst' /\ RestoreOrdered'
    BY <1>0, OrderKeeps DEF JInv
  <1>3. Paid'
    <2> SUFFICES ASSUME NEW m \in Seqs PROVE PaidFor(m)'
      BY DEF Paid
    <2>1. Copies(m)' = Copies(m) /\ Copies(m) \in Nat
      BY <1>0, CopiesCount DEF Copies
    <2>2. PaidFor(m) /\ faults \in Nat /\ run.collected[m] \in Nat /\ run'.collected[m] \in Nat
      BY <1>0, SeqFacts DEF JInv, Paid, TypeOK, RunType
    <2>3. faults' \in Nat /\ faults' >= faults /\ place' = place
      OBVIOUS
    <2>4. CASE place[m] = "parked"
      <3>1. Account(m)' <= Account(m) /\ Copies(m) + Account(m) <= 0
        BY <2>2, <2>4 DEF PaidFor
      <3>2. Account(m) \in Int /\ Account(m)' \in Int
        BY <2>2, <2>3 DEF Account, One
      <3>3. Copies(m)' + Account(m)' <= 0
        BY <2>1, <3>1, <3>2
      <3> QED
        BY <2>3, <2>4, <3>3 DEF PaidFor
    <2>5. CASE place[m] # "parked"
      BY <2>1, <2>2, <2>3, <2>5 DEF PaidFor
    <2> QED
      BY <2>4, <2>5
  <1> QED
    BY <1>1, <1>2, <1>3 DEF JInv

LEMMA ReceiveJ ==
    ASSUME IInv, IInv', JInv, ParkReceive \/ CollectReceive
    PROVE  JInv'
  <1>0. TypeOK
    BY DEF IInv
  <1>1. PICK B \in SUBSET Messages :
          /\ run' = [run EXCEPT !.batch = B]
          /\ lock' = [m \in Messages |-> IF m \in B THEN "held" ELSE lock[m]]
          /\ \A m \in B : lock[m] = "free" /\ (pc = "park" => place[m] = "active")
          /\ \A m \in B : place[m] \in {"active", "parked", "deadLettered", "foreign"}
    <2>1. Receivable \subseteq Messages /\ DlqReceivable \subseteq Messages
      BY SeqsInMessages DEF Receivable, DlqReceivable
    <2>2. CASE ParkReceive
      BY <2>1, <2>2 DEF ParkReceive, Receivable, Free
    <2>3. CASE CollectReceive
      BY <2>1, <2>3 DEF CollectReceive, DlqReceivable, Free, InDlq
    <2> QED
      BY <2>2, <2>3
  <1>2. /\ UNCHANGED <<op, state, restored, cancelled, place, tail, pc, faults>>
        /\ pc \in {"park", "collect"} /\ run.batch = {}
    BY DEF ParkReceive, CollectReceive
  <1>3. /\ run'.batch = B /\ run'.collected = run.collected /\ run'.sent = run.sent
        /\ run'.restored = run.restored /\ run'.parked = run.parked /\ run'.blind = run.blind
    BY <1>0, <1>1 DEF TypeOK, RunType
  <1>4. \A m \in Seqs : lock'[m] = IF m \in B THEN "held" ELSE lock[m]
    BY <1>0, <1>1, SeqFacts
  <1>5. Listed' /\ Working'
    BY <1>1, <1>2, <1>3, <1>4 DEF JInv, Listed, Working
  <1>6. Drains'
    BY <1>1, <1>2, <1>3, <1>4 DEF JInv, Drains, InHand, IsParkedBy, Free
  <1>7. Pending' = Pending
    BY <1>3 DEF Pending
  <1>8. ASSUME NEW m \in Seqs, place[m] = "parked"
        PROVE  Account(m)' <= Account(m)
    <2>1. /\ ~Unconfirmed(m) /\ ~Unconfirmed(m)'
      BY <1>2 DEF Unconfirmed
    <2>2. m \in B => Allowed(m)' /\ ~Allowed(m)
      BY <1>1, <1>3, <1>4 DEF Allowed
    <2>3. m \notin B => Allowed(m)' = Allowed(m)
      BY <1>2, <1>3, <1>4 DEF Allowed
    <2>4. m \in Messages /\ run.collected[m] \in Nat /\ faults \in Nat
      BY <1>0, SeqFacts
    <2> QED
      BY <1>2, <1>3, <2>1, <2>2, <2>3, <2>4 DEF Account, One
  <1>9. restored \in Nat /\ run.restored \in Nat /\ faults \in Nat
    BY <1>0, SeqFacts
  <1>10. pc' = "park" => pc = "park" /\ run'.parked = run.parked
    BY <1>2, <1>3
  <1>11. restored' + run'.restored <= restored + run.restored /\ faults' \in Nat /\ faults' >= faults
    BY <1>2, <1>3, <1>9
  <1> QED
    BY <1>2, <1>3, <1>5, <1>6, <1>7, <1>8, <1>10, <1>11, StillJ

\* The collecting, and what is found settled already.
LEMMA CollectJ ==
    ASSUME IInv, IInv', JInv, NEW m \in Messages,
           Abandon(m) \/ CollectDone \/ (m \in Seqs /\ (Collect(m) \/ CompleteLost(m)))
    PROVE  JInv'
  <1>0. TypeOK /\ TypeOK' /\ faults \in Nat /\ restored \in Nat /\ run.restored \in Nat
    BY SeqFacts DEF IInv
  <1>1. UNCHANGED <<op, place, tail, state, restored, cancelled, faults>>
    BY DEF Abandon, Collect, CompleteLost, CollectDone, broker
  <1>2. CASE Abandon(m)
    <2>1. /\ pc = "collect" /\ pc' = pc /\ ~IsParkedBy(m)
          /\ run'.batch = run.batch \ {m} /\ run'.collected = run.collected
          /\ run'.sent = run.sent /\ run'.restored = run.restored
          /\ run'.blind = run.blind /\ run'.parked = run.parked
          /\ \A s \in Seqs : lock'[s] = IF s = m THEN "free" ELSE lock[s]
      BY <1>0, <1>2, SeqFacts DEF Abandon, TypeOK, RunType
    <2>2. Listed' /\ Working'
      BY <1>1, <2>1 DEF JInv, Listed, Working
    <2>3. Drains'
      BY <1>1, <2>1 DEF JInv, Drains, InHand, IsParkedBy, Free
    <2>4. \A s \in Seqs : place[s] = "parked" => Account(s)' = Account(s)
      BY <1>1, <2>1 DEF Account, Allowed, Unconfirmed, IsParkedBy
    <2>5. \A s \in Seqs : Account(s) \in Int
      BY <1>0, SeqFacts DEF Account, One
    <2>6. Pending' = Pending
      BY <2>1 DEF Pending
    <2> QED
      BY <1>0, <1>1, <2>1, <2>2, <2>3, <2>4, <2>5, <2>6, StillJ
  <1>3. CASE m \in Seqs /\ Collect(m)
    <2>1. /\ pc = "collect" /\ pc' = pc /\ IsParkedBy(m) /\ m \in run.batch /\ lock' = lock
          /\ run'.batch = run.batch \ {m}
          /\ run'.sent = run.sent /\ run'.restored = run.restored
          /\ run'.blind = run.blind /\ run'.parked = run.parked
          /\ \A s \in Seqs : run'.collected[s] = IF s = m THEN run.collected[s] + 1
                                                          ELSE run.collected[s]
      BY <1>0, <1>3 DEF Collect, TypeOK, RunType, broker
    <2>2. run.collected[m] \in Nat
      BY <1>0, <1>3, SeqFacts
    <2>3. Listed' /\ Working'
      BY <1>1, <2>1, <2>2 DEF JInv, Listed, Working, IsParkedBy
    <2>4. Drains'
      BY <1>1, <2>1, <2>2 DEF JInv, Drains, InHand, IsParkedBy, Free
    <2>5. \A s \in Seqs : Account(s)' = Account(s)
      <3> SUFFICES ASSUME NEW s \in Seqs PROVE Account(s)' = Account(s)
        OBVIOUS
      <3>1. Allowed(s)' <=> Allowed(s)
        BY <2>1, <2>2 DEF Allowed
      <3>2. ~Unconfirmed(s) /\ ~Unconfirmed(s)'
        BY <2>1 DEF Unconfirmed
      <3>3. run.collected[s] \in Nat
        BY <1>0, SeqFacts
      <3> QED
        BY <1>0, <1>1, <2>1, <3>1, <3>2, <3>3 DEF Account, One
    <2>6. \A s \in Seqs : Account(s) \in Int
      BY <1>0, SeqFacts DEF Account, One
    <2>7. run.sent = <<>>
      BY <2>1 DEF JInv, Working
    <2> QED
      BY <1>0, <1>1, <2>1, <2>3, <2>4, <2>5, <2>6, <2>7, StillJ
  <1>4. CASE CollectDone
    <2>1. /\ pc = "collect" /\ pc' = "send" /\ run.batch = {} /\ run' = run
          /\ DlqReceivable = {} /\ lock' = lock
      BY <1>4 DEF CollectDone, broker
    <2>2. Listed' /\ Working'
      BY <1>1, <2>1 DEF JInv, Listed, Working
    <2>3. \A s \in Seqs : IsParkedBy(s) => ~Free(s)
      BY <1>0, <2>1, SeqFacts DEF DlqReceivable, InDlq, IsParkedBy
    <2>4. Drains'
      BY <1>1, <2>1, <2>3 DEF JInv, Drains, InHand, IsParkedBy
    <2>5. \A s \in Seqs : Account(s)' = Account(s) /\ Account(s) \in Int
      BY <1>0, <1>1, <2>1, SeqFacts DEF Account, Allowed, Unconfirmed, One
    <2>6. Pending' = Pending
      BY <2>1 DEF Pending
    <2> QED
      BY <1>0, <1>1, <2>1, <2>2, <2>4, <2>5, <2>6, StillJ
  <1>5. CASE m \in Seqs /\ CompleteLost(m)
    <2>1. /\ pc = "complete" /\ pc' = "send" /\ lock' = lock /\ ~OwnsLock(m)
          /\ m = run.sent[Len(run.sent)] /\ run.collected[m] > 0
          /\ run'.batch = run.batch /\ run'.failed
          /\ run'.sent = run.sent /\ run'.restored = run.restored
          /\ run'.blind = run.blind /\ run'.parked = run.parked
          /\ \A s \in Seqs : run'.collected[s] = IF s = m THEN run.collected[s] - 1
                                                          ELSE run.collected[s]
      BY <1>0, <1>5 DEF CompleteLost, Confirming, IInv, Confirmable, TypeOK, RunType, broker
    <2>2. run.collected[m] \in Nat
      BY <1>0, <1>5, SeqFacts
    <2>3. Listed' /\ Working'
      BY <1>1, <2>1, <2>2 DEF JInv, Listed, Working
    <2>4. Drains'
      BY <1>1, <2>1 DEF JInv, Drains, InHand, IsParkedBy
    <2>5. \A s \in Seqs : Account(s)' <= Account(s)
      <3> SUFFICES ASSUME NEW s \in Seqs PROVE Account(s)' <= Account(s)
        OBVIOUS
      <3>1. run.collected[s] \in Nat
        BY <1>0, SeqFacts
      <3>2. Allowed(s) => Allowed(s)'
        BY <2>1, <2>2, <3>1 DEF Allowed, OwnsLock
      <3>3. ~Unconfirmed(s)' /\ (Unconfirmed(s) <=> s = m)
        BY <2>1 DEF Unconfirmed
      <3>4. CASE s = m
        <4>1. run'.collected[s] = run.collected[s] - 1
          BY <2>1, <3>4
        <4>2. Unconfirmed(s) /\ One(Allowed(s)) <= One(Allowed(s)')
          BY <3>2, <3>3, <3>4 DEF One
        <4> QED
          BY <1>0, <1>1, <2>1, <3>1, <3>3, <4>1, <4>2 DEF Account, One
      <3>5. CASE s # m
        <4>1. run'.collected[s] = run.collected[s]
          BY <2>1, <3>5
        <4>2. ~Unconfirmed(s) /\ One(Allowed(s)) <= One(Allowed(s)')
          BY <3>2, <3>3, <3>5 DEF One
        <4> QED
          BY <1>0, <1>1, <2>1, <3>1, <3>3, <4>1, <4>2 DEF Account, One
      <3> QED
        BY <3>4, <3>5
    <2>6. Pending' \subseteq Pending
      BY <2>1, <2>2 DEF Pending
    <2> QED
      BY <1>0, <1>1, <2>1, <2>3, <2>4, <2>5, <2>6, StillJ
  <1> QED
    BY <1>2, <1>3, <1>4, <1>5

\* Locks and the user, and a parking that only goes over to the restore.
LEMMA OthersJ ==
    ASSUME IInv, IInv', JInv, NEW m \in Messages,
           \/ LockLost(m) \/ LockExpires(m) \/ OthersLock(m) \/ Cancel
           \/ Dismiss \/ UNCHANGED vars \/ (ParkDone /\ run.reached)
    PROVE  JInv'
  <1>0. TypeOK /\ faults \in Nat /\ restored \in Nat /\ run.restored \in Nat
    BY SeqFacts DEF IInv
  <1>1. /\ UNCHANGED <<op, place, tail, restored, run>>
        /\ pc' = pc \/ (pc = "park" /\ pc' = "collect" /\ run.batch = {})
        /\ state' = state \/ (Dismiss /\ pc' = pc)
    BY DEF LockLost, LockExpires, OthersLock, Cancel, Dismiss, vars, ParkDone, broker
  <1>2. /\ faults' \in {faults, faults + 1}
        /\ cancelled' # cancelled => cancelled' = TRUE /\ faults' = faults + 1
    BY DEF LockLost, LockExpires, OthersLock, Cancel, Dismiss, vars, ParkDone, Fault
  <1>3. \A s \in Seqs :
           \/ lock'[s] = lock[s]
           \/ lock'[s] = "free" /\ lock[s] = "held" /\ faults' = faults + 1
           \/ lock'[s] = "free" /\ lock[s] = "other"
           \/ lock'[s] = "other" /\ lock[s] = "free" /\ place[s] = "active"
    <2>1. CASE LockLost(m)
      BY <1>0, <2>1, SeqFacts DEF LockLost, Cancel, Fault, TypeOK
    <2>2. CASE LockExpires(m) \/ OthersLock(m)
      BY <1>0, <2>2, SeqFacts DEF LockExpires, OthersLock, Free, TypeOK
    <2>3. CASE ~LockLost(m) /\ ~LockExpires(m) /\ ~OthersLock(m)
      BY <2>3 DEF Cancel, Dismiss, vars, ParkDone, broker
    <2> QED
      BY <2>1, <2>2, <2>3
  <1>4. LockLost(m) \/ LockExpires(m) \/ OthersLock(m) => cancelled' = cancelled
    BY DEF LockLost, LockExpires, OthersLock
  <1>5. lock' # lock => LockLost(m) \/ LockExpires(m) \/ OthersLock(m)
    BY DEF LockLost, LockExpires, OthersLock, Cancel, Dismiss, vars, ParkDone, broker
  <1>6. Dismiss => state # "Running" /\ state' = "Dismissed"
    BY DEF Dismiss, Resumable
  <1>7. Listed' /\ Working'
    BY <1>1, <1>3, <1>6 DEF JInv, Listed, Working
  <1>8. Drains'
    BY <1>1, <1>3, <1>6 DEF JInv, Drains, InHand, IsParkedBy, Free
  <1>9. \A s \in Seqs : place[s] = "parked" => Account(s)' <= Account(s)
    <2> SUFFICES ASSUME NEW s \in Seqs, place[s] = "parked"
                 PROVE  Account(s)' <= Account(s)
      OBVIOUS
    <2>1. run.collected[s] \in Nat
      BY <1>0, SeqFacts
    <2>2. Unconfirmed(s)' <=> Unconfirmed(s)
      BY <1>1 DEF Unconfirmed
    <2>3. Allowed(s) /\ ~Allowed(s)' => faults' = faults + 1 /\ cancelled' = cancelled
      BY <1>1, <1>3, <1>4, <1>5 DEF Allowed
    <2>4. pc' = "idle" <=> pc = "idle"
      BY <1>1
    <2> QED
      BY <1>0, <1>1, <1>2, <2>1, <2>2, <2>3, <2>4 DEF Account, One
  <1>10. Pending' = Pending
    BY <1>1 DEF Pending
  <1> QED
    BY <1>0, <1>1, <1>2, <1>7, <1>8, <1>9, <1>10, StillJ

LEMMA ResumeJ ==
    ASSUME IInv, IInv', JInv, Resume
    PROVE  JInv'
  <1>0. TypeOK /\ faults \in Nat /\ restored \in Nat /\ run.restored \in Nat
    BY SeqFacts DEF IInv
  <1>1. /\ UNCHANGED <<op, place, lock, tail, restored, faults>>
        /\ state # "Running" /\ state' = "Running" /\ ~cancelled' /\ pc' = "collect"
    BY DEF Resume, Resumable, broker
  <1>2. /\ run'.batch = {} /\ run'.collected = [m \in Seqs |-> 0] /\ run'.sent = <<>>
        /\ run'.restored = 0 /\ run'.blind = {m \in Seqs : IsParkedBy(m) /\ ~Free(m)}
    BY DEF Resume, FreshRun
  <1>3. pc = "idle" /\ run.batch = {} /\ run.collected = [m \in Seqs |-> 0]
    BY <1>1 DEF JInv, Working, FreshRun
  <1>4. Listed' /\ Working'
    BY <1>1, <1>2 DEF JInv, Listed, Working
  <1>5. Drains'
    BY <1>1, <1>2 DEF JInv, Drains, InHand, IsParkedBy, Free
  <1>6. \A m \in Seqs : Account(m)' = Account(m) /\ Account(m) \in Int
    BY <1>0, <1>1, <1>2, <1>3 DEF Account, Allowed, Unconfirmed, One
  <1> QED
    BY <1>0, <1>1, <1>2, <1>4, <1>5, <1>6, StillJ

\* A release only gives one message of the batch back.
LEMMA ReleaseJ ==
    ASSUME IInv, IInv', JInv, NEW m \in Seqs, Release(m)
    PROVE  JInv'
  <1>0. TypeOK /\ faults \in Nat /\ restored \in Nat /\ run.restored \in Nat /\ m \in Messages
    BY SeqFacts DEF IInv
  <1>1. /\ UNCHANGED <<op, state, restored, cancelled, place, tail, pc, faults>>
        /\ pc = "park" /\ m \in run.batch
    BY DEF Release, Handling, First
  <1>2. /\ run'.batch = run.batch \ {m} /\ run'.collected = run.collected
        /\ run'.sent = run.sent /\ run'.restored = run.restored
        /\ run'.blind = run.blind /\ run'.parked = run.parked
        /\ \A s \in Seqs : lock'[s] = IF s = m THEN "free" ELSE lock[s]
    BY <1>0, SeqFacts DEF Release, TypeOK, RunType
  <1>3. Listed' /\ Working'
    BY <1>1, <1>2 DEF JInv, Listed, Working
  <1>4. Drains'
    BY <1>1, <1>2 DEF JInv, Drains, InHand, IsParkedBy, Free
  <1>5. \A s \in Seqs : place[s] = "parked" => lock[s] = "free"
    BY <1>1 DEF JInv, Drains, InHand, IsParkedBy, Free
  <1>6. \A s \in Seqs : place[s] = "parked" => Account(s)' <= Account(s)
    <2> SUFFICES ASSUME NEW s \in Seqs, place[s] = "parked"
                 PROVE  Account(s)' <= Account(s)
      OBVIOUS
    <2>1. ~Allowed(s) /\ ~Allowed(s)' /\ ~Unconfirmed(s) /\ ~Unconfirmed(s)'
      BY <1>1, <1>2, <1>5 DEF Allowed, Unconfirmed
    <2>2. run.collected[s] \in Nat
      BY <1>0, SeqFacts
    <2> QED
      BY <1>0, <1>1, <1>2, <2>1, <2>2 DEF Account, One
  <1>7. Pending' = Pending
    BY <1>2 DEF Pending
  <1> QED
    BY <1>0, <1>1, <1>2, <1>3, <1>4, <1>6, <1>7, StillJ

\* Taking one message out of the way, or acting on the target.
LEMMA ParkJ ==
    ASSUME IInv, IInv', JInv, NEW m \in Seqs, Park(m) \/ ActOnReachTarget(m)
    PROVE  JInv'
  <1>0. TypeOK /\ TypeOK' /\ m \in Messages
    BY SeqFacts DEF IInv
  <1>1. /\ UNCHANGED <<op, state, restored, cancelled, tail, pc, faults>>
        /\ pc = "park" /\ ~cancelled /\ m \in run.batch /\ lock[m] = "held"
    BY DEF Park, ActOnReachTarget, Handling, First
  <1>2. /\ run'.batch = run.batch \ {m} /\ run'.collected = run.collected
        /\ run'.sent = run.sent /\ run'.restored = run.restored /\ run'.blind = run.blind
        /\ \A s \in Seqs : lock'[s] = IF s = m THEN "free" ELSE lock[s]
    BY <1>0, SeqFacts DEF Park, ActOnReachTarget, TypeOK, RunType
  <1>3. /\ \A s \in Seqs : s # m => place'[s] = place[s]
        /\ place'[m] \in {"completed", "deadLettered", "parked"}
        /\ ActOnReachTarget(m) => m = op.target
    <2>1. TargetPlace \in {"completed", "deadLettered", "parked"}
      BY <1>0, SbReachAssumption DEF TargetPlace, TypeOK
    <2>2. CASE Park(m)
      <3>1. place' = [place EXCEPT ![m] = "parked"] /\ m < op.target
        BY <2>2 DEF Park
      <3>2. ~ActOnReachTarget(m)
        BY <1>0, <3>1, SeqFacts DEF ActOnReachTarget, IsTarget
      <3> QED
        BY <1>0, <3>1, <3>2, SeqFacts DEF TypeOK
    <2>3. CASE ActOnReachTarget(m)
      <3>1. place' = [place EXCEPT ![m] = TargetPlace] /\ m = op.target
        BY <2>3 DEF ActOnReachTarget, IsTarget
      <3> QED
        BY <1>0, <2>1, <3>1, SeqFacts DEF TypeOK
    <2> QED
      BY <2>2, <2>3
  <1>4. place[m] \notin {"parked", "restored"}
    BY <1>1 DEF JInv, Drains, InHand, IsParkedBy, Free, Listed
  <1>5. run.sent = <<>> /\ run.collected[m] = 0
    BY <1>0, <1>1, <1>4, SeqFacts DEF JInv, Working, Listed
  <1>6. Listed' /\ Working'
    BY <1>1, <1>2, <1>3, <1>5 DEF JInv, Listed, Working
  <1>7. Drains'
    BY <1>1, <1>2, <1>3 DEF JInv, Drains, InHand, IsParkedBy, Free
  <1>8. SentFirst' /\ RestoreOrdered'
    BY <1>0, <1>1, <1>2, <1>5, OrderKeeps DEF JInv
  <1>9. Paid'
    <2> SUFFICES ASSUME NEW s \in Seqs PROVE PaidFor(s)'
      BY DEF Paid
    <2>1. Copies(s)' = Copies(s) /\ PaidFor(s)
      BY <1>1 DEF Copies, JInv, Paid
    <2>2. ~Unconfirmed(s) /\ ~Unconfirmed(s)' /\ faults \in Nat /\ run.collected[s] \in Nat
      BY <1>0, <1>1, SeqFacts DEF Unconfirmed
    <2>3. CASE s = m
      <3>1. Copies(m) = 0 /\ ~Allowed(m)' /\ m \notin run'.batch
        BY <1>2, <1>4, <2>1, <2>3 DEF PaidFor, Allowed
      <3>2. Account(m)' = 0 - faults
        BY <1>1, <1>2, <1>5, <2>2, <2>3, <3>1 DEF Account, One
      <3> QED
        BY <1>3, <2>1, <2>2, <2>3, <3>1, <3>2 DEF PaidFor
    <2>4. CASE s # m
      <3>1. Account(s)' = Account(s) /\ place'[s] = place[s]
        BY <1>1, <1>2, <1>3, <2>2, <2>4 DEF Account, Allowed, One
      <3> QED
        BY <1>1, <2>1, <3>1 DEF PaidFor
    <2> QED
      BY <2>3, <2>4
  <1>10. RestoredCountHonest'
    <2>1. {s \in Seqs : place'[s] = "restored"} = {s \in Seqs : place[s] = "restored"}
      BY <1>3, <1>4
    <2> QED
      BY <1>1, <1>2, <2>1 DEF JInv, RestoredCountHonest
  <1>11. Capped'
    <2>1. IsFiniteSet(OutOfTheWay) /\ Cardinality(OutOfTheWay) \in Nat
      BY SeqsFinite DEF OutOfTheWay
    <2>2. CASE Park(m)
      <3>1. OutOfTheWay' = OutOfTheWay \cup {m} /\ m \notin OutOfTheWay
        BY <1>0, <1>1, <1>3, <1>4, <2>2 DEF OutOfTheWay, Park, TypeOK
      <3>2. Cardinality(OutOfTheWay') = Cardinality(OutOfTheWay) + 1
        BY <2>1, <3>1, FS_AddElement
      <3>3. run'.parked = run.parked + 1 /\ run.parked < op.maxParked
        BY <1>0, <2>2 DEF Park, TypeOK, RunType
      <3> QED
        BY <1>0, <1>1, <2>1, <3>2, <3>3, SeqFacts DEF JInv, Capped
    <2>3. CASE ActOnReachTarget(m)
      <3>1. OutOfTheWay' = OutOfTheWay
        BY <1>0, <1>1, <1>3, <2>3, SeqFacts DEF OutOfTheWay
      <3>2. run'.parked = run.parked
        BY <1>0, <2>3 DEF ActOnReachTarget, TypeOK, RunType
      <3> QED
        BY <1>1, <3>1, <3>2 DEF JInv, Capped
    <2> QED
      BY <2>2, <2>3
  <1> QED
    BY <1>6, <1>7, <1>8, <1>9, <1>10, <1>11 DEF JInv

\* Someone else settles a message that nothing stamped.
LEMMA OthersSettleJ ==
    ASSUME IInv, IInv', JInv, NEW m \in Messages, OthersSettle(m)
    PROVE  JInv'
  <1>0. TypeOK /\ TypeOK'
    BY DEF IInv
  <1>1. /\ UNCHANGED <<op, state, restored, cancelled, tail, pc, run, faults>>
        /\ place[m] \notin {"parked", "restored"}
        /\ \A s \in Seqs : /\ place'[s] = IF s = m THEN "consumed" ELSE place[s]
                           /\ lock'[s] = IF s = m THEN "free" ELSE lock[s]
    BY <1>0, SeqFacts DEF OthersSettle, TypeOK
  <1>2. Listed' /\ Working'
    BY <1>1 DEF JInv, Listed, Working
  <1>3. Drains'
    BY <1>1 DEF JInv, Drains, InHand, IsParkedBy, Free
  <1>4. SentFirst' /\ RestoreOrdered'
    <2>1. Pending' = Pending
      BY <1>1 DEF Pending
    <2> QED
      BY <1>0, <1>1, <2>1, OrderKeeps DEF JInv
  <1>5. OutOfTheWay' = OutOfTheWay
    BY <1>1 DEF OutOfTheWay
  <1>6. {s \in Seqs : place'[s] = "restored"} = {s \in Seqs : place[s] = "restored"}
    BY <1>1
  <1>7. Capped' /\ RestoredCountHonest'
    BY <1>1, <1>5, <1>6 DEF JInv, Capped, RestoredCountHonest
  <1>8. Paid'
    <2> SUFFICES ASSUME NEW s \in Seqs PROVE PaidFor(s)'
      BY DEF Paid
    <2>1. Copies(s)' = Copies(s) /\ PaidFor(s)
      BY <1>1 DEF Copies, JInv, Paid
    <2>2. s # m => Account(s)' = Account(s)
      BY <1>1 DEF Account, Allowed, Unconfirmed
    <2> QED
      BY <1>1, <2>1, <2>2 DEF PaidFor
  <1> QED
    BY <1>2, <1>3, <1>4, <1>7, <1>8 DEF JInv

\* A copy goes out: it is the next in order, and one more to pay for.
LEMMA SendJ ==
    ASSUME IInv, IInv', JInv, NEW m \in Seqs, Send(m) \/ SendFails(m)
    PROVE  JInv'
  <1>0. TypeOK /\ TypeOK' /\ faults \in Nat /\ restored \in Nat /\ run.restored \in Nat
    BY SeqFacts DEF IInv
  <1>1. /\ UNCHANGED <<op, state, restored, cancelled, place, lock>>
        /\ pc = "send" /\ pc' \in {"send", "complete"} /\ ~cancelled
        /\ m \in Pending /\ \A s \in Pending : RestoresBefore(m, s)
        /\ Send(m) => pc' = "complete" /\ faults' = faults
        /\ SendFails(m) => pc' = "send" /\ faults' = faults + 1
    BY DEF Send, SendFails, Fault, Sending, NextToSend
  <1>2. run.collected[m] > 0 /\ run.collected[m] \in Nat
    BY <1>0, <1>1, SeqFacts DEF Pending
  <1>3. /\ run'.batch = run.batch /\ run'.restored = run.restored
        /\ run'.blind = run.blind /\ run'.parked = run.parked
        /\ Send(m) => /\ run'.collected = run.collected /\ run'.failed = run.failed
                      /\ run'.sent = Append(run.sent, m)
        /\ SendFails(m) => run'.sent = run.sent /\ run'.failed
    BY <1>0 DEF Send, SendFails, TypeOK, RunType
  <1>4. \A s \in Seqs : run'.collected[s] =
           IF SendFails(m) /\ s = m THEN run.collected[s] - 1 ELSE run.collected[s]
    <2>1. CASE SendFails(m)
      BY <1>0, <2>1 DEF SendFails, TypeOK, RunType
    <2>2. CASE ~SendFails(m)
      BY <1>3, <2>2
    <2> QED
      BY <2>1, <2>2
  <1>5. Listed' /\ Working'
    BY <1>1, <1>2, <1>3, <1>4 DEF JInv, Listed, Working
  <1>6. Drains'
    <2>1. CASE Send(m)
      BY <1>1, <1>3, <2>1 DEF JInv, Drains, InHand, IsParkedBy
    <2>2. CASE SendFails(m)
      BY <1>1, <1>3, <2>2 DEF Drains, InHand
    <2> QED
      BY <2>1, <2>2
  <1>7. SentFirst' /\ RestoreOrdered'
    <2>1. CASE SendFails(m)
      <3>1. Pending' \subseteq Pending
        BY <1>2, <1>4 DEF Pending
      <3> QED
        BY <1>0, <1>1, <1>3, <2>1, <3>1, OrderKeeps DEF JInv
    <2>2. CASE Send(m)
      <3>2. Pending' = Pending /\ Pending \subseteq Seqs
        BY <1>3, <2>2 DEF Pending
      <3>3. /\ run.sent \in Seq(Seqs) /\ Len(run.sent) \in Nat
            /\ DOMAIN run.sent = 1..Len(run.sent)
            /\ DOMAIN run'.sent = 1..(Len(run.sent) + 1)
            /\ run'.sent[Len(run.sent) + 1] = m
            /\ \A i \in 1..Len(run.sent) : run'.sent[i] = run.sent[i] /\ run.sent[i] \in Seqs
        <4>1. run.sent \in Seq(Seqs) /\ run'.sent = Append(run.sent, m)
          BY <1>0, <1>3, <2>2 DEF TypeOK, RunType
        <4> QED
          BY <4>1
      <3>4. SentFirst'
        <4> SUFFICES ASSUME NEW i \in DOMAIN run'.sent, NEW s \in Pending'
                     PROVE  RestoresBefore(run.sent[i], s)'
          BY DEF SentFirst
        <4>1. CASE i \in 1..Len(run.sent)
          <5>1. RestoresBefore(run.sent[i], s) /\ run'.sent[i] = run.sent[i]
            BY <3>2, <3>3, <4>1 DEF JInv, SentFirst
          <5> QED
            BY <1>1, <5>1 DEF RestoresBefore, RestoreRank, IsTarget
        <4>2. CASE i = Len(run.sent) + 1
          <5>1. RestoresBefore(m, s) /\ run'.sent[i] = m
            BY <1>1, <3>2, <3>3, <4>2
          <5> QED
            BY <1>1, <5>1 DEF RestoresBefore, RestoreRank, IsTarget
        <4> QED
          BY <3>3, <4>1, <4>2
      <3>5. RestoreOrdered'
        <4> SUFFICES ASSUME NEW i \in DOMAIN run'.sent, NEW j \in DOMAIN run'.sent, i < j
                     PROVE  RestoresBefore(run.sent[i], run.sent[j])'
          BY DEF RestoreOrdered
        <4>1. i \in 1..Len(run.sent)
          BY <3>3
        <4>2. CASE j \in 1..Len(run.sent)
          <5>1. /\ RestoresBefore(run.sent[i], run.sent[j])
                /\ run'.sent[i] = run.sent[i] /\ run'.sent[j] = run.sent[j]
            BY <3>3, <4>1, <4>2 DEF JInv, RestoreOrdered
          <5> QED
            BY <1>1, <5>1 DEF RestoresBefore, RestoreRank, IsTarget
        <4>3. CASE j = Len(run.sent) + 1
          <5>1. /\ RestoresBefore(run.sent[i], m)
                /\ run'.sent[i] = run.sent[i] /\ run'.sent[j] = m
            BY <1>1, <3>3, <4>1, <4>3 DEF JInv, SentFirst
          <5> QED
            BY <1>1, <5>1 DEF RestoresBefore, RestoreRank, IsTarget
        <4> QED
          BY <3>3, <4>2, <4>3
      <3> QED
        BY <3>4, <3>5
    <2> QED
      BY <2>1, <2>2
  <1>8. Capped' /\ RestoredCountHonest'
    BY <1>0, <1>1, <1>3, CountsKeep DEF JInv
  <1>9. Paid'
    <2> SUFFICES ASSUME NEW s \in Seqs PROVE PaidFor(s)'
      BY DEF Paid
    <2>1. /\ Copies(s) \in Nat /\ run.collected[s] \in Nat /\ PaidFor(s)
      BY <1>0, SeqFacts, CopiesCount DEF JInv, Paid
    <2>2. /\ Copies(s)' = Copies(s) \/ (s = m /\ Copies(s)' = Copies(s) + 1)
      <3>1. CASE tail' = tail
        BY <3>1 DEF Copies
      <3>2. CASE tail' = Append(tail, m)
        BY <1>0, <3>2, CopyAppended
      <3> QED
        BY <3>1, <3>2 DEF Send, SendFails
    <2>3. ~Unconfirmed(s) /\ (Unconfirmed(s)' <=> Send(m) /\ s = m)
      <3>1. Send(m) => run'.sent[Len(run'.sent)] = m
        <4>1. run.sent \in Seq(Seqs)
          BY <1>0 DEF TypeOK, RunType
        <4> QED
          BY <1>3, <4>1
      <3>2. Send(m) \/ SendFails(m)
        OBVIOUS
      <3> QED
        BY <1>1, <3>1, <3>2 DEF Unconfirmed
    <2>4. CASE s # m
      <3>1. Copies(s)' = Copies(s) /\ faults' >= faults /\ faults' \in Nat
        BY <1>0, <1>1, <2>2, <2>4
      <3>2. run'.collected[s] = run.collected[s] /\ Allowed(s)' = Allowed(s)
        BY <1>1, <1>3, <1>4, <2>4 DEF Allowed
      <3>3. Account(s)' <= Account(s) /\ Account(s) \in Int /\ Account(s)' \in Int
        BY <1>0, <1>1, <1>3, <2>1, <2>3, <2>4, <3>1, <3>2 DEF Account, One
      <3> QED
        BY <1>0, <1>1, <2>1, <3>1, <3>3 DEF PaidFor
    <2>5. CASE s = m
      <3>1. place[m] = "parked" /\ place' = place
        BY <1>1, <1>2 DEF JInv, Listed
      <3>2. CASE Send(m)
        <4>1. Allowed(m)' = Allowed(m) /\ run'.collected[m] = run.collected[m]
          BY <1>1, <1>3, <3>2 DEF Allowed
        <4>2. Account(m)' = Account(m) - 1 /\ Account(m) \in Int
          BY <1>0, <1>1, <1>2, <1>3, <2>3, <2>5, <3>2, <4>1 DEF Account, One
        <4> QED
          BY <1>1, <2>1, <2>2, <2>5, <3>1, <4>2 DEF PaidFor
      <3>3. CASE SendFails(m)
        <4>1. run'.collected[m] = run.collected[m] - 1 /\ faults' = faults + 1
          BY <1>1, <1>4, <3>3
        <4>2. ~Unconfirmed(m) /\ ~Unconfirmed(m)' /\ One(Allowed(m)') >= One(Allowed(m)) - 1
          BY <1>1, <2>3, <2>5, <3>3 DEF Unconfirmed, One
        <4>3. Account(m)' <= Account(m) - 1 /\ Account(m) \in Int /\ Account(m)' \in Int
          <5>1. /\ One(m \in run'.batch) = One(m \in run.batch)
                /\ One(cancelled' /\ pc' # "idle") = 0 /\ One(cancelled /\ pc # "idle") = 0
                /\ One(Unconfirmed(m)) = 0 /\ One(Unconfirmed(m)') = 0
            BY <1>1, <1>3, <4>2 DEF One
          <5>2. /\ Account(m) = run.collected[m] + One(m \in run.batch) - faults - One(Allowed(m))
                /\ Account(m)' = run'.collected[m] + One(m \in run'.batch) - faults' - One(Allowed(m)')
            BY <1>0, <1>2, <4>1, <5>1, OneIsBit DEF Account
          <5> QED
            BY <1>0, <1>2, <4>1, <4>2, <5>1, <5>2, OneIsBit
        <4> QED
          BY <1>1, <2>1, <2>2, <2>5, <3>1, <4>3 DEF PaidFor
      <3> QED
        BY <3>2, <3>3
    <2> QED
      BY <2>4, <2>5
  <1> QED
    BY <1>5, <1>6, <1>7, <1>8, <1>9 DEF JInv

\* Settling a restored copy, or failing to.
LEMMA CompleteJ ==
    ASSUME IInv, IInv', JInv, NEW m \in Seqs, CompleteCopy(m) \/ CompleteFails(m)
    PROVE  JInv'
  <1>0. /\ TypeOK /\ TypeOK' /\ faults \in Nat /\ restored \in Nat /\ run.restored \in Nat
        /\ m \in Messages
    BY SeqFacts DEF IInv
  <1>1. /\ UNCHANGED <<op, state, restored, cancelled, tail>>
        /\ pc = "complete" /\ pc' = "send" /\ m = run.sent[Len(run.sent)]
        /\ run.collected[m] = 1 /\ lock[m] = "held"
    BY DEF CompleteCopy, CompleteFails, Confirming, OwnsLock
  <1>2. place[m] = "parked"
    BY <1>1 DEF JInv, Listed
  <1>3. /\ \A s \in Seqs : s # m => place'[s] = place[s] /\ lock'[s] = lock[s]
        /\ \/ place'[m] = "restored" /\ lock'[m] = "free"
           \/ place'[m] = "parked" /\ CompleteFails(m)
    BY <1>0, <1>2, SeqFacts DEF CompleteCopy, CompleteFails, TypeOK
  <1>4. /\ run'.batch = run.batch /\ run'.sent = run.sent
        /\ run'.blind = run.blind /\ run'.parked = run.parked
        /\ \A s \in Seqs : run'.collected[s] = IF s = m THEN 0 ELSE run.collected[s]
    <2> DEFINE spent == [run.collected EXCEPT ![m] = @ - 1]
    <2>1. run \in RunType /\ run.collected \in [Seqs -> Nat]
      BY <1>0 DEF TypeOK, RunType
    <2>2. \A s \in Seqs : spent[s] = IF s = m THEN 0 ELSE run.collected[s]
      BY <1>1, <2>1
    <2>3. /\ run'.batch = run.batch /\ run'.sent = run.sent
          /\ run'.blind = run.blind /\ run'.parked = run.parked
          /\ run'.collected = spent
      BY <2>1 DEF CompleteCopy, CompleteFails, RunType
    <2> QED
      BY <2>2, <2>3
  <1>5. \/ /\ CompleteFails(m) /\ faults' = faults + 1
           /\ run'.failed /\ run'.restored = run.restored
        \/ /\ CompleteCopy(m) /\ faults' = faults /\ run'.failed = run.failed
           /\ run'.restored = run.restored + 1 /\ place'[m] = "restored"
    BY <1>0 DEF CompleteCopy, CompleteFails, Fault, TypeOK, RunType
  <1>6. Listed' /\ Working'
    BY <1>1, <1>3, <1>4 DEF JInv, Listed, Working
  <1>7. Drains'
    BY <1>1, <1>3, <1>4, <1>5 DEF JInv, Drains, InHand, IsParkedBy
  <1>8. SentFirst' /\ RestoreOrdered'
    <2>1. Pending' \subseteq Pending
      BY <1>4 DEF Pending
    <2> QED
      BY <1>0, <1>1, <1>4, <2>1, OrderKeeps DEF JInv
  <1>9. Capped'
    <2>1. OutOfTheWay' = OutOfTheWay
      BY <1>1, <1>2, <1>3 DEF OutOfTheWay
    <2> QED
      BY <1>1, <2>1 DEF JInv, Capped
  <1>10. RestoredCountHonest'
    <2> DEFINE Back == {s \in Seqs : place[s] = "restored"}
    <2>1. IsFiniteSet(Back) /\ Cardinality(Back) \in Nat
      BY SeqsFinite
    <2>2. m \notin Back /\ Back' \in {Back, Back \cup {m}}
      BY <1>2, <1>3
    <2>4. Cardinality(Back \cup {m}) = Cardinality(Back) + 1
      BY <2>1, <2>2, FS_AddElement
    <2>5. restored + run.restored <= Cardinality(Back)
      BY DEF JInv, RestoredCountHonest
    <2>6. place'[m] = "restored" => Back' = Back \cup {m}
      BY <1>3
    <2> DEFINE before == Cardinality(Back)
               after == Cardinality({s \in Seqs : place'[s] = "restored"})
    <2>7. /\ after \in {before, before + 1} /\ before \in Nat
          /\ place'[m] = "restored" => after = before + 1
      BY <2>1, <2>2, <2>4, <2>6
    <2>8. restored' = restored /\ restored + run.restored <= before
      BY <1>1, <2>5
    <2> HIDE DEF before, after
    <2>9. restored' + run'.restored <= after
      BY <1>0, <1>5, <2>7, <2>8
    <2> QED
      BY <2>9 DEF RestoredCountHonest, after
  <1>11. Paid'
    <2> SUFFICES ASSUME NEW s \in Seqs PROVE PaidFor(s)'
      BY DEF Paid
    <2>1. /\ Copies(s)' = Copies(s) /\ Copies(s) \in Nat /\ run.collected[s] \in Nat
          /\ PaidFor(s) /\ faults' \in Nat /\ faults' >= faults
      BY <1>0, <1>1, <1>5, SeqFacts, CopiesCount DEF Copies, JInv, Paid
    <2>2. (Unconfirmed(s) <=> s = m) /\ ~Unconfirmed(s)'
      BY <1>1 DEF Unconfirmed
    <2>3. CASE s # m
      <3>1. /\ run'.collected[s] = run.collected[s] /\ Allowed(s)' = Allowed(s)
            /\ place'[s] = place[s]
        BY <1>3, <1>4, <2>3 DEF Allowed
      <3>2. Account(s)' <= Account(s) /\ Account(s) \in Int /\ Account(s)' \in Int
        <4>1. /\ One(s \in run'.batch) = One(s \in run.batch)
              /\ One(cancelled' /\ pc' # "idle") = One(cancelled /\ pc # "idle")
              /\ One(Unconfirmed(s)) = 0 /\ One(Unconfirmed(s)') = 0
              /\ One(Allowed(s)') = One(Allowed(s))
          BY <1>1, <1>4, <2>2, <2>3, <3>1 DEF One
        <4> QED
          BY <1>0, <2>1, <3>1, <4>1, OneIsBit DEF Account
      <3> QED
        BY <1>0, <2>1, <3>1, <3>2 DEF PaidFor
    <2>4. CASE s = m
      <3>1. /\ Account(m) = One(m \in run.batch) + One(cancelled) - faults - 1
            /\ Copies(m) + Account(m) <= 0
        <4>1. /\ One(Allowed(m)) = 1 /\ One(Unconfirmed(m)) = 1
              /\ One(cancelled /\ pc # "idle") = One(cancelled)
          BY <1>1, <2>2, <2>4 DEF Allowed, One
        <4> QED
          BY <1>0, <1>1, <1>2, <2>1, <2>4, <4>1, OneIsBit DEF PaidFor, Account
      <3>2. CASE place'[m] = "restored"
        BY <1>0, <2>1, <2>4, <3>1, <3>2 DEF PaidFor, One
      <3>3. CASE place'[m] = "parked" /\ CompleteFails(m)
        <4>1. faults' = faults + 1
          BY <3>3 DEF CompleteFails, Fault
        <4>2. Account(m)' <= One(m \in run.batch) + One(cancelled) - faults - 1
          <5>1. /\ One(m \in run'.batch) = One(m \in run.batch)
                /\ One(cancelled' /\ pc' # "idle") = One(cancelled)
                /\ One(Unconfirmed(m)') = 0 /\ run'.collected[m] = 0
            BY <1>1, <1>4, <2>2, <2>4 DEF One
          <5> QED
            BY <1>0, <4>1, <5>1, OneIsBit DEF Account
        <4>3. Account(m)' \in Int /\ Account(m) \in Int
          BY <1>0, <1>1, <1>4, <2>1, <2>2, <2>4, <4>1 DEF Account, One
        <4> QED
          BY <2>1, <2>4, <3>1, <3>3, <4>2, <4>3 DEF PaidFor
      <3> QED
        BY <1>3, <2>4, <3>2, <3>3
    <2> QED
      BY <2>3, <2>4
  <1> QED
    BY <1>6, <1>7, <1>8, <1>9, <1>10, <1>11 DEF JInv

LEMMA StepJ == IInv /\ IInv' /\ JInv /\ [Next]_vars => JInv'
  <1> SUFFICES ASSUME IInv, IInv', JInv, [Next]_vars PROVE JInv'
    OBVIOUS
  <1>0. Seqs \subseteq Messages /\ Messages # {}
    BY SeqsInMessages
  <1>1. CASE ParkDone
    <2>1. CASE run.reached
      BY <1>0, <1>1, <2>1, OthersJ
    <2>2. CASE ~run.reached
      <3>1. /\ RunnerStops("Failed") /\ UNCHANGED <<op, restored, place, tail, faults>>
            /\ pc = "park"
        BY <1>1, <2>2 DEF ParkDone
      <3>2. faults \in Nat /\ restored \in Nat /\ run.restored \in Nat
        BY SeqFacts DEF IInv
      <3>3. "Failed" \in States \ {"Running"}
        BY DEF States
      <3> QED
        BY <3>1, <3>2, <3>3, StopsJ
    <2> QED
      BY <2>1, <2>2
  <1>2. CASE Runner /\ ~ParkDone
    BY <1>0, <1>2, ReceiveJ, StoppingJ, CollectJ, ParkJ, ReleaseJ, SendJ, CompleteJ DEF Runner
  <1>3. CASE Environment
    BY <1>0, <1>3, StoppingJ, SendJ, CompleteJ, OthersJ, OthersSettleJ DEF Environment
  <1>4. CASE User \/ \E m \in Messages : LockExpires(m)
    BY <1>0, <1>4, OthersJ, ResumeJ DEF User
  <1>5. CASE Settled \/ UNCHANGED vars
    BY <1>0, <1>5, OthersJ DEF Settled
  <1> QED
    BY <1>1, <1>2, <1>3, <1>4, <1>5 DEF Next

LEMMA Invariants == Spec => [](IInv /\ JInv)
  <1> QED
    BY InitIInv, InitJInv, Inductive, StepJ, PTL DEF Spec

-----------------------------------------------------------------------------

\* In every reachable state of every operation the variables are well typed.
THEOREM TypeCorrect == Spec => []TypeOK
  <1>1. IInv => TypeOK
    BY DEF IInv
  <1> QED
    BY <1>1, InitIInv, Inductive, PTL DEF Spec

\* No crash, cancel, lost lock or broker error makes a restored message
\* disappear: its copy was on the entity before the original was settled.
THEOREM NothingIsLost == Spec => []NothingLost
  <1>1. IInv => NothingLost
    BY DEF IInv
  <1> QED
    BY <1>1, InitIInv, Inductive, PTL DEF Spec

\* The operation settles only the messages it was asked to, and puts no copy
\* on the entity for any other, nor for a dead-lettered or completed target.
\* And the messages it takes out of the way never exceed the cap it was started
\* with, over all the batches of its park phase.
THEOREM StaysWithinRequest == Spec => []WithinRequest
  <1>1. IInv => OnlyAsked
    BY DEF IInv, OnlyAsked
  <1>2. IInv /\ JInv => CapHonoured
    BY DEF JInv, Capped, CapHonoured, OutOfTheWay
  <1>3. IInv /\ JInv => WithinRequest
    BY <1>1, <1>2 DEF WithinRequest
  <1> QED
    BY <1>3, Invariants, PTL

\* A message has at most one copy more than there were crashes, cancels, lost
\* locks and broker errors: resuming alone never duplicates.
THEOREM DuplicatesArePaid == Spec => []DuplicatesNeedFaults
  <1>1. IInv /\ JInv => DuplicatesNeedFaults
    <2> SUFFICES ASSUME IInv, JInv, NEW m \in Seqs PROVE Copies(m) <= 1 + faults
      BY DEF DuplicatesNeedFaults
    <2>1. /\ PaidFor(m) /\ Copies(m) \in Nat /\ faults \in Nat
          /\ run.collected[m] \in Nat
      BY SeqFacts, CopiesCount DEF IInv, JInv, Paid
    <2>2. Unconfirmed(m) => run.collected[m] > 0
      BY DEF Unconfirmed, IInv, Confirmable
    <2> QED
      BY <2>1, <2>2 DEF PaidFor, Account, Allowed, One
  <1> QED
    BY <1>1, Invariants, PTL

\* A restore run sends its copies in the order of OrderParkedForRestore.
THEOREM CopiesAreOrdered == Spec => []RestoreOrdered
  <1>1. IInv /\ JInv => RestoreOrdered
    BY DEF JInv
  <1> QED
    BY <1>1, Invariants, PTL

\* RestoredCount counts no message that did not leave the dead-letter queue, and
\* a completed restore leaves no stamped message behind, but those whose lock
\* somebody else held when it began.
THEOREM ResultsAreHonest == Spec => []ResultIsHonest
  <1>1. IInv /\ JInv => RestoredCountHonest
    BY DEF JInv
  <1>2. IInv /\ JInv => CompletedDrains
    BY DEF JInv, Drains, InHand, Working, CompletedDrains
  <1> QED
    BY <1>1, <1>2, Invariants, PTL DEF ResultIsHonest

=============================================================================
