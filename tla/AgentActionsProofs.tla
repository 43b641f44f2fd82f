------------------------- MODULE AgentActionsProofs -------------------------
(***************************************************************************)
(* The safety properties of AgentActions for every number of proposals,    *)
(* sessions, targets and requests, and for every capacity, cap, lifetime   *)
(* and degree of parallelism.                                              *)
(***************************************************************************)
EXTENDS AgentActions, FiniteSetTheorems, TLAPS

\* A request in the endpoints is about a proposal that has been registered.
CallsKnown ==
    \A c \in Calls : ~At(c, "idle") => phase[call[c].id] \notin {"new", "parking"}

\* Between them, the pending proposals of an investigation and its tool calls
\* past the cap check number at most the cap and the parallel calls, less one.
CapCounts ==
    \A s \in Sessions :
        /\ Cardinality(Parking(s)) <= MaxParks
        /\ Cardinality(PendingOf(s)) + Cardinality(Parking(s)) <= MaxPerInvestigation + MaxParks - 1

\* What a proposal's effect count says while nothing excuses a second one.
Once(i) ==
    /\ \A c, d \in Executing(i) : c = d
    /\ runs[i] <= 1
    /\ runs[i] = 1 => /\ \A c \in Executing(i) : At(c, "mark")
                      /\ action[i].applied \/ Executing(i) # {}
OnceUnlessExcused == \A i \in Ids \ (overlapped \cup failed) : Once(i)

\* A barred proposal is out of the store for good.
BarredIsGone == \A i \in barred : phase[i] = "gone" /\ runs[i] = 0 /\ Executing(i) = {}

IInv ==
    /\ TypeOK /\ Capacity /\ NoDuplicateProposal
    /\ CallsKnown /\ CapCounts /\ OnceUnlessExcused /\ BarredIsGone

-----------------------------------------------------------------------------
(* The steps of a request.                                                 *)

Answer(c) == Apply(c) \/ Effect(c) \/ EffectFails(c) \/ Mark(c) \/ Reject(c)
Request(c) == Answer(c) \/ \E i \in Ids : Confirm(c, i) \/ RejectFound(c, i)

LEMMA NextSteps ==
  ASSUME Next
  PROVE  \/ \E i \in Ids : \/ \E s \in Sessions \cup {Chat}, t \in Targets : Propose(i, s, t)
                           \/ Register(i)
         \/ \E c \in Calls : Request(c)
         \/ Tick
  BY AgentActionsAssumption DEF Next, Request, Answer

-----------------------------------------------------------------------------
(* Typing.                                                                 *)

LEMMA NoCallType == NoCall \in CallType
  BY AgentActionsAssumption DEF NoCall, CallType

LEMMA InitType == Init => TypeOK
<1> SUFFICES ASSUME Init PROVE TypeOK
  OBVIOUS
<1> DEFINE t == CHOOSE t \in Targets : TRUE
<1>1. t \in Targets
  BY AgentActionsAssumption
<1>2. [session |-> Chat, target |-> t, created |-> 0, expires |-> 0,
       confirmed |-> FALSE, applied |-> FALSE, rejected |-> FALSE] \in ActionType
  BY <1>1 DEF ActionType
<1>3. action \in [Ids -> ActionType]
  BY <1>2 DEF Init
<1>4. call \in [Calls -> CallType]
  BY NoCallType DEF Init
<1>5. now \in 0 .. MaxNow /\ asks \in 0 .. MaxAsks
  BY AgentActionsAssumption DEF Init
<1> QED
  BY <1>3, <1>4, <1>5 DEF Init, TypeOK

LEMMA CallUpdate ==
  ASSUME TypeOK, NEW c \in Calls, NEW r \in CallType, call' = [call EXCEPT ![c] = r]
  PROVE  call' \in [Calls -> CallType]
  BY DEF TypeOK

LEMMA GoToType ==
  ASSUME TypeOK, NEW c \in Calls,
         NEW pc \in {"apply", "exec", "mark", "reject"}, GoTo(c, pc)
  PROVE  call' \in [Calls -> CallType]
<1>1. [call[c] EXCEPT !.pc = pc] \in CallType
  BY DEF TypeOK, CallType
<1>2. call' = [call EXCEPT ![c] = [call[c] EXCEPT !.pc = pc]]
  BY DEF GoTo
<1> QED
  BY <1>1, <1>2, CallUpdate

LEMMA DoneType ==
  ASSUME TypeOK, NEW c \in Calls, Done(c)
  PROVE  call' \in [Calls -> CallType]
  BY NoCallType, CallUpdate DEF Done

LEMMA ActionUpdate ==
  ASSUME TypeOK, NEW i \in Ids, NEW a \in ActionType, action' = [action EXCEPT ![i] = a]
  PROVE  action' \in [Ids -> ActionType]
  BY DEF TypeOK

LEMMA FlagTypes ==
  ASSUME TypeOK, NEW i \in Ids
  PROVE  /\ [action[i] EXCEPT !.confirmed = TRUE] \in ActionType
         /\ [action[i] EXCEPT !.applied = TRUE] \in ActionType
         /\ [action[i] EXCEPT !.rejected = TRUE] \in ActionType
  BY DEF TypeOK, ActionType

LEMMA DroppedType ==
  ASSUME TypeOK, NEW i \in Ids
  PROVE  Dropped(i) \in [Ids -> {"new", "parking", "stored", "gone"}]
  BY DEF Dropped, TypeOK

LEMMA ProposeType ==
  ASSUME TypeOK, NEW i \in Ids, NEW s \in Sessions \cup {Chat}, NEW t \in Targets, Propose(i, s, t)
  PROVE  TypeOK'
<1>1. Lifetime(s) \in Nat /\ now \in Nat
  BY AgentActionsAssumption DEF Lifetime, TypeOK
<1> DEFINE a == [action[i] EXCEPT !.session = s, !.target = t,
                                  !.created = now, !.expires = now + Lifetime(s)]
<1>2. action[i] \in ActionType /\ now + Lifetime(s) \in Nat
  BY <1>1 DEF TypeOK
<1>3. a \in ActionType
  BY <1>1, <1>2 DEF ActionType
<1>4. action' = [action EXCEPT ![i] = a]
  BY DEF Propose
<1>5. action' \in [Ids -> ActionType]
  BY <1>3, <1>4, ActionUpdate
<1> QED
  BY <1>5 DEF Propose, TypeOK, history

LEMMA RegisterType ==
  ASSUME TypeOK, NEW i \in Ids, Register(i)
  PROVE  TypeOK'
  BY DEF Register, TypeOK, history

LEMMA RequestType ==
  ASSUME TypeOK, NEW c \in Calls, Request(c)
  PROVE  TypeOK'
<1> DEFINE j == call[c].id
<1>1. j \in Ids
  BY DEF TypeOK, CallType
<1>2. ASSUME NEW i \in Ids, Confirm(c, i) PROVE TypeOK'
  <2>1. [pc |-> "apply", id |-> i] \in CallType
    BY DEF CallType
  <2>2. CASE Found(i) /\ action' = [action EXCEPT ![i].confirmed = TRUE]
             /\ call' = [call EXCEPT ![c] = [pc |-> "apply", id |-> i]]
             /\ asks' = asks + 1 /\ UNCHANGED phase
    <3>1. action' = [action EXCEPT ![i] = [action[i] EXCEPT !.confirmed = TRUE]]
      BY <2>2
    <3>2. action' \in [Ids -> ActionType]
      BY <3>1, FlagTypes, ActionUpdate
    <3>3. call' \in [Calls -> CallType]
      BY <2>1, <2>2, CallUpdate
    <3>4. asks' \in 0 .. MaxAsks
      BY <1>2, <2>2, AgentActionsAssumption DEF Confirm, TypeOK
    <3> QED
      BY <1>2, <2>2, <3>2, <3>3, <3>4 DEF Confirm, TypeOK
  <2>3. CASE phase' = Dropped(i) /\ UNCHANGED <<action, call, asks>>
    BY <1>2, <2>3, DroppedType DEF Confirm, TypeOK
  <2> QED
    BY <1>2, <2>2, <2>3 DEF Confirm
<1>3. ASSUME NEW i \in Ids, RejectFound(c, i) PROVE TypeOK'
  <2>1. [pc |-> "reject", id |-> i] \in CallType
    BY DEF CallType
  <2>2. call' \in [Calls -> CallType]
    BY <1>3, <2>1, CallUpdate DEF RejectFound, TypeOK
  <2> QED
    BY <1>3, <2>2, DroppedType DEF RejectFound, TypeOK, history
<1>4. CASE Apply(c)
  <2>1. call' \in [Calls -> CallType]
    BY <1>4, GoToType, DoneType DEF Apply
  <2>2. overlapped' \subseteq Ids
    BY <1>1, <1>4 DEF Apply, TypeOK
  <2> QED
    BY <1>1, <1>4, <2>1, <2>2, DroppedType DEF Apply, TypeOK
<1>5. CASE Effect(c)
  <2>1. call' \in [Calls -> CallType]
    BY <1>5, GoToType, DoneType DEF Effect
  <2>2. runs' \in [Ids -> Nat] /\ failed' \subseteq Ids
    BY <1>1, <1>5 DEF Effect, TypeOK
  <2> QED
    BY <1>5, <2>1, <2>2 DEF Effect, TypeOK
<1>6. CASE EffectFails(c)
  BY <1>6, DoneType DEF EffectFails, TypeOK, history
<1>7. CASE Mark(c)
  <2>1. action' = [action EXCEPT ![j] = [action[j] EXCEPT !.applied = TRUE]]
    BY <1>7 DEF Mark
  <2>2. action' \in [Ids -> ActionType]
    BY <1>1, <2>1, FlagTypes, ActionUpdate
  <2> QED
    BY <1>7, <2>2, DoneType DEF Mark, TypeOK, history
<1>8. CASE Reject(c)
  <2>1. CASE phase[j] = "stored"
    <3>1. action' = [action EXCEPT ![j] = [action[j] EXCEPT !.rejected = TRUE]]
      BY <1>8, <2>1 DEF Reject
    <3>2. action' \in [Ids -> ActionType]
      BY <1>1, <3>1, FlagTypes, ActionUpdate
    <3> QED
      BY <1>1, <1>8, <2>1, <3>2, DoneType DEF Reject, TypeOK
  <2>2. CASE phase[j] # "stored"
    BY <1>1, <1>8, <2>2, DoneType DEF Reject, TypeOK
  <2> QED
    BY <2>1, <2>2
<1> QED
  BY <1>2, <1>3, <1>4, <1>5, <1>6, <1>7, <1>8 DEF Request, Answer

LEMMA NextType == TypeOK /\ [Next]_vars => TypeOK'
<1> SUFFICES ASSUME TypeOK, [Next]_vars PROVE TypeOK'
  OBVIOUS
<1>1. CASE UNCHANGED vars
  BY <1>1 DEF vars, history, TypeOK
<1>2. CASE Tick
  BY <1>2, AgentActionsAssumption DEF Tick, TypeOK, history
<1> QED
  BY <1>1, <1>2, NextSteps, ProposeType, RegisterType, RequestType

\* Every reachable state is well-typed.
THEOREM TypeCorrect == Spec => []TypeOK
  BY InitType, NextType, PTL DEF Spec

-----------------------------------------------------------------------------
(* What a step does to the store. Requests and the clock only take pending *)
(* proposals away.                                                         *)

\* Nothing about proposal i grows.
Wanes(i) ==
    /\ action'[i].session = action[i].session /\ action'[i].target = action[i].target
    /\ action'[i].expires = action[i].expires
    /\ action[i].applied => action'[i].applied
    /\ action[i].rejected => action'[i].rejected
    /\ phase'[i] = phase[i] \/ (phase[i] = "stored" /\ phase'[i] = "gone")
    /\ now' >= now

Quiet == \A i \in Ids : Wanes(i)

LEMMA DroppedWanes ==
  ASSUME TypeOK, NEW i \in Ids, NEW k \in Ids
  PROVE  \/ Dropped(i)[k] = phase[k]
         \/ phase[k] = "stored" /\ Dropped(i)[k] = "gone"
  BY DEF Dropped, TypeOK

LEMMA RequestQuiet ==
  ASSUME TypeOK, NEW c \in Calls, Request(c)
  PROVE  Quiet
<1> SUFFICES ASSUME NEW k \in Ids PROVE Wanes(k)
  BY DEF Quiet
<1> DEFINE j == call[c].id
<1>1. j \in Ids /\ now \in Nat /\ action[k] \in ActionType /\ action[j] \in ActionType
  BY DEF TypeOK, CallType
<1>2. ASSUME NEW i \in Ids, Confirm(c, i) PROVE Wanes(k)
  <2>1. /\ action'[k].session = action[k].session /\ action'[k].target = action[k].target
        /\ action'[k].expires = action[k].expires /\ action'[k].applied = action[k].applied
        /\ action'[k].rejected = action[k].rejected
    BY <1>1, <1>2 DEF Confirm, TypeOK, ActionType
  <2>2. phase'[k] = phase[k] \/ (phase[k] = "stored" /\ phase'[k] = "gone")
    BY <1>2, DroppedWanes DEF Confirm
  <2>3. now' = now
    BY <1>2 DEF Confirm
  <2> QED
    BY <1>1, <2>1, <2>2, <2>3 DEF Wanes
<1>3. ASSUME NEW i \in Ids, RejectFound(c, i) PROVE Wanes(k)
  BY <1>1, <1>3, DroppedWanes DEF RejectFound, Wanes
<1>4. CASE Apply(c)
  BY <1>1, <1>4, DroppedWanes DEF Apply, Wanes
<1>5. CASE Effect(c) \/ EffectFails(c)
  BY <1>1, <1>5 DEF Effect, EffectFails, Wanes
<1>6. CASE Mark(c)
  BY <1>1, <1>6 DEF Mark, Wanes, TypeOK, ActionType
<1>7. CASE Reject(c)
  BY <1>1, <1>7 DEF Reject, Wanes, TypeOK, ActionType
<1> QED
  BY <1>2, <1>3, <1>4, <1>5, <1>6, <1>7 DEF Request, Answer

LEMMA TickQuiet ==
  ASSUME TypeOK, Tick
  PROVE  Quiet
  BY DEF Tick, Quiet, Wanes, TypeOK

LEMMA StutterQuiet ==
  ASSUME TypeOK, UNCHANGED vars
  PROVE  Quiet
  BY DEF vars, Quiet, Wanes, TypeOK

LEMMA QuietPending ==
  ASSUME TypeOK, TypeOK', Quiet, NEW i \in Ids, Pending(i)'
  PROVE  Pending(i)
<1>1. now \in Nat /\ now' \in Nat /\ action[i].expires \in Nat
  BY DEF TypeOK, ActionType
<1>2. action[i].applied \in BOOLEAN /\ action[i].rejected \in BOOLEAN
  BY DEF TypeOK, ActionType
<1>3. Wanes(i)
  BY DEF Quiet
<1> QED
  BY <1>1, <1>2, <1>3 DEF Pending, Expired, Wanes

-----------------------------------------------------------------------------
(* Counting.                                                               *)

LEMMA FiniteParts ==
  ASSUME NEW S \in SUBSET Ids
  PROVE  IsFiniteSet(S) /\ Cardinality(S) \in Nat
  BY AgentActionsAssumption, FS_Subset, FS_CardinalityType

LEMMA Smaller ==
  ASSUME NEW S \in SUBSET Ids, NEW T \in SUBSET S
  PROVE  Cardinality(T) <= Cardinality(S)
  BY FiniteParts, FS_Subset

LEMMA OneMore ==
  ASSUME NEW S \in SUBSET Ids, NEW i \in Ids, NEW T \in SUBSET (S \cup {i})
  PROVE  Cardinality(T) <= Cardinality(S) + 1
<1>1. S \cup {i} \in SUBSET Ids
  OBVIOUS
<1>2. Cardinality(T) <= Cardinality(S \cup {i})
  BY <1>1, Smaller
<1>3. Cardinality(S \cup {i}) <= Cardinality(S) + 1
  BY FiniteParts, FS_AddElement
<1>4. T \in SUBSET Ids
  BY <1>1
<1> QED
  BY <1>1, <1>2, <1>3, <1>4, FiniteParts

LEMMA OneLess ==
  ASSUME NEW S \in SUBSET Ids, NEW i \in S
  PROVE  Cardinality(S \ {i}) = Cardinality(S) - 1
  BY FiniteParts, FS_RemoveElement

LEMMA Parts ==
  /\ Stored \in SUBSET Ids
  /\ \A s : PendingOf(s) \in SUBSET Ids /\ Parking(s) \in SUBSET Ids
  BY DEF Stored, PendingOf, Parking

-----------------------------------------------------------------------------
(* Capacity, duplicates and the cap.                                       *)

StoreInv == Capacity /\ NoDuplicateProposal /\ CapCounts

LEMMA InitStore == Init => StoreInv
<1> SUFFICES ASSUME Init PROVE StoreInv
  OBVIOUS
<1>1. Stored = {} /\ \A s : PendingOf(s) = {} /\ Parking(s) = {}
  BY DEF Init, Stored, PendingOf, Parking, Pending
<1>2. Cardinality({}) = 0
  BY FS_EmptySet
<1>3. 0 <= MaxPendingActions /\ 0 <= MaxParks /\ 0 + 0 <= MaxPerInvestigation + MaxParks - 1
  BY AgentActionsAssumption
<1>5. Capacity
  BY <1>1, <1>2, <1>3 DEF Capacity
<1>6. CapCounts
  <2> SUFFICES ASSUME NEW s \in Sessions
               PROVE  /\ Cardinality(Parking(s)) <= MaxParks
                      /\ Cardinality(PendingOf(s)) + Cardinality(Parking(s))
                            <= MaxPerInvestigation + MaxParks - 1
    BY DEF CapCounts
  <2>1. Cardinality(PendingOf(s)) = 0 /\ Cardinality(Parking(s)) = 0
    BY <1>1, <1>2
  <2> QED
    BY <1>3, <2>1
<1>4. NoDuplicateProposal
  BY DEF Init, NoDuplicateProposal, Pending
<1> QED
  BY <1>4, <1>5, <1>6 DEF StoreInv

LEMMA QuietStore ==
  ASSUME TypeOK, TypeOK', StoreInv, Quiet
  PROVE  StoreInv'
<1>1. Stored' \in SUBSET Stored
  BY DEF Quiet, Wanes, Stored
<1>2. Capacity'
  <2>1. Cardinality(Stored') <= Cardinality(Stored)
    BY <1>1, Parts, Smaller
  <2>2. Cardinality(Stored') \in Nat /\ Cardinality(Stored) \in Nat
    BY <1>1, Parts, FiniteParts
  <2> QED
    BY <2>1, <2>2, AgentActionsAssumption DEF Capacity, StoreInv
<1>3. NoDuplicateProposal'
  BY QuietPending DEF NoDuplicateProposal, StoreInv, Quiet, Wanes
<1>4. ASSUME NEW s \in Sessions
      PROVE  /\ Cardinality(Parking(s)') <= MaxParks
             /\ Cardinality(PendingOf(s)') + Cardinality(Parking(s)')
                   <= MaxPerInvestigation + MaxParks - 1
  <2>1. PendingOf(s)' \in SUBSET PendingOf(s)
    BY QuietPending DEF PendingOf, Quiet, Wanes
  <2>2. Parking(s)' \in SUBSET Parking(s)
    BY DEF Parking, Quiet, Wanes
  <2>3. Cardinality(PendingOf(s)') <= Cardinality(PendingOf(s))
    BY <2>1, Parts, Smaller
  <2>4. Cardinality(Parking(s)') <= Cardinality(Parking(s))
    BY <2>2, Parts, Smaller
  <2>5. /\ Cardinality(PendingOf(s)') \in Nat /\ Cardinality(PendingOf(s)) \in Nat
        /\ Cardinality(Parking(s)') \in Nat /\ Cardinality(Parking(s)) \in Nat
    BY <2>1, <2>2, Parts, FiniteParts
  <2>6. /\ Cardinality(Parking(s)) <= MaxParks
        /\ Cardinality(PendingOf(s)) + Cardinality(Parking(s)) <= MaxPerInvestigation + MaxParks - 1
    BY DEF StoreInv, CapCounts
  <2> QED
    BY <2>3, <2>4, <2>5, <2>6, AgentActionsAssumption
<1> QED
  BY <1>2, <1>3, <1>4 DEF StoreInv, CapCounts

\* A tool call passes the cap check.
LEMMA ProposeStore ==
  ASSUME TypeOK, TypeOK', StoreInv,
         NEW i \in Ids, NEW s \in Sessions \cup {Chat}, NEW t \in Targets, Propose(i, s, t)
  PROVE  StoreInv'
<1>1. /\ phase[i] = "new" /\ phase' = [phase EXCEPT ![i] = "parking"] /\ now' = now
      /\ \A k \in Ids \ {i} : action'[k] = action[k]
      /\ action'[i].session = s
  BY DEF Propose, NextNew, TypeOK, ActionType
<1>2. Stored' = Stored
  BY <1>1 DEF Stored, TypeOK
<1>3. \A k \in Ids : Pending(k)' <=> (Pending(k) /\ k # i)
  BY <1>1 DEF Pending, Expired, TypeOK
<1>4. \A k \in Ids : Pending(k) => k # i
  BY <1>1 DEF Pending
<1>5. NoDuplicateProposal'
  BY <1>1, <1>3, <1>4 DEF NoDuplicateProposal, StoreInv
<1>6. ASSUME NEW u \in Sessions
      PROVE  /\ Cardinality(Parking(u)') <= MaxParks
             /\ Cardinality(PendingOf(u)') + Cardinality(Parking(u)')
                   <= MaxPerInvestigation + MaxParks - 1
  <2>1. PendingOf(u)' = PendingOf(u)
    BY <1>1, <1>3, <1>4 DEF PendingOf
  <2>2. Cardinality(PendingOf(u)) \in Nat /\ Cardinality(Parking(u)) \in Nat
    BY Parts, FiniteParts
  <2>3. /\ Cardinality(Parking(u)) <= MaxParks
        /\ Cardinality(PendingOf(u)) + Cardinality(Parking(u)) <= MaxPerInvestigation + MaxParks - 1
    BY DEF StoreInv, CapCounts
  <2>4. CASE u = s
    <3>1. Parking(u)' \in SUBSET (Parking(u) \cup {i})
      BY <1>1 DEF Parking, TypeOK
    <3>2. Cardinality(Parking(u)') <= Cardinality(Parking(u)) + 1
      BY <3>1, Parts, OneMore
    <3>3. s # Chat
      BY <2>4, AgentActionsAssumption
    <3>4. Cardinality(PendingOf(u)) < MaxPerInvestigation /\ Cardinality(Parking(u)) < MaxParks
      BY <2>4, <3>3 DEF Propose
    <3>5. Cardinality(Parking(u)') \in Nat
      BY <3>1, Parts, FiniteParts
    <3> QED
      BY <2>1, <2>2, <3>2, <3>4, <3>5, AgentActionsAssumption
  <2>5. CASE u # s
    <3>1. Parking(u)' = Parking(u)
      BY <1>1, <2>5 DEF Parking, TypeOK
    <3> QED
      BY <2>1, <2>3, <3>1
  <2> QED
    BY <2>4, <2>5
<1> QED
  BY <1>2, <1>5, <1>6 DEF StoreInv, CapCounts, Capacity

\* RegisterAction inserts at most one proposal, after it has made room and
\* looked for one that already stands for it.
LEMMA RegisterStore ==
  ASSUME TypeOK, TypeOK', StoreInv, NEW i \in Ids, Register(i)
  PROVE  StoreInv'
<1>1. phase[i] = "parking" /\ UNCHANGED <<now, action>>
  BY DEF Register
<1>2. \A k \in Ids : action'[k] = action[k] /\ (Expired(k)' <=> Expired(k))
  BY <1>1 DEF Expired
<1>3. CASE phase' = [phase EXCEPT ![i] = "gone"]
  <2>1. Stored' = Stored
    BY <1>1, <1>3 DEF Stored, TypeOK
  <2>2. \A k \in Ids : Pending(k)' <=> Pending(k)
    BY <1>1, <1>2, <1>3 DEF Pending, TypeOK
  <2>3. ASSUME NEW s \in Sessions
        PROVE  PendingOf(s)' = PendingOf(s) /\ Parking(s)' \in SUBSET Parking(s)
    BY <1>1, <1>2, <1>3, <2>2 DEF PendingOf, Parking, TypeOK
  <2>4. ASSUME NEW s \in Sessions
        PROVE  /\ Cardinality(Parking(s)') <= MaxParks
               /\ Cardinality(PendingOf(s)') + Cardinality(Parking(s)')
                     <= MaxPerInvestigation + MaxParks - 1
    <3>1. Cardinality(Parking(s)') <= Cardinality(Parking(s))
      BY <2>3, Parts, Smaller
    <3>2. /\ Cardinality(PendingOf(s)) \in Nat /\ Cardinality(Parking(s)) \in Nat
          /\ Cardinality(Parking(s)') \in Nat
      BY <2>3, Parts, FiniteParts
    <3> QED
      BY <2>3, <3>1, <3>2, AgentActionsAssumption DEF StoreInv, CapCounts
  <2>5. NoDuplicateProposal'
    BY <1>2, <2>2 DEF NoDuplicateProposal, StoreInv
  <2> QED
    BY <2>1, <2>4, <2>5 DEF StoreInv, CapCounts, Capacity
<1>4. ASSUME Same(i) = {}, phase'[i] = "stored",
             \A k \in Ids \ {i} : phase'[k] = phase[k] \/ (phase[k] = "stored" /\ phase'[k] = "gone"),
             Cardinality(Stored') <= MaxPendingActions
      PROVE  StoreInv'
  <2>1. \A k \in Ids \ {i} : Pending(k)' => Pending(k)
    BY <1>2, <1>4 DEF Pending
  <2>2. ASSUME NEW s \in Sessions
        PROVE  /\ Cardinality(Parking(s)') <= MaxParks
               /\ Cardinality(PendingOf(s)') + Cardinality(Parking(s)')
                     <= MaxPerInvestigation + MaxParks - 1
    <3>1. /\ Cardinality(Parking(s)) <= MaxParks
          /\ Cardinality(PendingOf(s)) + Cardinality(Parking(s)) <= MaxPerInvestigation + MaxParks - 1
      BY DEF StoreInv, CapCounts
    <3>2. Cardinality(PendingOf(s)) \in Nat /\ Cardinality(Parking(s)) \in Nat
      BY Parts, FiniteParts
    <3>3. Cardinality(PendingOf(s)') \in Nat /\ Cardinality(Parking(s)') \in Nat
      BY Parts, FiniteParts DEF PendingOf, Parking
    <3>4. CASE action[i].session = s
      <4>1. PendingOf(s)' \in SUBSET (PendingOf(s) \cup {i})
        BY <1>2, <2>1 DEF PendingOf
      <4>2. Cardinality(PendingOf(s)') <= Cardinality(PendingOf(s)) + 1
        BY <4>1, Parts, OneMore
      <4>3. i \in Parking(s) /\ Parking(s)' \in SUBSET (Parking(s) \ {i})
        BY <1>1, <1>2, <1>4, <3>4 DEF Parking
      <4>4. Cardinality(Parking(s) \ {i}) = Cardinality(Parking(s)) - 1
        BY <4>3, Parts, OneLess
      <4>5. Parking(s) \ {i} \in SUBSET Ids
        BY Parts
      <4>6. Cardinality(Parking(s)') <= Cardinality(Parking(s) \ {i})
        BY <4>3, <4>5, Smaller
      <4> QED
        BY <3>1, <3>2, <3>3, <4>2, <4>4, <4>6, AgentActionsAssumption
    <3>5. CASE action[i].session # s
      <4>1. PendingOf(s)' \in SUBSET PendingOf(s) /\ Parking(s)' \in SUBSET Parking(s)
        BY <1>2, <1>4, <2>1, <3>5 DEF PendingOf, Parking
      <4>2. Cardinality(PendingOf(s)') <= Cardinality(PendingOf(s))
        BY <4>1, Parts, Smaller
      <4>3. Cardinality(Parking(s)') <= Cardinality(Parking(s))
        BY <4>1, Parts, Smaller
      <4> QED
        BY <3>1, <3>2, <3>3, <4>2, <4>3, AgentActionsAssumption
    <3> QED
      BY <3>4, <3>5
  <2>3. ASSUME NEW k \in Ids, k # i, Pending(k)', action[i].session # Chat,
               action[k].session = action[i].session, action[k].target = action[i].target
        PROVE  FALSE
    <3>1. Pending(k)
      BY <2>1, <2>3
    <3>2. k \in Same(i)
      BY <2>3, <3>1 DEF Same, Stored, Pending
    <3> QED
      BY <1>4, <3>2
  <2>4. NoDuplicateProposal'
    <3> SUFFICES ASSUME NEW k \in Ids, NEW l \in Ids, Pending(k)', Pending(l)', k # l,
                        action'[k].session # Chat, action'[k].session = action'[l].session,
                        action'[k].target = action'[l].target
                 PROVE  FALSE
      BY DEF NoDuplicateProposal
    <3>1. action[k].session = action[l].session /\ action[k].target = action[l].target
          /\ action[k].session # Chat
      BY <1>2
    <3>2. CASE k = i
      BY <2>3, <3>1, <3>2
    <3>3. CASE l = i
      BY <2>3, <3>1, <3>3
    <3>4. CASE k # i /\ l # i
      BY <2>1, <3>1, <3>4 DEF NoDuplicateProposal, StoreInv
    <3> QED
      BY <3>2, <3>3, <3>4
  <2>5. CapCounts'
    BY <2>2 DEF CapCounts
  <2> QED
    BY <1>4, <2>4, <2>5 DEF StoreInv, Capacity
<1>5. CASE Same(i) = {} /\ Cardinality(Stored) < MaxPendingActions
           /\ phase' = [phase EXCEPT ![i] = "stored"]
  <2>1. Stored' \in SUBSET (Stored \cup {i})
    BY <1>5 DEF Stored, TypeOK
  <2>2. Cardinality(Stored') <= Cardinality(Stored) + 1
    BY <2>1, Parts, OneMore
  <2>3. Cardinality(Stored') \in Nat /\ Cardinality(Stored) \in Nat
    BY <2>1, Parts, FiniteParts
  <2>4. Cardinality(Stored') <= MaxPendingActions
    BY <1>5, <2>2, <2>3, AgentActionsAssumption
  <2> QED
    BY <1>4, <1>5, <2>4 DEF TypeOK
<1>6. ASSUME Same(i) = {}, NEW v \in Victims,
             phase' = [phase EXCEPT ![i] = "stored", ![v] = "gone"]
      PROVE  StoreInv'
  <2>1. v \in Stored /\ v \in Ids /\ v # i
    BY <1>1 DEF Victims, Oldest, Stored
  <2>2. Stored' \in SUBSET ((Stored \ {v}) \cup {i})
    BY <1>6, <2>1 DEF Stored, TypeOK
  <2>3. Stored \ {v} \in SUBSET Ids
    BY Parts
  <2>4. Cardinality(Stored') <= Cardinality(Stored \ {v}) + 1
    BY <2>2, <2>3, OneMore
  <2>5. Cardinality(Stored \ {v}) = Cardinality(Stored) - 1
    BY <2>1, Parts, OneLess
  <2>6. Cardinality(Stored') \in Nat /\ Cardinality(Stored) \in Nat
    BY <2>2, <2>3, Parts, FiniteParts
  <2>7. Cardinality(Stored') <= MaxPendingActions
    BY <2>4, <2>5, <2>6, AgentActionsAssumption DEF StoreInv, Capacity
  <2>8. phase[v] = "stored"
    BY <2>1 DEF Stored
  <2> QED
    BY <1>4, <1>6, <2>1, <2>7, <2>8 DEF TypeOK
<1> QED
  BY <1>3, <1>5, <1>6 DEF Register

LEMMA NextStore == TypeOK /\ StoreInv /\ [Next]_vars => StoreInv'
<1> SUFFICES ASSUME TypeOK, StoreInv, [Next]_vars PROVE StoreInv'
  OBVIOUS
<1>1. TypeOK'
  BY NextType
<1>2. CASE Quiet
  BY <1>1, <1>2, QuietStore
<1> QED
  BY <1>1, <1>2, NextSteps, StutterQuiet, TickQuiet, RequestQuiet, ProposeStore, RegisterStore

\* The inductive invariant of the store: capacity, no duplicates, counted cap.
THEOREM StoreInvariant == Spec => []StoreInv
  BY InitStore, NextStore, TypeCorrect, PTL DEF Spec

\* The store stays within its capacity.
THEOREM StoreIsBounded == Spec => []Capacity
  BY StoreInvariant, PTL DEF StoreInv

\* No investigation has two open proposals for one action on one target.
THEOREM RegisteredOnce == Spec => []NoDuplicateProposal
  BY StoreInvariant, PTL DEF StoreInv

\* An investigation exceeds its cap by less than its parallel tool calls.
THEOREM CapHoldsUpToOverlap == Spec => []CapWithinOverlap
<1>1. StoreInv => CapWithinOverlap
  BY DEF StoreInv, CapCounts, CapWithinOverlap
<1> QED
  BY <1>1, StoreInvariant, PTL

-----------------------------------------------------------------------------
(* Executions.                                                             *)

RunInv == CallsKnown /\ OnceUnlessExcused /\ BarredIsGone

LEMMA InitRuns == Init => RunInv
<1> SUFFICES ASSUME Init PROVE RunInv
  OBVIOUS
<1>1. \A c \in Calls : call[c].pc = "idle"
  BY DEF Init, NoCall
<1>2. \A i \in Ids : Executing(i) = {} /\ runs[i] = 0
  BY <1>1 DEF Init, Executing
<1>3. CallsKnown
  BY <1>1 DEF CallsKnown, At
<1>4. OnceUnlessExcused
  BY <1>2 DEF OnceUnlessExcused, Once
<1>5. BarredIsGone
  BY DEF Init, BarredIsGone
<1> QED
  BY <1>3, <1>4, <1>5 DEF RunInv

\* A step that neither executes nor marks keeps what is said of executions.
LEMMA SameRuns ==
  ASSUME TypeOK, TypeOK', RunInv, UNCHANGED <<call, runs, overlapped, failed, barred>>,
         \A i \in Ids :
             /\ action[i].applied => action'[i].applied
             /\ phase[i] \in {"stored", "gone"} => phase'[i] \in {"stored", "gone"}
             /\ phase[i] = "gone" => phase'[i] = "gone"
  PROVE  RunInv'
<1>1. \A i \in Ids : Executing(i)' = Executing(i)
  BY DEF Executing
<1>2. CallsKnown'
  <2> SUFFICES ASSUME NEW c \in Calls, call[c].pc # "idle"
               PROVE  phase'[call[c].id] \notin {"new", "parking"}
    BY DEF CallsKnown, At
  <2>1. call[c].id \in Ids
    BY DEF TypeOK, CallType
  <2>2. phase[call[c].id] \in {"stored", "gone"}
    BY <2>1 DEF RunInv, CallsKnown, At, TypeOK
  <2> QED
    BY <2>1, <2>2
<1>3. OnceUnlessExcused'
  <2> SUFFICES ASSUME NEW i \in Ids \ (overlapped \cup failed) PROVE Once(i)'
    BY DEF OnceUnlessExcused
  <2>1. Once(i)
    BY DEF RunInv, OnceUnlessExcused
  <2>2. Executing(i)' = Executing(i) /\ \A c : At(c, "mark")' <=> At(c, "mark")
    BY <1>1 DEF At
  <2> QED
    BY <2>1, <2>2 DEF Once
<1>4. BarredIsGone'
  <2> SUFFICES ASSUME NEW i \in barred
               PROVE  phase'[i] = "gone" /\ runs[i] = 0 /\ Executing(i)' = {}
    BY DEF BarredIsGone
  <2>1. i \in Ids
    BY DEF TypeOK
  <2> QED
    BY <1>1, <2>1 DEF RunInv, BarredIsGone
<1> QED
  BY <1>2, <1>3, <1>4 DEF RunInv

LEMMA ToolRuns ==
  ASSUME TypeOK, TypeOK', RunInv, NEW i \in Ids,
         Register(i) \/ \E s \in Sessions \cup {Chat}, t \in Targets : Propose(i, s, t)
  PROVE  RunInv'
<1>1. CASE Register(i)
  <2>1. \A v \in Victims : v \in Ids
    BY DEF Victims, Oldest, Stored
  <2>2. phase[i] = "parking" /\ \A k \in Ids \ {i} : phase'[k] = phase[k] \/ phase'[k] = "gone"
    BY <1>1, <2>1 DEF Register, TypeOK
  <2> QED
    BY <1>1, <2>2, SameRuns DEF Register, history
<1>2. ASSUME NEW s \in Sessions \cup {Chat}, NEW t \in Targets, Propose(i, s, t)
      PROVE  RunInv'
  <2>1. phase[i] = "new" /\ \A k \in Ids \ {i} : phase'[k] = phase[k]
    BY <1>2 DEF Propose, NextNew, TypeOK
  <2>2. \A k \in Ids : action'[k].applied = action[k].applied
    <3> SUFFICES ASSUME NEW k \in Ids PROVE action'[k].applied = action[k].applied
      OBVIOUS
    <3>1. CASE k = i
      <4>1. action'[i] = [action[i] EXCEPT !.session = s, !.target = t, !.created = now,
                                           !.expires = now + Lifetime(s)]
        BY <1>2 DEF Propose, TypeOK
      <4>2. action[i] \in ActionType
        BY DEF TypeOK
      <4> QED
        BY <3>1, <4>1, <4>2 DEF ActionType
    <3>2. CASE k # i
      BY <1>2, <3>2 DEF Propose, TypeOK
    <3> QED
      BY <3>1, <3>2
  <2> QED
    BY <1>2, <2>1, <2>2, SameRuns DEF Propose, history
<1> QED
  BY <1>1, <1>2

\* A request that comes or goes without executing leaves executions alone.
LEMMA OtherCallRuns ==
  ASSUME TypeOK, TypeOK', RunInv, Quiet, NEW c \in Calls, UNCHANGED <<runs, overlapped, failed, barred>>,
         call[c].pc \notin {"exec", "mark"}, call'[c].pc \notin {"exec", "mark"},
         \A d \in Calls \ {c} : call'[d] = call[d],
         call'[c].pc # "idle" => phase'[call'[c].id] \notin {"new", "parking"}
  PROVE  RunInv'
<1>1. \A i \in Ids : Executing(i)' = Executing(i)
  BY DEF Executing
<1>2. CallsKnown'
  BY DEF RunInv, CallsKnown, At, Quiet, Wanes, TypeOK, CallType
<1>3. OnceUnlessExcused'
  <2> SUFFICES ASSUME NEW i \in Ids \ (overlapped \cup failed)
               PROVE  Once(i)'
    BY DEF OnceUnlessExcused
  <2>1. Once(i)
    BY DEF RunInv, OnceUnlessExcused
  <2>2. \A d \in Executing(i) : call'[d] = call[d]
    BY DEF Executing
  <2> QED
    BY <1>1, <2>1, <2>2 DEF Once, At, Quiet, Wanes
<1>4. BarredIsGone'
  BY <1>1 DEF RunInv, BarredIsGone, Quiet, Wanes, TypeOK
<1> QED
  BY <1>2, <1>3, <1>4 DEF RunInv

LEMMA ConfirmRuns ==
  ASSUME TypeOK, TypeOK', RunInv, NEW c \in Calls, NEW i \in Ids, Confirm(c, i) \/ RejectFound(c, i)
  PROVE  RunInv'
<1>1. Quiet
  BY RequestQuiet DEF Request
<1>2. call[c].pc = "idle" /\ UNCHANGED <<runs, overlapped, failed, barred>>
  BY DEF Confirm, RejectFound, At, history
<1>3. CASE call' = call
  BY <1>1, <1>2, <1>3, OtherCallRuns
<1>4. ASSUME NEW pc \in {"apply", "reject"}, call' = [call EXCEPT ![c] = [pc |-> pc, id |-> i]],
             phase' = phase \/ phase' = Dropped(i), phase[i] = "stored"
      PROVE  RunInv'
  <2>1. call'[c] = [pc |-> pc, id |-> i] /\ \A d \in Calls \ {c} : call'[d] = call[d]
    BY <1>4 DEF TypeOK
  <2>2. phase'[i] \notin {"new", "parking"}
    BY <1>4 DEF Dropped, TypeOK
  <2> QED
    BY <1>1, <1>2, <2>1, <2>2, OtherCallRuns
<1>5. CASE Confirm(c, i)
  BY <1>3, <1>4, <1>5 DEF Confirm, Found
<1>6. CASE RejectFound(c, i)
  BY <1>3, <1>4, <1>6 DEF RejectFound
<1> QED
  BY <1>5, <1>6

\* The applier starts an execution.
LEMMA ApplyRuns ==
  ASSUME TypeOK, TypeOK', RunInv, NEW c \in Calls, Apply(c)
  PROVE  RunInv'
<1> PICK j \in Ids : call[c].id = j
  BY DEF TypeOK, CallType
<1>1. j \in Ids /\ call[c].pc = "apply" /\ Quiet /\ UNCHANGED <<runs, failed, barred, action>>
  BY RequestQuiet DEF Apply, TypeOK, CallType, At, Request, Answer
<1>2. CASE Done(c) /\ UNCHANGED overlapped
  <2>1. call'[c].pc = "idle" /\ \A d \in Calls \ {c} : call'[d] = call[d]
    BY <1>2 DEF Done, NoCall, TypeOK
  <2> QED
    BY <1>1, <1>2, <2>1, OtherCallRuns
<1>3. CASE /\ Applicable(j) /\ GoTo(c, "exec")
           /\ overlapped' = IF Executing(j) # {} THEN overlapped \cup {j} ELSE overlapped
  <2>1. /\ call'[c].pc = "exec" /\ call'[c].id = j
        /\ \A d \in Calls \ {c} : call'[d] = call[d]
    BY <1>3 DEF GoTo, TypeOK, CallType
  <2>2. Executing(j)' = Executing(j) \cup {c}
    BY <1>1, <2>1 DEF Executing
  <2>3. \A i \in Ids \ {j} : Executing(i)' = Executing(i)
    BY <1>1, <2>1 DEF Executing
  <2>4. CallsKnown'
    BY <1>1, <2>1 DEF RunInv, CallsKnown, At, Quiet, Wanes, TypeOK, CallType
  <2>5. OnceUnlessExcused'
    <3> SUFFICES ASSUME NEW i \in Ids \ (overlapped' \cup failed')
                 PROVE  Once(i)'
      BY DEF OnceUnlessExcused
    <3>1. Once(i)
      BY <1>1, <1>3 DEF RunInv, OnceUnlessExcused
    <3>2. CASE i = j
      <4>1. Executing(j) = {}
        BY <1>3, <3>2
      <4>2. ~action[j].applied
        BY <1>3 DEF Applicable
      <4>3. runs[j] # 1
        BY <3>1, <3>2, <4>1, <4>2 DEF Once
      <4>4. runs'[j] = runs[j] /\ Executing(j)' = {c}
        BY <1>1, <2>2, <4>1
      <4>5. Executing(i)' = {c} /\ runs'[i] = runs[i] /\ runs[i] # 1 /\ runs[i] <= 1
        BY <3>1, <3>2, <4>3, <4>4 DEF Once
      <4> QED
        BY <4>5 DEF Once
    <3>3. CASE i # j
      <4>1. Executing(i)' = Executing(i) /\ c \notin Executing(i)
        BY <1>1, <2>3, <3>3 DEF Executing
      <4>2. \A d \in Executing(i) : call'[d] = call[d]
        BY <2>1, <4>1 DEF Executing
      <4> QED
        BY <1>1, <3>1, <4>1, <4>2 DEF Once, At
    <3> QED
      BY <3>2, <3>3
  <2>6. BarredIsGone'
    <3>1. phase[j] = "stored"
      BY <1>3 DEF Applicable, Found
    <3>2. \A i \in barred : i # j /\ i \in Ids
      BY <3>1 DEF RunInv, BarredIsGone, TypeOK
    <3> QED
      BY <1>1, <2>3, <3>2 DEF RunInv, BarredIsGone, Quiet, Wanes
  <2> QED
    BY <2>4, <2>5, <2>6 DEF RunInv
<1> QED
  BY <1>2, <1>3 DEF Apply

\* An executor has its effect, gives up, or is marked.
LEMMA ExecutionRuns ==
  ASSUME TypeOK, TypeOK', RunInv, NEW c \in Calls, Effect(c) \/ EffectFails(c) \/ Mark(c)
  PROVE  RunInv'
<1> PICK j \in Ids : call[c].id = j
  BY DEF TypeOK, CallType
<1>1. /\ j \in Ids /\ c \in Executing(j) /\ Quiet
      /\ UNCHANGED <<phase, overlapped, barred>>
  BY RequestQuiet DEF Effect, EffectFails, Mark, TypeOK, CallType, At, Request, Answer, Executing, history
<1>2. /\ \A d \in Calls \ {c} : call'[d] = call[d]
      /\ (call'[c].pc = "mark" /\ call'[c].id = j) \/ call'[c].pc = "idle"
  BY DEF Effect, EffectFails, Mark, GoTo, Done, NoCall, TypeOK, CallType
<1>3. \A i \in Ids \ {j} : Executing(i)' = Executing(i)
  BY <1>2 DEF Executing
<1>4. Executing(j)' \subseteq Executing(j)
  BY <1>1, <1>2 DEF Executing
<1>5. \A i \in Ids \ {j} : runs'[i] = runs[i]
  BY DEF Effect, EffectFails, Mark, TypeOK, history
<1>6. failed \subseteq failed'
  BY DEF Effect, EffectFails, Mark, history
<1>7. CallsKnown'
  <2> SUFFICES ASSUME NEW d \in Calls, call'[d].pc # "idle"
               PROVE  phase'[call'[d].id] \notin {"new", "parking"}
    BY DEF CallsKnown, At
  <2>1. call'[d].id = call[d].id /\ call[d].pc # "idle"
    BY <1>1, <1>2 DEF Executing
  <2> QED
    BY <1>1, <2>1 DEF RunInv, CallsKnown, At
<1>8. BarredIsGone'
  <2>1. j \notin barred /\ \A i \in barred : i \in Ids
    BY <1>1 DEF RunInv, BarredIsGone, TypeOK
  <2> QED
    BY <1>1, <1>3, <1>5, <2>1 DEF RunInv, BarredIsGone
<1>9. ASSUME NEW i \in Ids \ (overlapped' \cup failed')
      PROVE  Once(i)'
  <2>1. Once(i)
    BY <1>1, <1>6 DEF RunInv, OnceUnlessExcused
  <2>2. CASE i # j
    <3>1. \A d \in Executing(i) : d # c
      BY <2>2 DEF Executing
    <3>2. \A d \in Executing(i) : d \in Calls /\ call'[d] = call[d]
      BY <1>2, <3>1 DEF Executing
    <3> QED
      BY <1>1, <1>3, <1>5, <2>1, <2>2, <3>2 DEF Once, At, Quiet, Wanes
  <2>3. CASE i = j
    <3>1. Executing(j) = {c}
      BY <1>1, <2>1, <2>3 DEF Once
    <3>2. CASE Effect(c)
      <4>1. call[c].pc = "exec" /\ runs' = [runs EXCEPT ![j] = @ + 1]
        BY <3>2 DEF Effect, At
      <4>2. runs[j] # 1
        BY <1>1, <2>1, <2>3, <4>1 DEF Once, At
      <4>3. runs[j] = 0 /\ runs'[j] = 1
        BY <1>1, <2>1, <2>3, <4>1, <4>2 DEF Once, TypeOK
      <4>4. GoTo(c, "mark")
        BY <2>3, <3>2 DEF Effect
      <4>5. call'[c].pc = "mark" /\ call'[c].id = j
        BY <4>4 DEF GoTo, TypeOK, CallType
      <4>6. Executing(j)' = {c}
        BY <1>4, <3>1, <4>5 DEF Executing
      <4> QED
        BY <2>3, <4>3, <4>5, <4>6 DEF Once, At
    <3>3. CASE EffectFails(c)
      <4>1. runs[j] # 1
        BY <1>1, <2>1, <2>3, <3>3 DEF Once, EffectFails, At
      <4>2. runs' = runs /\ Executing(j)' \subseteq {c}
        BY <1>4, <3>1, <3>3 DEF EffectFails, history
      <4>3. /\ runs'[i] <= 1 /\ runs'[i] # 1
            /\ \A d, e \in Executing(i)' : d = e
        BY <2>1, <2>3, <4>1, <4>2 DEF Once
      <4> QED
        BY <4>3 DEF Once
    <3>4. CASE Mark(c)
      <4>1. runs' = runs /\ call'[c].pc = "idle" /\ action'[j].applied
        BY <1>1, <3>4 DEF Mark, Done, NoCall, TypeOK, ActionType, history
      <4>2. Executing(j)' = {}
        BY <1>4, <3>1, <4>1 DEF Executing
      <4>3. Executing(i)' = {} /\ runs'[i] <= 1 /\ action'[i].applied
        BY <2>1, <2>3, <4>1, <4>2 DEF Once
      <4> QED
        BY <4>3 DEF Once
    <3> QED
      BY <3>2, <3>3, <3>4
  <2> QED
    BY <2>2, <2>3
<1> QED
  BY <1>7, <1>8, <1>9 DEF RunInv, OnceUnlessExcused

\* A rejection takes the proposal out of the store for good.
LEMMA RejectRuns ==
  ASSUME TypeOK, TypeOK', RunInv, NEW c \in Calls, Reject(c)
  PROVE  RunInv'
<1> PICK j \in Ids : call[c].id = j
  BY DEF TypeOK, CallType
<1>1. j \in Ids /\ call[c].pc = "reject" /\ Quiet /\ UNCHANGED <<runs, overlapped, failed>>
  BY RequestQuiet DEF Reject, TypeOK, CallType, At, Request, Answer
<1>2. call'[c].pc = "idle" /\ \A d \in Calls \ {c} : call'[d] = call[d]
  BY DEF Reject, Done, NoCall, TypeOK
<1>3. \A i \in Ids : Executing(i)' = Executing(i)
  BY <1>1, <1>2 DEF Executing
<1>4. phase[j] \in {"stored", "gone"}
  BY <1>1 DEF RunInv, CallsKnown, At, TypeOK
<1>5. phase'[j] = "gone"
  BY <1>1, <1>4 DEF Reject, TypeOK
<1>6. CallsKnown'
  BY <1>1, <1>2 DEF RunInv, CallsKnown, At, Quiet, Wanes, TypeOK, CallType
<1>7. OnceUnlessExcused'
  <2> SUFFICES ASSUME NEW i \in Ids \ (overlapped \cup failed)
               PROVE  Once(i)'
    BY <1>1 DEF OnceUnlessExcused
  <2>1. Once(i)
    BY DEF RunInv, OnceUnlessExcused
  <2>2. \A d \in Executing(i) : call'[d] = call[d]
    BY <1>1, <1>2 DEF Executing
  <2> QED
    BY <1>1, <1>3, <2>1, <2>2 DEF Once, At, Quiet, Wanes
<1>8. BarredIsGone'
  <2> SUFFICES ASSUME NEW i \in barred'
               PROVE  phase'[i] = "gone" /\ runs'[i] = 0 /\ Executing(i)' = {}
    BY DEF BarredIsGone
  <2>1. i \in barred \/ (i = j /\ runs[j] = 0 /\ Executing(j) = {})
    BY DEF Reject
  <2>2. i \in Ids
    BY <1>1, <2>1 DEF TypeOK
  <2> QED
    BY <1>1, <1>3, <1>5, <2>1, <2>2 DEF RunInv, BarredIsGone, Quiet, Wanes
<1> QED
  BY <1>6, <1>7, <1>8 DEF RunInv

LEMMA NextRuns == TypeOK /\ RunInv /\ [Next]_vars => RunInv'
<1> SUFFICES ASSUME TypeOK, RunInv, [Next]_vars PROVE RunInv'
  OBVIOUS
<1>1. TypeOK'
  BY NextType
<1>2. CASE UNCHANGED vars
  BY <1>1, <1>2, SameRuns DEF vars, history
<1>3. CASE Tick
  BY <1>1, <1>3, SameRuns DEF Tick, history
<1>4. ASSUME NEW c \in Calls, Request(c) PROVE RunInv'
  BY <1>1, <1>4, ConfirmRuns, ApplyRuns, ExecutionRuns, RejectRuns DEF Request, Answer
<1> QED
  BY <1>1, <1>2, <1>3, <1>4, NextSteps, ToolRuns

\* The inductive invariant of executions: what a request in flight knows, how
\* an effect can have happened twice, and what a rejection leaves behind.
THEOREM RunInvariant == Spec => []RunInv
  BY InitRuns, NextRuns, TypeCorrect, PTL DEF Spec

\* A second effect needs overlapping executions or a failure after the first.
THEOREM RepeatsAreExplained == Spec => []RepeatExplained
<1>1. TypeOK /\ RunInv => RepeatExplained
  BY DEF RunInv, OnceUnlessExcused, Once, RepeatExplained, TypeOK
<1> QED
  BY <1>1, RunInvariant, TypeCorrect, PTL

\* A proposal rejected before any execution of it began never executes.
THEOREM RejectionIsFinal == Spec => []RejectIsFinal
<1>1. RunInv => RejectIsFinal
  BY DEF RunInv, BarredIsGone, RejectIsFinal
<1> QED
  BY <1>1, RunInvariant, PTL

-----------------------------------------------------------------------------
(* Eviction.                                                               *)

Gone(i) == Pending(i) /\ action[i].session # Chat /\ phase'[i] = "gone"
Excused(i) ==
    \/ action'[i].rejected
    \/ /\ Cardinality(Stored) = MaxPendingActions
       /\ \A j \in Stored : action[j].session # Chat /\ ~Expired(j)

LEMMA VictimOfInvestigation ==
  ASSUME NEW v \in Victims, ~Expired(v), action[v].session # Chat
  PROVE  \A j \in Stored : action[j].session # Chat /\ ~Expired(j)
<1> DEFINE old == {i \in Stored : Expired(i)}
           interactive == {i \in Stored : action[i].session = Chat}
<1>1. old = {}
  <2>1. CASE old # {}
    <3>1. v \in Oldest(old)
      BY <2>1 DEF Victims
    <3> QED
      BY <3>1 DEF Oldest, Stored
  <2> QED
    BY <2>1
<1>2. interactive = {}
  <2>1. CASE interactive # {}
    <3>1. v \in Oldest(interactive)
      BY <1>1, <2>1 DEF Victims
    <3> QED
      BY <3>1 DEF Oldest, Stored
  <2> QED
    BY <2>1
<1> QED
  BY <1>1, <1>2

LEMMA StepKeeps ==
  ASSUME TypeOK, Capacity, [Next]_vars, NEW i \in Ids, Gone(i)
  PROVE  Excused(i)
<1>1. phase[i] = "stored" /\ ~Expired(i) /\ phase'[i] = "gone"
  BY DEF Gone, Pending
<1>2. CASE UNCHANGED vars \/ Tick
  BY <1>1, <1>2 DEF vars, Tick
<1>3. ASSUME NEW k \in Ids, NEW s \in Sessions \cup {Chat}, NEW t \in Targets, Propose(k, s, t)
      PROVE  FALSE
  BY <1>1, <1>3 DEF Propose, TypeOK
<1>4. ASSUME NEW k \in Ids, Register(k) PROVE Excused(i)
  <2>1. k # i
    BY <1>1, <1>4 DEF Register
  <2>2. Cardinality(Stored) >= MaxPendingActions /\ i \in Victims
    BY <1>1, <1>4, <2>1 DEF Register, TypeOK
  <2>3. \A j \in Stored : action[j].session # Chat /\ ~Expired(j)
    BY <1>1, <2>2, VictimOfInvestigation DEF Gone
  <2>4. Cardinality(Stored) = MaxPendingActions
    BY <2>2, Parts, FiniteParts, AgentActionsAssumption DEF Capacity
  <2> QED
    BY <2>3, <2>4 DEF Excused
<1>5. ASSUME NEW c \in Calls, Request(c) PROVE Excused(i)
  <2>1. CASE Reject(c)
    <3>1. call[c].id \in Ids
      BY DEF TypeOK, CallType
    <3>2. i = call[c].id
      BY <1>1, <2>1, <3>1 DEF Reject, TypeOK
    <3>3. action' = [action EXCEPT ![i].rejected = TRUE]
      BY <1>1, <2>1, <3>2 DEF Reject
    <3> QED
      BY <3>3 DEF Excused, TypeOK, ActionType
  <2>2. ASSUME NEW k \in Ids, phase' = phase \/ phase' = Dropped(k)
        PROVE  FALSE
    BY <1>1, <2>2 DEF Dropped, TypeOK
  <2>3. ASSUME NEW k \in Ids, Confirm(c, k) \/ RejectFound(c, k)
        PROVE  FALSE
    BY <2>2, <2>3 DEF Confirm, RejectFound
  <2>4. CASE Apply(c)
    BY <2>2, <2>4 DEF Apply, TypeOK, CallType
  <2>5. CASE Effect(c) \/ EffectFails(c) \/ Mark(c)
    BY <1>1, <2>5 DEF Effect, EffectFails, Mark
  <2> QED
    BY <1>5, <2>1, <2>3, <2>4, <2>5 DEF Request, Answer
<1> QED
  BY <1>2, <1>3, <1>4, <1>5, NextSteps

\* No chat turn pushes an open proposal of an investigation out of the store.
THEOREM InvestigationsOutlastChat == Spec => InvestigationKept
<1>1. ASSUME TypeOK, Capacity, [Next]_vars
      PROVE  [\A i \in Ids :
                (Pending(i) /\ action[i].session # Chat /\ phase'[i] = "gone")
                    => \/ action'[i].rejected
                       \/ /\ Cardinality(Stored) = MaxPendingActions
                          /\ \A j \in Stored : action[j].session # Chat /\ ~Expired(j)]_vars
  BY <1>1, StepKeeps DEF Gone, Excused
<1> QED
  BY <1>1, TypeCorrect, StoreIsBounded, PTL DEF Spec, InvestigationKept
=============================================================================
