--------------------------- MODULE AgentActions ----------------------------
(***************************************************************************)
(* The agent's confirm-before-act store: AgentActionCoordinator (a bounded *)
(* map of proposals with deduplication, expiry and eviction),              *)
(* ProposalParking in front of it, and the confirm and reject endpoints    *)
(* with AgentActionApplier behind it.                                      *)
(*                                                                         *)
(* Every coordinator method runs under its lock and is one step; a tool    *)
(* call and a request are several, so they interleave. A proposal is       *)
(* identified with its id; its type, target and payload are one value of   *)
(* Targets. A proposal object outlives its place in the store, since a     *)
(* request may hold it.                                                    *)
(***************************************************************************)
EXTENDS Integers, FiniteSets

CONSTANTS
    Ids,                 \* proposals, in the order they are made
    Sessions,            \* OriginSessionId of background investigations
    Chat,                \* no origin: an interactive turn
    Targets,             \* what a proposal would do, and to what
    Wanted,              \* bound: the <<session, target>> pairs that tools propose
    Calls,               \* confirm and reject requests
    MaxPendingActions,   \* 10 in the code
    MaxPerInvestigation, \* 3 in the code
    InteractiveLifetime, InvestigationLifetime, \* 5 minutes and 24 hours
    MaxParks,            \* bound: tool calls of one run between cap check and registration
    MaxAsks,             \* bound: confirm requests
    MaxNow               \* bound: the clock

ASSUME AgentActionsAssumption ==
    /\ Ids \subseteq Nat /\ Ids # {} /\ IsFiniteSet(Ids) /\ Chat \notin Sessions
    /\ Wanted \subseteq (Sessions \cup {Chat}) \X Targets /\ Wanted # {}
    /\ MaxPendingActions \in Nat \ {0} /\ MaxPerInvestigation \in Nat \ {0}
    /\ InteractiveLifetime \in Nat /\ InvestigationLifetime \in Nat
    /\ MaxParks \in Nat \ {0} /\ MaxAsks \in Nat /\ MaxNow \in Nat

VARIABLES
    now,
    phase,      \* of a proposal: "new", "parking" (past the cap check), "stored", "gone"
    action,     \* PendingAgentAction
    call,       \* requests in the endpoints
    runs,       \* history: times the effect of a proposal took place
    asks,       \* history: confirm requests accepted
    overlapped, \* history: proposals two requests were executing at once
    failed,     \* history: proposals with an effect that was answered by a failure
    barred      \* history: proposals rejected before any execution began

history == <<runs, asks, overlapped, failed, barred>>
vars == <<now, phase, action, call, history>>

-----------------------------------------------------------------------------
(* The store.                                                              *)

Stored == {i \in Ids : phase[i] = "stored"}
Expired(i) == now > action[i].expires
Pending(i) == phase[i] = "stored" /\ ~Expired(i) /\ ~action[i].applied /\ ~action[i].rejected

\* CountPendingByOrigin counts these.
PendingOf(s) == {i \in Ids : Pending(i) /\ action[i].session = s}
Parking(s) == {i \in Ids : phase[i] = "parking" /\ action[i].session = s}

Lifetime(s) == IF s = Chat THEN InteractiveLifetime ELSE InvestigationLifetime
NoCall == [pc |-> "idle", id |-> CHOOSE i \in Ids : TRUE]

Init ==
    /\ now = 0
    /\ phase = [i \in Ids |-> "new"]
    /\ action \in [Ids -> {[session |-> Chat, target |-> t, created |-> 0, expires |-> 0,
                            confirmed |-> FALSE, applied |-> FALSE, rejected |-> FALSE] :
                              t \in {CHOOSE t \in Targets : TRUE}}]
    /\ call = [c \in Calls |-> NoCall]
    /\ runs = [i \in Ids |-> 0] /\ asks = 0
    /\ overlapped = {} /\ failed = {} /\ barred = {}

At(c, pc) == call[c].pc = pc
Done(c) == call' = [call EXCEPT ![c] = NoCall]
GoTo(c, pc) == call' = [call EXCEPT ![c].pc = pc]
NextNew(i) == phase[i] = "new" /\ \A j \in Ids : j < i => phase[j] # "new"
Executing(i) == {c \in Calls : call[c].id = i /\ call[c].pc \in {"exec", "mark"}}

-----------------------------------------------------------------------------
(* A propose tool.                                                         *)

\* Mutant: the cap compares with > instead of >=.
ProposeOneMore(i, s, t) ==
    /\ NextNew(i)
    /\ s # Chat => Cardinality(PendingOf(s)) <= MaxPerInvestigation
    /\ Cardinality(Parking(s)) < MaxParks
    /\ phase' = [phase EXCEPT ![i] = "parking"]
    /\ action' = [action EXCEPT ![i] = [@ EXCEPT !.session = s, !.target = t,
                                                 !.created = now, !.expires = now + Lifetime(s)]]
    /\ UNCHANGED <<now, call, history>>

\* ProposalParking.Park up to its RegisterAction: the provenance stamps, and
\* the cap, which is checked under a lock of its own.
Propose(i, s, t) ==
    /\ NextNew(i)
    /\ s # Chat => Cardinality(PendingOf(s)) < MaxPerInvestigation
    /\ Cardinality(Parking(s)) < MaxParks
    /\ phase' = [phase EXCEPT ![i] = "parking"]
    /\ action' = [action EXCEPT ![i] = [@ EXCEPT !.session = s, !.target = t,
                                                 !.created = now, !.expires = now + Lifetime(s)]]
    /\ UNCHANGED <<now, call, history>>

\* Mutant: chat turns share the deduplication, investigations do not.
SameOfAnyone(i) ==
    {j \in Stored : Pending(j) /\ action[i].session = Chat
                    /\ action[j].session = Chat /\ action[j].target = action[i].target}

\* The proposal that already stands for i, if any.
Same(i) ==
    {j \in Stored : Pending(j) /\ action[i].session # Chat
                    /\ action[j].session = action[i].session /\ action[j].target = action[i].target}

Oldest(S) == {i \in S : \A j \in S : action[i].created <= action[j].created}

\* Mutant: the oldest proposal goes, whoever made it.
VictimsByAge == Oldest(Stored)

\* Whom a full store evicts: expired ones first, then interactive ones.
Victims ==
    LET old == {i \in Stored : Expired(i)}
        interactive == {i \in Stored : action[i].session = Chat}
    IN Oldest(CASE old # {} -> old
                [] old = {} /\ interactive # {} -> interactive
                [] OTHER -> Stored)

\* RegisterAction.
Register(i) ==
    /\ phase[i] = "parking"
    /\ \/ Same(i) # {} /\ phase' = [phase EXCEPT ![i] = "gone"]
       \/ /\ Same(i) = {} /\ Cardinality(Stored) < MaxPendingActions
          /\ phase' = [phase EXCEPT ![i] = "stored"]
       \/ /\ Same(i) = {} /\ Cardinality(Stored) >= MaxPendingActions
          /\ \E v \in Victims : phase' = [phase EXCEPT ![i] = "stored", ![v] = "gone"]
    /\ UNCHANGED <<now, action, call, history>>

-----------------------------------------------------------------------------
(* Requests. GetAction returns a stored proposal and drops an expired one. *)

Found(i) == phase[i] = "stored" /\ ~Expired(i)

\* The store after a lookup of i: an expired proposal is removed by it.
Dropped(i) == [phase EXCEPT ![i] = IF @ = "stored" /\ Expired(i) THEN "gone" ELSE @]

\* ConfirmActionAsync until it calls the applier.
Confirm(c, i) ==
    /\ At(c, "idle") /\ asks < MaxAsks
    /\ \/ /\ Found(i)
          /\ action' = [action EXCEPT ![i].confirmed = TRUE]
          /\ call' = [call EXCEPT ![c] = [pc |-> "apply", id |-> i]]
          /\ asks' = asks + 1
          /\ UNCHANGED phase
       \/ /\ phase[i] = "stored" /\ Expired(i)
          /\ phase' = Dropped(i)
          /\ UNCHANGED <<action, call, asks>>
    /\ UNCHANGED <<now, runs, overlapped, failed, barred>>

Applicable(i) == Found(i) /\ action[i].confirmed /\ ~action[i].applied /\ ~action[i].rejected

\* Mutant: the applier goes on with the proposal the endpoint looked up.
ApplyHeld(c) ==
    LET i == call[c].id IN
    /\ At(c, "apply")
    /\ GoTo(c, "exec")
    /\ overlapped' = IF Executing(i) # {} THEN overlapped \cup {i} ELSE overlapped
    /\ UNCHANGED <<now, phase, action, runs, asks, failed, barred>>

\* Mutant: the applier forgets that a proposal has been applied.
ApplyAgain(c) ==
    LET i == call[c].id IN
    /\ At(c, "apply")
    /\ phase' = Dropped(i)
    /\ IF Found(i) /\ action[i].confirmed /\ ~action[i].rejected
       THEN /\ GoTo(c, "exec")
            /\ overlapped' = IF Executing(i) # {} THEN overlapped \cup {i} ELSE overlapped
       ELSE Done(c) /\ UNCHANGED overlapped
    /\ UNCHANGED <<now, action, runs, asks, failed, barred>>

\* ApplyAsync up to the executor's call.
Apply(c) ==
    LET i == call[c].id IN
    /\ At(c, "apply")
    /\ phase' = Dropped(i)
    /\ \/ /\ Applicable(i)
          /\ GoTo(c, "exec")
          /\ overlapped' = IF Executing(i) # {} THEN overlapped \cup {i} ELSE overlapped
       \/ ~Applicable(i) /\ Done(c) /\ UNCHANGED overlapped
    /\ UNCHANGED <<now, action, runs, asks, failed, barred>>

\* The executor's effect; it answers success, or fails or throws afterwards.
Effect(c) ==
    LET i == call[c].id IN
    /\ At(c, "exec")
    /\ runs' = [runs EXCEPT ![i] = @ + 1]
    /\ \/ GoTo(c, "mark") /\ UNCHANGED failed
       \/ Done(c) /\ failed' = failed \cup {i}
    /\ UNCHANGED <<now, phase, action, asks, overlapped, barred>>

\* The executor fails, throws or is cancelled before its effect.
EffectFails(c) ==
    /\ At(c, "exec")
    /\ Done(c)
    /\ UNCHANGED <<now, phase, action, history>>

\* MarkApplied. The proposal stays in the store.
Mark(c) ==
    /\ At(c, "mark")
    /\ action' = [action EXCEPT ![call[c].id].applied = TRUE]
    /\ Done(c)
    /\ UNCHANGED <<now, phase, history>>

\* The reject endpoint looks the proposal up ...
RejectFound(c, i) ==
    /\ At(c, "idle") /\ phase[i] = "stored"
    /\ phase' = Dropped(i)
    /\ call' = IF Found(i) THEN [call EXCEPT ![c] = [pc |-> "reject", id |-> i]] ELSE call
    /\ UNCHANGED <<now, action, history>>

\* ... and RejectAction removes it, when it is still there; the answer is
\* the same either way.
Reject(c) ==
    LET i == call[c].id IN
    /\ At(c, "reject")
    /\ Done(c)
    /\ IF phase[i] = "stored"
       THEN /\ action' = [action EXCEPT ![i].rejected = TRUE]
            /\ phase' = [phase EXCEPT ![i] = "gone"]
       ELSE UNCHANGED <<action, phase>>
    /\ barred' = IF runs[i] = 0 /\ Executing(i) = {} THEN barred \cup {i} ELSE barred
    /\ UNCHANGED <<now, runs, asks, overlapped, failed>>

Tick ==
    /\ now < MaxNow
    /\ now' = now + 1
    /\ UNCHANGED <<phase, action, call, history>>

-----------------------------------------------------------------------------

Next ==
    \/ \E i \in Ids : \/ \E w \in Wanted : Propose(i, w[1], w[2])
                      \/ Register(i)
    \/ \E c \in Calls : \/ \E i \in Ids : Confirm(c, i) \/ RejectFound(c, i)
                        \/ Apply(c) \/ Effect(c) \/ EffectFails(c) \/ Mark(c) \/ Reject(c)
    \/ Tick

Spec == Init /\ [][Next]_vars

-----------------------------------------------------------------------------
(* Properties.                                                             *)

ActionType ==
    [session : Sessions \cup {Chat}, target : Targets, created : Nat, expires : Nat,
     confirmed : BOOLEAN, applied : BOOLEAN, rejected : BOOLEAN]
CallType == [pc : {"idle", "apply", "exec", "mark", "reject"}, id : Ids]

\* The types of the variables.
TypeOK ==
    /\ now \in 0 .. MaxNow
    /\ phase \in [Ids -> {"new", "parking", "stored", "gone"}]
    /\ action \in [Ids -> ActionType]
    /\ call \in [Calls -> CallType]
    /\ runs \in [Ids -> Nat] /\ asks \in 0 .. MaxAsks
    /\ overlapped \subseteq Ids /\ failed \subseteq Ids /\ barred \subseteq Ids

\* The store is bounded (RegisterAction evicts before it inserts), whatever
\* expires, is applied or is rejected in it meanwhile.
Capacity == Cardinality(Stored) <= MaxPendingActions

\* One investigation has at most one open proposal for the same action on the
\* same target: tool calls that race each other register it once.
NoDuplicateProposal ==
    \A i, j \in Ids :
        (Pending(i) /\ Pending(j) /\ i # j /\ action[i].session # Chat)
            => (action[i].session # action[j].session \/ action[i].target # action[j].target)

\* The cap of an investigation is checked before, and not in, the lock that
\* registers: it is exceeded by at most the tool calls that run in parallel,
\* the proposals on their way to the store counted.
CapWithinOverlap ==
    \A s \in Sessions :
        Cardinality(PendingOf(s)) + Cardinality(Parking(s)) <= MaxPerInvestigation + MaxParks - 1

\* The effect of a proposal takes place a second time only when two confirm
\* requests were executing it at once, or when an execution that had its
\* effect was answered by a failure.
RepeatExplained == \A i \in Ids : runs[i] > 1 => i \in overlapped \cup failed

\* A proposal that was rejected before an execution of it began is never
\* executed, whatever confirm request was already under way.
RejectIsFinal == \A i \in barred : runs[i] = 0 /\ Executing(i) = {}

\* An open proposal of an investigation leaves the store when it is rejected,
\* or to make room in a store with no expired and no interactive proposal.
InvestigationKept ==
    [][\A i \in Ids :
          (Pending(i) /\ action[i].session # Chat /\ phase'[i] = "gone")
              => \/ action'[i].rejected
                 \/ /\ Cardinality(Stored) = MaxPendingActions
                    /\ \A j \in Stored : action[j].session # Chat /\ ~Expired(j)]_vars

\* "executes once" (AgentActionApplier.ApplyAsync): leaving executions that
\* failed aside, the effect of a confirmed proposal takes place once.
ExecutesOnce == \A i \in Ids \ failed : runs[i] <= 1

\* "Max proposals one background investigation may park" (ProposalParking.cs:14),
\* "hard-enforced" (ProactiveInvestigationRunner.cs:166): tool calls that overlap
\* exceed it, by as much as CapWithinOverlap says.
CapIsHard ==
    \A s \in Sessions : s # Chat => Cardinality(PendingOf(s)) <= MaxPerInvestigation
=============================================================================
