-------------------------- MODULE AlertEvaluation --------------------------
(***************************************************************************)
(* The alert engine (MonitoringAlertEvaluationService): a hosted loop that *)
(* evaluates the due rules in one pass at a time, each evaluation a task   *)
(* that takes one of a few permits, and the requests that edit rules in    *)
(* the file (AlertRuleRepository) and reload the engine.                   *)
(*                                                                         *)
(* Time is abstract: a rule is due or not, and in its cooldown or not. A   *)
(* rule that is switched off and one whose signal source is not registered *)
(* are the same: neither is sampled.                                       *)
(***************************************************************************)
EXTENDS Integers, FiniteSets

CONSTANTS
    Rules,
    Requests,       \* requests that create, edit, delete or mute a rule
    MaxConcurrent,  \* MaxConcurrentEvaluations
    MaxChanges,     \* bound: requests accepted
    MaxUnreadable   \* bound: reads of the rule file that fail

ASSUME AlertEvaluationAssumption ==
    /\ IsFiniteSet(Rules) /\ Rules # {}
    /\ MaxConcurrent \in Nat \ {0} /\ MaxChanges \in Nat /\ MaxUnreadable \in Nat

VARIABLES
    file,      \* the saved rules: "none", "off" or "on"
    rules,     \* _rules, the rules that the engine works with
    due,       \* rules without a NextEvaluateAt in the future
    cooling,   \* rules within their cooldown
    incidents, \* _openIncidents
    loop,      \* ExecuteAsync: "waiting", "pass" or "ended"
    eval,      \* the evaluation of each rule
    free,      \* permits left of _concurrencyLimit
    cancelled, \* an evaluation of this pass ended in a cancellation
    shown,     \* history: what the stream last said of each rule
    dropped,   \* history: rules whose open incident a reload dropped
    request,   \* requests in the endpoints
    changes,   \* history: requests accepted
    unread,    \* history: reads that failed
    tangled    \* history: requests overlapped, a reload could not read the file, or a
               \* save failed that was to repair it, since a request last ran alone

schedule == <<due, cooling>>
pass == <<loop, eval, free, cancelled>>
edits == <<file, rules, request, changes, unread, tangled>>
engineVars == <<edits, schedule, incidents, pass, shown, dropped>>

Statuses == {"none", "off", "on"}
NoRequest == [pc |-> "idle", rule |-> CHOOSE r \in Rules : TRUE, to |-> "none",
              seen |-> [r \in Rules |-> "none"]]

EngineInit ==
    /\ file \in [Rules -> Statuses] /\ rules = file
    /\ due = Rules /\ cooling = {} /\ incidents = {}
    /\ loop = "waiting" /\ eval = [r \in Rules |-> "idle"]
    /\ free = MaxConcurrent /\ cancelled = FALSE
    /\ shown = [r \in Rules |-> "clear"] /\ dropped = {}
    /\ request = [q \in Requests |-> NoRequest]
    /\ changes = 0 /\ unread = 0 /\ tangled = FALSE

-----------------------------------------------------------------------------
(* The hosted loop.                                                        *)

\* EvaluateDueRulesAsync starts a task for every due rule.
BeginPass ==
    /\ loop = "waiting"
    /\ loop' = "pass"
    /\ eval' = [r \in Rules |-> IF rules[r] = "on" /\ r \in due THEN "queued" ELSE "idle"]
    /\ UNCHANGED <<edits, schedule, incidents, free, cancelled, shown, dropped>>

\* Task.WhenAll. A cancelled task ends the loop: ExecuteAsync catches
\* OperationCanceledException outside of the loop.
EndPass ==
    /\ loop = "pass" /\ \A r \in Rules : eval[r] = "idle"
    /\ \/ cancelled /\ loop' = "ended"
       \/ ~cancelled /\ loop' = "waiting"
    /\ cancelled' = FALSE
    /\ UNCHANGED <<edits, schedule, incidents, eval, free, shown, dropped>>

\* Time passes until the next tick.
Elapse(r) ==
    /\ loop = "waiting"
    /\ \/ r \notin due /\ due' = due \cup {r} /\ UNCHANGED cooling
       \/ r \in cooling /\ cooling' = cooling \ {r} /\ UNCHANGED due
    /\ UNCHANGED <<edits, incidents, pass, shown, dropped>>

-----------------------------------------------------------------------------
(* One evaluation: EvaluateRuleAsync.                                      *)

Acquire(r) ==
    /\ eval[r] = "queued" /\ free > 0
    /\ free' = free - 1
    /\ eval' = [eval EXCEPT ![r] = "sampling"]
    /\ UNCHANGED <<edits, schedule, incidents, loop, cancelled, shown, dropped>>

Finish(r) == eval' = [eval EXCEPT ![r] = "idle"] /\ free' = free + 1
GoTo(r, stage) == eval' = [eval EXCEPT ![r] = stage] /\ UNCHANGED free

\* Ok: the open incident, if any, is resolved.
SampleOk(r) ==
    /\ eval[r] = "sampling"
    /\ due' = due \ {r}
    /\ incidents' = incidents \ {r}
    /\ \/ r \in incidents /\ GoTo(r, "resolving")
       \/ r \notin incidents /\ Finish(r)
    /\ UNCHANGED <<edits, cooling, loop, cancelled, shown, dropped>>

\* Mutant: an evaluation that failed closes the incident.
SampleBadCloses(r) ==
    /\ eval[r] = "sampling"
    /\ due' = due \ {r}
    /\ incidents' = incidents \ {r}
    /\ Finish(r)
    /\ UNCHANGED <<edits, cooling, loop, cancelled, shown, dropped>>

\* Error, Skipped, or an exception of the source: the rule is put off.
SampleBad(r) ==
    /\ eval[r] = "sampling"
    /\ due' = due \ {r}
    /\ Finish(r)
    /\ UNCHANGED <<edits, cooling, incidents, loop, cancelled, shown, dropped>>

\* Firing: within the cooldown nothing happens, else it is claimed and the
\* silences are loaded.
SampleFiring(r) ==
    /\ eval[r] = "sampling"
    /\ due' = due \ {r}
    /\ \/ r \in cooling /\ Finish(r) /\ UNCHANGED cooling
       \/ r \notin cooling /\ GoTo(r, "suppressing") /\ cooling' = cooling \cup {r}
    /\ UNCHANGED <<edits, incidents, loop, cancelled, shown, dropped>>

\* Mutant: the permit is given back after a sample only.
SampleCancelledLeaks(r) ==
    /\ eval[r] = "sampling"
    /\ GoTo(r, "idle")
    /\ cancelled' = TRUE
    /\ UNCHANGED <<edits, schedule, incidents, loop, shown, dropped>>

\* The source's own client times out: the signal sources rethrow every
\* OperationCanceledException, and so does EvaluateRuleAsync.
SampleCancelled(r) ==
    /\ eval[r] = "sampling"
    /\ Finish(r)
    /\ cancelled' = TRUE
    /\ UNCHANGED <<edits, schedule, incidents, loop, shown, dropped>>

\* The silences are there (or could not be loaded: the firing goes ahead);
\* the incident is open before its history row is appended.
Record(r, muted) ==
    /\ eval[r] = "suppressing"
    /\ incidents' = incidents \cup {r}
    /\ GoTo(r, IF muted THEN "announcing muted" ELSE "announcing")
    /\ UNCHANGED <<edits, schedule, loop, cancelled, shown, dropped>>

\* AlertFired, after the attempt to append the history row.
AnnounceFired(r) ==
    /\ eval[r] \in {"announcing", "announcing muted"}
    /\ shown' = [shown EXCEPT ![r] = "firing"]
    /\ dropped' = IF r \in incidents THEN dropped \ {r} ELSE dropped
    /\ Finish(r)
    /\ UNCHANGED <<edits, schedule, incidents, loop, cancelled>>

\* AlertResolved.
AnnounceResolved(r) ==
    /\ eval[r] = "resolving"
    /\ shown' = [shown EXCEPT ![r] = "clear"]
    /\ Finish(r)
    /\ UNCHANGED <<edits, schedule, incidents, loop, cancelled, dropped>>

-----------------------------------------------------------------------------
(* Requests that change rules.                                             *)

At(q, pc) == request[q].pc = pc

\* Create, update, delete, or the executor of a proposed rule; a mute too,
\* which upserts the rule as it has read it before.
Change(q, r, to) ==
    /\ At(q, "idle") /\ changes < MaxChanges
    /\ request' = [request EXCEPT ![q] = [NoRequest EXCEPT !.pc = "load", !.rule = r, !.to = to]]
    /\ changes' = changes + 1
    /\ tangled' = \E p \in Requests : ~At(p, "idle")
    /\ UNCHANGED <<file, rules, unread, schedule, incidents, pass, shown, dropped>>

\* GetAllAsync: a file that cannot be read counts as an empty list.
CanRead(list, excuse) ==
    \/ list = file /\ UNCHANGED <<unread, tangled>>
    \/ /\ unread < MaxUnreadable
       /\ list = [r \in Rules |-> "none"]
       /\ unread' = unread + 1 /\ tangled' = (tangled \/ excuse)

\* UpsertAsync or DeleteAsync loads the list ...
Load(q) ==
    /\ At(q, "load")
    /\ \E list \in {file, [r \in Rules |-> "none"]} :
          /\ CanRead(list, FALSE)
          /\ request' = [request EXCEPT ![q] = [@ EXCEPT !.pc = "save", !.seen = list]]
    /\ UNCHANGED <<file, rules, changes, schedule, incidents, pass, shown, dropped>>

\* ... and saves it with the one rule changed.
Save(q) ==
    /\ At(q, "save")
    /\ file' = [request[q].seen EXCEPT ![request[q].rule] = request[q].to]
    /\ request' = [request EXCEPT ![q] = [@ EXCEPT !.pc = "reload"]]
    /\ UNCHANGED <<rules, changes, unread, tangled, schedule, incidents, pass, shown, dropped>>

\* A save that fails, after its retries, ends the request without a reload.
SaveFails(q) ==
    /\ At(q, "save")
    /\ request' = [request EXCEPT ![q] = NoRequest]
    /\ tangled' = (tangled \/ rules # file)
    /\ UNCHANGED <<file, rules, changes, unread, schedule, incidents, pass, shown, dropped>>

\* ReloadRulesAsync reads the file ...
Reload(q) ==
    /\ At(q, "reload")
    /\ \E list \in {file, [r \in Rules |-> "none"]} :
          /\ CanRead(list, TRUE)
          /\ request' = [request EXCEPT ![q] = [@ EXCEPT !.pc = "install", !.seen = list]]
    /\ UNCHANGED <<file, rules, changes, schedule, incidents, pass, shown, dropped>>

\* Mutant: the engine keeps the rules it has.
InstallSchedule(q) ==
    /\ At(q, "install")
    /\ due' = Rules /\ cooling' = {}
    /\ request' = [request EXCEPT ![q] = NoRequest]
    /\ UNCHANGED <<file, rules, changes, unread, tangled, incidents, pass, shown, dropped>>

\* ... and takes the list over: schedule and cooldowns start afresh, and
\* incidents of rules that are gone are dropped.
Install(q) ==
    LET list == request[q].seen
        gone == {r \in incidents : list[r] = "none"}
    IN /\ At(q, "install")
       /\ rules' = list
       /\ due' = Rules /\ cooling' = {}
       /\ incidents' = incidents \ gone
       /\ dropped' = dropped \cup gone
       /\ request' = [request EXCEPT ![q] = NoRequest]
       /\ UNCHANGED <<file, changes, unread, tangled, pass, shown>>

-----------------------------------------------------------------------------

Loop == BeginPass \/ EndPass \/ \E r \in Rules : Elapse(r)

\* The steps of an evaluation that nobody else reacts to.
Evaluation(r) ==
    \/ Acquire(r) \/ SampleBad(r) \/ SampleFiring(r) \/ SampleCancelled(r)
    \/ (\E muted \in BOOLEAN : Record(r, muted)) \/ AnnounceResolved(r)

Edit(q) ==
    \/ \E r \in Rules, to \in Statuses : Change(q, r, to)
    \/ Load(q) \/ Save(q) \/ SaveFails(q) \/ Reload(q) \/ Install(q)

EngineNext ==
    \/ Loop
    \/ \E r \in Rules : Evaluation(r) \/ SampleOk(r) \/ AnnounceFired(r)
    \/ \E q \in Requests : Edit(q)

EngineSpec == EngineInit /\ [][EngineNext]_engineVars

\* The thread pool runs every task, and the sources and the store answer or
\* time out. Permits are handed out in turn (SemaphoreSlim queues its waiters).
FairEngineSpec ==
    /\ EngineSpec
    /\ WF_engineVars(EndPass)
    /\ \A r \in Rules : WF_engineVars(Evaluation(r) \/ SampleOk(r) \/ AnnounceFired(r))

-----------------------------------------------------------------------------
(* Properties.                                                             *)

RequestType ==
    [pc : {"idle", "load", "save", "reload", "install"}, rule : Rules, to : Statuses,
     seen : [Rules -> Statuses]]
Stages == {"idle", "queued", "sampling", "suppressing", "announcing", "announcing muted", "resolving"}

\* The types of the variables; a permit is out for every evaluation under way.
EngineTypeOK ==
    /\ file \in [Rules -> Statuses] /\ rules \in [Rules -> Statuses]
    /\ due \subseteq Rules /\ cooling \subseteq Rules /\ incidents \subseteq Rules
    /\ loop \in {"waiting", "pass", "ended"} /\ eval \in [Rules -> Stages]
    /\ free \in 0 .. MaxConcurrent /\ cancelled \in BOOLEAN
    /\ shown \in [Rules -> {"clear", "firing"}] /\ dropped \subseteq Rules
    /\ request \in [Requests -> RequestType]
    /\ changes \in 0 .. MaxChanges /\ unread \in 0 .. MaxUnreadable /\ tangled \in BOOLEAN

\* What the stream last said of a rule and the engine's open incidents agree
\* between evaluations, however reloads and evaluations interleave: an alert is
\* shown as firing until its recovery is announced, and the only incidents that
\* end unannounced are those of rules that a reload found gone.
FiringIsShown ==
    \A r \in Rules : eval[r] \in {"idle", "queued", "sampling", "suppressing"} =>
        /\ r \in incidents => shown[r] = "firing"
        /\ shown[r] = "firing" => r \in incidents \/ r \in dropped

\* Between requests the engine works with the saved rules, unless requests
\* overlapped or a reload could not read the file; one request that runs alone
\* puts it right again.
RulesFollowFile ==
    (~tangled /\ \A q \in Requests : At(q, "idle")) => rules = file

\* Every pass of the engine ends: no evaluation waits for ever for a permit,
\* whatever the others fail, throw or are cancelled with.
PassEnds == loop = "pass" ~> loop # "pass"

\* "the hosted loop calls this on every timer tick" (RunEvaluationOnceAsync):
\* evaluation goes on as long as the application runs.
LoopGoesOn == loop # "ended"
=============================================================================
