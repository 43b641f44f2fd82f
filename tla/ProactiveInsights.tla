------------------------- MODULE ProactiveInsights -------------------------
(***************************************************************************)
(* Proactive insights (ProactiveInsightService) on top of the alert        *)
(* engine: every AlertFired event starts a task that may investigate the   *)
(* alert and file a report. One investigation runs at a time, and a firing *)
(* episode, released when the rule evaluates Ok, allows one investigation  *)
(* per incident. The engine's events and the service's handlers of them    *)
(* are one step; everything the task awaits is another.                    *)
(***************************************************************************)
EXTENDS AlertEvaluation

CONSTANTS
    Tasks,         \* HandleAlertFiredAsync, running
    MaxRecoveries  \* bound: incidents of a rule that are resolved

ASSUME ProactiveInsightsAssumption == MaxRecoveries \in Nat

VARIABLES
    busy,     \* _busy
    episodes, \* _openFiringEpisodes
    task,
    alarmed,  \* history: rules that fired since they last evaluated Ok
    closed,   \* history: how many incidents of each rule have ended with an Ok
    reported, \* history: incidents, <<rule, number>>, with a report
    repeated, \* history: incidents with two reports
    waved,    \* history: incidents of which a firing was skipped as investigated
              \* while no investigation of them was under way or had succeeded
    excused   \* history: incidents that a late task, or one that failed before
              \* it claimed the episode, belonged to or met

insightHistory == <<alarmed, closed, reported, repeated, waved, excused>>
insightVars == <<busy, episodes, task, insightHistory>>
vars == <<engineVars, insightVars>>

NoTask == [pc |-> "idle", rule |-> CHOOSE r \in Rules : TRUE, number |-> 0]

Init ==
    /\ EngineInit
    /\ busy = FALSE /\ episodes = {}
    /\ task = [t \in Tasks |-> NoTask]
    /\ alarmed = {} /\ closed = [r \in Rules |-> 0]
    /\ reported = {} /\ repeated = {} /\ waved = {} /\ excused = {}

Incident(t) == <<task[t].rule, task[t].number>>
Current(r) == <<r, closed[r]>>
Working(t) == task[t].pc \in {"probe", "draft", "report"}
In(t, pc) == task[t].pc = pc
Move(t, pc) == task' = [task EXCEPT ![t].pc = pc]

\* The finally block: the slot is given back.
Leave(t) == busy' = FALSE /\ task' = [task EXCEPT ![t] = NoTask]

-----------------------------------------------------------------------------
(* Reactions to the engine's events.                                       *)

\* OnEvaluationCompleted: Ok closes the episode.
OnRecovered(r) ==
    /\ episodes' = episodes \ {r}
    /\ alarmed' = alarmed \ {r}
    /\ closed' = IF r \in alarmed THEN [closed EXCEPT ![r] = @ + 1] ELSE closed
    /\ UNCHANGED <<busy, task, reported, repeated, waved, excused>>

\* OnAlertFired: Task.Run. The task of a suppressed firing only says so.
OnAlertFired(r) ==
    /\ \/ eval[r] = "announcing muted" /\ UNCHANGED task
       \/ /\ eval[r] = "announcing"
          /\ \E t \in Tasks :
                /\ In(t, "idle")
                /\ task' = [task EXCEPT ![t] = [pc |-> "start", rule |-> r, number |-> closed[r]]]
    /\ alarmed' = alarmed \cup {r}
    /\ UNCHANGED <<busy, episodes, closed, reported, repeated, waved, excused>>

-----------------------------------------------------------------------------
(* The task: HandleAlertFiredAsync.                                        *)

\* A firing that finds the slot taken is dropped.
Start(t) ==
    /\ In(t, "start")
    /\ \/ busy /\ task' = [task EXCEPT ![t] = NoTask] /\ UNCHANGED busy
       \/ ~busy /\ busy' = TRUE /\ Move(t, "gates")
    /\ UNCHANGED <<episodes, insightHistory>>

\* Mutant: the gates return outside of the try block.
RejectKeepsSlot(t) ==
    /\ In(t, "gates")
    /\ task' = [task EXCEPT ![t] = NoTask]
    /\ UNCHANGED <<busy, episodes, insightHistory>>

\* The rule is gone, investigations are off for it, no model can call tools,
\* or the alert has no resource.
Reject(t) ==
    /\ In(t, "gates")
    /\ Leave(t)
    /\ UNCHANGED <<episodes, insightHistory>>

\* The episode is claimed.
Claim(t) ==
    LET r == task[t].rule IN
    /\ In(t, "gates") /\ file[r] # "none" /\ r \notin episodes
    /\ episodes' = episodes \cup {r}
    /\ Move(t, "probe")
    /\ excused' = IF Incident(t) = Current(r) THEN excused
                  ELSE excused \cup {Incident(t), Current(r)}
    /\ UNCHANGED <<busy, alarmed, closed, reported, repeated, waved>>

Investigated(i) == i \in reported \/ \E t \in Tasks : Working(t) /\ Incident(t) = i

\* Or it is taken: an earlier firing was already investigated.
SkipInvestigated(t) ==
    LET r == task[t].rule IN
    /\ In(t, "gates") /\ file[r] # "none" /\ r \in episodes
    /\ Leave(t)
    /\ waved' = IF Investigated(Incident(t)) THEN waved ELSE waved \cup {Incident(t)}
    /\ excused' = IF Incident(t) = Current(r) THEN excused ELSE excused \cup {Incident(t)}
    /\ UNCHANGED <<episodes, alarmed, closed, reported, repeated>>

\* Something throws before the claim. The catch block releases the episode
\* that this task does not hold.
GatesThrow(t) ==
    /\ In(t, "gates")
    /\ Leave(t)
    /\ episodes' = episodes \ {task[t].rule}
    /\ excused' = excused \cup {Incident(t), Current(task[t].rule)}
    /\ UNCHANGED <<alarmed, closed, reported, repeated, waved>>

\* InvestigateAsync has a result, or none and the single-shot probe follows.
Investigate(t) ==
    /\ In(t, "probe")
    /\ Move(t, "report") \/ Move(t, "draft")
    /\ UNCHANGED <<busy, episodes, insightHistory>>

\* The probe and the draft made from it.
Draft(t) ==
    /\ In(t, "draft")
    /\ Move(t, "report")
    /\ UNCHANGED <<busy, episodes, insightHistory>>

\* Mutant: a failed investigation keeps the episode.
FailHolding(t) ==
    /\ task[t].pc \in {"draft", "report"}
    /\ Leave(t)
    /\ UNCHANGED <<episodes, insightHistory>>

\* No usable draft, or an exception before the report is out: the episode is
\* released for a later firing.
Fail(t) ==
    /\ task[t].pc \in {"draft", "report"}
    /\ Leave(t)
    /\ episodes' = episodes \ {task[t].rule}
    /\ UNCHANGED insightHistory

\* Mutant: the episode ends with the investigation.
ReportReleases(t) ==
    /\ In(t, "report")
    /\ Leave(t)
    /\ episodes' = episodes \ {task[t].rule}
    /\ reported' = reported \cup {Incident(t)}
    /\ repeated' = IF Incident(t) \in reported THEN repeated \cup {Incident(t)} ELSE repeated
    /\ UNCHANGED <<alarmed, closed, waved, excused>>

\* The attempt to save the report, and InsightReady, whose handlers only write
\* to the channel of an event stream.
Report(t) ==
    /\ In(t, "report")
    /\ Leave(t)
    /\ reported' = reported \cup {Incident(t)}
    /\ repeated' = IF Incident(t) \in reported THEN repeated \cup {Incident(t)} ELSE repeated
    /\ UNCHANGED <<episodes, alarmed, closed, waved, excused>>

Progress(t) ==
    \/ Start(t) \/ Reject(t) \/ Claim(t) \/ SkipInvestigated(t) \/ GatesThrow(t)
    \/ Investigate(t) \/ Draft(t) \/ Fail(t) \/ Report(t)

-----------------------------------------------------------------------------

Next ==
    \/ (Loop \/ \E q \in Requests : Edit(q)) /\ UNCHANGED insightVars
    \/ \E r \in Rules :
          \/ Evaluation(r) /\ UNCHANGED insightVars
          \/ (r \in alarmed => closed[r] < MaxRecoveries) /\ SampleOk(r) /\ OnRecovered(r)
          \/ AnnounceFired(r) /\ OnAlertFired(r)
    \/ \E t \in Tasks : Progress(t) /\ UNCHANGED engineVars

Spec == Init /\ [][Next]_vars

\* The thread pool runs every task; the store, the probe and the model answer
\* or time out.
FairSpec == Spec /\ \A t \in Tasks : WF_vars(Progress(t) /\ UNCHANGED engineVars)

-----------------------------------------------------------------------------
(* Properties.                                                             *)

TaskType == [pc : {"idle", "start", "gates", "probe", "draft", "report"}, rule : Rules,
             number : Nat]

\* The types of the variables.
TypeOK ==
    /\ EngineTypeOK
    /\ busy \in BOOLEAN /\ episodes \subseteq Rules
    /\ alarmed \subseteq Rules
    /\ task \in [Tasks -> TaskType] /\ closed \in [Rules -> Nat]
    /\ reported \subseteq Rules \X Nat /\ repeated \subseteq Rules \X Nat
    /\ waved \subseteq Rules \X Nat /\ excused \subseteq Rules \X Nat

\* "one investigation per incident, not per firing": an incident has a second
\* report only when a task of it claimed the episode after its recovery, or
\* failed before it claimed one and released another's.
OneReportPerIncident == repeated \subseteq excused

\* A firing is skipped as investigated only when an investigation of its own
\* incident is under way or has succeeded; again late tasks are the exception.
SkipIsHonest == waved \subseteq excused

\* The one slot for investigations is given back, whatever fails or throws.
SlotIsGivenBack == busy ~> ~busy
=============================================================================
