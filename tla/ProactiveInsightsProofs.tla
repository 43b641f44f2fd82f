---------------------- MODULE ProactiveInsightsProofs ----------------------
(***************************************************************************)
(* The safety properties of AlertEvaluation and ProactiveInsights for      *)
(* every set of rules, of requests and of tasks, and every number of       *)
(* permits: first those of the engine alone, then that the composition     *)
(* implements the engine, then those of the service.                       *)
(***************************************************************************)
EXTENDS ProactiveInsights, FiniteSetTheorems, TLAPS

-----------------------------------------------------------------------------
(* The engine alone.                                                       *)

ActiveStages == Stages \ {"idle", "queued"}
Active == {r \in Rules : eval[r] \in ActiveStages}

\* Every evaluation under way holds one of the permits.
Permits == Cardinality(Active) + free = MaxConcurrent

\* Nothing is evaluated between the passes.
PassOnly == loop # "pass" => \A r \in Rules : eval[r] = "idle"

\* What the incidents and the stream say of a rule at each stage.
Shown(r) ==
    /\ eval[r] \in {"idle", "queued", "sampling", "suppressing"} =>
          /\ r \in incidents => shown[r] = "firing"
          /\ shown[r] = "firing" => r \in incidents \/ r \in dropped
    /\ eval[r] \in {"announcing", "announcing muted"} => r \in incidents \/ r \in dropped
    /\ eval[r] = "resolving" => r \notin incidents
AllShown == \A r \in Rules : Shown(r)

\* A request that runs alone carries the saved rules to the engine.
Alone ==
    ~tangled =>
        /\ \A p, q \in Requests : ~At(p, "idle") /\ ~At(q, "idle") => p = q
        /\ \A q \in Requests : At(q, "install") => request[q].seen = file
        /\ (\A q \in Requests : At(q, "idle")) => rules = file

EngineInv == EngineTypeOK /\ Permits /\ PassOnly /\ AllShown /\ Alone

\* The steps of a rule's evaluation.
Evaluate(r) == Evaluation(r) \/ SampleOk(r) \/ AnnounceFired(r)

-----------------------------------------------------------------------------
(* Typing and permits.                                                     *)

LEMMA NoRequestType == NoRequest \in RequestType
  BY AlertEvaluationAssumption DEF NoRequest, RequestType, Statuses

\* What an evaluation's step does to the pass, and the types of the rest.
LEMMA EvaluateShape ==
  ASSUME EngineTypeOK, NEW r \in Rules, Evaluate(r)
  PROVE  /\ UNCHANGED <<edits, loop>> /\ cancelled' \in BOOLEAN
         /\ due' \subseteq Rules /\ cooling' \subseteq Rules /\ incidents' \subseteq Rules
         /\ shown' \in [Rules -> {"clear", "firing"}] /\ dropped' \subseteq Rules
         /\ \E s \in Stages :
               /\ eval' = [eval EXCEPT ![r] = s]
               /\ \/ eval[r] = "queued" /\ s \in ActiveStages /\ free > 0 /\ free' = free - 1
                  \/ eval[r] \in ActiveStages /\ s \in ActiveStages /\ free' = free
                  \/ eval[r] \in ActiveStages /\ s = "idle" /\ free' = free + 1
<1> USE DEF EngineTypeOK, Stages, ActiveStages, Finish, GoTo, schedule
<1>1. CASE Acquire(r)
  BY <1>1 DEF Acquire
<1>2. CASE SampleOk(r)
  BY <1>2 DEF SampleOk
<1>3. CASE SampleBad(r)
  BY <1>3 DEF SampleBad
<1>4. CASE SampleFiring(r)
  BY <1>4 DEF SampleFiring
<1>5. CASE SampleCancelled(r)
  BY <1>5 DEF SampleCancelled
<1>6. ASSUME NEW muted \in BOOLEAN, Record(r, muted)
      PROVE  /\ UNCHANGED <<edits, loop, cancelled, due, cooling, shown, dropped, free>>
             /\ incidents' \subseteq Rules /\ eval[r] = "suppressing"
             /\ eval' = [eval EXCEPT ![r] = "announcing"]
                \/ eval' = [eval EXCEPT ![r] = "announcing muted"]
  BY <1>6 DEF Record
<1>7. CASE AnnounceFired(r)
  BY <1>7 DEF AnnounceFired
<1>8. CASE AnnounceResolved(r)
  BY <1>8 DEF AnnounceResolved
<1> QED
  BY <1>1, <1>2, <1>3, <1>4, <1>5, <1>6, <1>7, <1>8 DEF Evaluate, Evaluation

LEMMA ActiveFinite == IsFiniteSet(Active) /\ Cardinality(Active) \in Nat
  BY AlertEvaluationAssumption, FS_Subset, FS_CardinalityType DEF Active

\* An evaluation takes and gives back permits as it becomes and ceases to be active.
LEMMA PermitsKept ==
  ASSUME EngineTypeOK, Permits, NEW r \in Rules, NEW s \in Stages,
         eval' = [eval EXCEPT ![r] = s],
         \/ eval[r] = "queued" /\ s \in ActiveStages /\ free > 0 /\ free' = free - 1
         \/ eval[r] \in ActiveStages /\ s \in ActiveStages /\ free' = free
         \/ eval[r] \in ActiveStages /\ s = "idle" /\ free' = free + 1
  PROVE  Permits' /\ free' \in 0 .. MaxConcurrent
<1>1. MaxConcurrent \in Nat /\ free \in Nat /\ Cardinality(Active) + free = MaxConcurrent
  BY AlertEvaluationAssumption DEF EngineTypeOK, Permits
<1>2. \A q \in Rules : eval'[q] = IF q = r THEN s ELSE eval[q]
  BY DEF EngineTypeOK
<1>3. CASE eval[r] = "queued" /\ s \in ActiveStages /\ free > 0 /\ free' = free - 1
  <2>1. Active' = Active \cup {r} /\ r \notin Active
    BY <1>2, <1>3 DEF Active, ActiveStages
  <2>2. Cardinality(Active') = Cardinality(Active) + 1
    BY <2>1, ActiveFinite, FS_AddElement
  <2> QED
    BY <1>1, <1>3, <2>2, ActiveFinite DEF Permits
<1>4. CASE eval[r] \in ActiveStages /\ s \in ActiveStages /\ free' = free
  <2>1. Active' = Active
    BY <1>2, <1>4 DEF Active
  <2> QED
    BY <1>1, <1>4, <2>1, ActiveFinite DEF Permits
<1>5. CASE eval[r] \in ActiveStages /\ s = "idle" /\ free' = free + 1
  <2>1. Active' = Active \ {r} /\ r \in Active
    BY <1>2, <1>5 DEF Active, ActiveStages
  <2>2. Cardinality(Active') = Cardinality(Active) - 1
    BY <2>1, ActiveFinite, FS_RemoveElement
  <2>3. Cardinality(Active') \in Nat
    BY <2>1, ActiveFinite, FS_Subset, FS_CardinalityType
  <2> QED
    BY <1>1, <1>5, <2>2, <2>3, ActiveFinite DEF Permits
<1> QED
  BY <1>3, <1>4, <1>5

LEMMA EvaluateKeepsType ==
  ASSUME EngineTypeOK, Permits, NEW r \in Rules, Evaluate(r)
  PROVE  EngineTypeOK' /\ Permits'
<1>1. PICK s \in Stages :
         /\ eval' = [eval EXCEPT ![r] = s]
         /\ \/ eval[r] = "queued" /\ s \in ActiveStages /\ free > 0 /\ free' = free - 1
            \/ eval[r] \in ActiveStages /\ s \in ActiveStages /\ free' = free
            \/ eval[r] \in ActiveStages /\ s = "idle" /\ free' = free + 1
  BY EvaluateShape
<1>2. Permits' /\ free' \in 0 .. MaxConcurrent
  BY <1>1, PermitsKept
<1>3. eval' \in [Rules -> Stages]
  BY <1>1 DEF EngineTypeOK
<1> QED
  BY <1>2, <1>3, EvaluateShape DEF EngineTypeOK, edits

LEMMA LoopKeepsType ==
  ASSUME EngineTypeOK, Permits, PassOnly, Loop
  PROVE  EngineTypeOK' /\ Permits' /\ PassOnly'
<1>1. CASE BeginPass
  <2>1. eval' \in [Rules -> {"queued", "idle"}] /\ loop' = "pass"
    BY <1>1 DEF BeginPass
  <2>2. Active' = {} /\ Active = {}
    BY <1>1, <2>1 DEF BeginPass, Active, ActiveStages, PassOnly
  <2> QED
    BY <1>1, <2>1, <2>2 DEF BeginPass, EngineTypeOK, Stages, Permits, PassOnly, edits, schedule
<1>2. CASE EndPass
  BY <1>2 DEF EndPass, EngineTypeOK, Permits, PassOnly, Active, edits, schedule
<1>3. ASSUME NEW r \in Rules, Elapse(r) PROVE EngineTypeOK' /\ Permits' /\ PassOnly'
  BY <1>3 DEF Elapse, EngineTypeOK, Permits, PassOnly, Active, edits, pass
<1> QED
  BY <1>1, <1>2, <1>3 DEF Loop

\* A request's step changes nothing else.
LEMMA EditsTyped ==
  ASSUME EngineTypeOK, UNCHANGED <<schedule, pass, shown>>,
         incidents' \subseteq Rules, dropped' \subseteq Rules,
         file' \in [Rules -> Statuses], rules' \in [Rules -> Statuses],
         request' \in [Requests -> RequestType], changes' \in 0 .. MaxChanges,
         unread' \in 0 .. MaxUnreadable, tangled' \in BOOLEAN
  PROVE  EngineTypeOK'
  BY DEF EngineTypeOK, schedule, pass

LEMMA InstallTyped ==
  ASSUME EngineTypeOK, UNCHANGED <<pass, shown, file, changes, unread, tangled>>,
         due' \subseteq Rules, cooling' \subseteq Rules,
         incidents' \subseteq Rules, dropped' \subseteq Rules,
         rules' \in [Rules -> Statuses], request' \in [Requests -> RequestType]
  PROVE  EngineTypeOK'
  BY DEF EngineTypeOK, pass

LEMMA SavedTypes ==
  ASSUME EngineTypeOK
  PROVE  /\ file \in [Rules -> Statuses] /\ rules \in [Rules -> Statuses]
         /\ incidents \subseteq Rules /\ dropped \subseteq Rules
         /\ changes \in 0 .. MaxChanges /\ unread \in 0 .. MaxUnreadable /\ tangled \in BOOLEAN
  BY DEF EngineTypeOK

LEMMA ReadTyped ==
  ASSUME EngineTypeOK, NEW list, NEW excuse \in BOOLEAN, CanRead(list, excuse)
  PROVE  list \in [Rules -> Statuses] /\ unread' \in 0 .. MaxUnreadable /\ tangled' \in BOOLEAN
<1>1. MaxUnreadable \in Nat
  BY AlertEvaluationAssumption
<1>2. [r \in Rules |-> "none"] \in [Rules -> Statuses]
  BY DEF Statuses
<1> QED
  BY <1>1, <1>2 DEF EngineTypeOK, CanRead

LEMMA EditKeepsType ==
  ASSUME EngineTypeOK, Permits, PassOnly, NEW q \in Requests, Edit(q)
  PROVE  EngineTypeOK' /\ Permits' /\ PassOnly'
<1>1. UNCHANGED pass
  BY DEF Edit, Change, Load, Save, SaveFails, Reload, Install
<1>2. Permits' /\ PassOnly'
  BY <1>1 DEF pass, Permits, PassOnly, Active
<1>3. MaxChanges \in Nat /\ MaxUnreadable \in Nat
  BY AlertEvaluationAssumption
<1>4. request \in [Requests -> RequestType] /\ request[q] \in RequestType
  BY DEF EngineTypeOK
<1>5. ASSUME NEW r \in Rules, NEW to \in Statuses, Change(q, r, to) PROVE EngineTypeOK'
  <2>1. [NoRequest EXCEPT !.pc = "load", !.rule = r, !.to = to] \in RequestType
    BY NoRequestType DEF RequestType
  <2>2. request' \in [Requests -> RequestType]
    BY <1>4, <1>5, <2>1 DEF Change
  <2>3. changes' \in 0 .. MaxChanges /\ tangled' \in BOOLEAN
    BY <1>3, <1>5 DEF Change, EngineTypeOK
  <2>4. UNCHANGED <<schedule, pass, shown, incidents, dropped, file, rules, unread>>
    BY <1>5 DEF Change
  <2> QED
    BY <2>2, <2>3, <2>4, SavedTypes, EditsTyped
<1>6. ASSUME NEW list, NEW pc \in {"save", "install"}, list \in [Rules -> Statuses],
             request' = [request EXCEPT ![q] = [@ EXCEPT !.pc = pc, !.seen = list]]
      PROVE  request' \in [Requests -> RequestType]
  <2>1. [request[q] EXCEPT !.pc = pc, !.seen = list] \in RequestType
    BY <1>4, <1>6 DEF RequestType
  <2> QED
    BY <1>4, <1>6, <2>1
<1>7. CASE Load(q)
  <2>1. PICK list : /\ CanRead(list, FALSE)
                    /\ request' = [request EXCEPT ![q] = [@ EXCEPT !.pc = "save", !.seen = list]]
    BY <1>7 DEF Load
  <2>2. UNCHANGED <<schedule, pass, shown, incidents, dropped, file, rules, changes>>
    BY <1>7 DEF Load
  <2>3. request' \in [Requests -> RequestType]
    BY <1>6, <2>1, ReadTyped
  <2> QED
    BY <1>2, <2>1, <2>2, <2>3, ReadTyped, SavedTypes, EditsTyped
<1>8. CASE Save(q)
  <2>1. file' \in [Rules -> Statuses]
    BY <1>4, <1>8 DEF Save, RequestType
  <2>2. [request[q] EXCEPT !.pc = "reload"] \in RequestType
    BY <1>4 DEF RequestType
  <2>3. request' \in [Requests -> RequestType]
    BY <1>4, <1>8, <2>2 DEF Save
  <2>4. UNCHANGED <<schedule, pass, shown, incidents, dropped, rules, changes, unread, tangled>>
    BY <1>8 DEF Save
  <2> QED
    BY <1>2, <2>1, <2>3, <2>4, SavedTypes, EditsTyped
<1>9. CASE SaveFails(q)
  <2>1. request' \in [Requests -> RequestType] /\ tangled' \in BOOLEAN
    BY <1>4, <1>9, NoRequestType DEF SaveFails, EngineTypeOK
  <2>2. UNCHANGED <<schedule, pass, shown, incidents, dropped, file, rules, changes, unread>>
    BY <1>9 DEF SaveFails
  <2> QED
    BY <1>2, <2>1, <2>2, SavedTypes, EditsTyped
<1>10. CASE Reload(q)
  <2>1. PICK list : /\ CanRead(list, TRUE)
                    /\ request' = [request EXCEPT ![q] = [@ EXCEPT !.pc = "install", !.seen = list]]
    BY <1>10 DEF Reload
  <2>2. UNCHANGED <<schedule, pass, shown, incidents, dropped, file, rules, changes>>
    BY <1>10 DEF Reload
  <2>3. request' \in [Requests -> RequestType]
    BY <1>6, <2>1, ReadTyped
  <2> QED
    BY <1>2, <2>1, <2>2, <2>3, ReadTyped, SavedTypes, EditsTyped
<1>11. CASE Install(q)
  <2>1. rules' \in [Rules -> Statuses]
    BY <1>4, <1>11 DEF Install, RequestType
  <2>2. request' \in [Requests -> RequestType]
    BY <1>4, <1>11, NoRequestType DEF Install
  <2>3. due' \subseteq Rules /\ cooling' \subseteq Rules
        /\ UNCHANGED <<pass, shown, file, changes, unread, tangled>>
    BY <1>11 DEF Install
  <2>4. incidents' \subseteq Rules /\ dropped' \subseteq Rules
    BY <1>11 DEF Install, EngineTypeOK
  <2> QED
    BY <1>2, <2>1, <2>2, <2>3, <2>4, InstallTyped
<1> QED
  BY <1>2, <1>5, <1>7, <1>8, <1>9, <1>10, <1>11 DEF Edit

-----------------------------------------------------------------------------
(* Incidents and the stream.                                               *)

LEMMA EvaluateKeepsShown ==
  ASSUME EngineTypeOK, AllShown, NEW r \in Rules, Evaluate(r)
  PROVE  AllShown'
<1>1. ASSUME NEW p \in Rules, p # r PROVE Shown(p)'
  <2>1. eval'[p] = eval[p]
    BY <1>1, EvaluateShape DEF EngineTypeOK
  <2>2. shown'[p] = shown[p] /\ (p \in incidents' <=> p \in incidents) /\ (p \in dropped' <=> p \in dropped)
    BY <1>1 DEF Evaluate, Evaluation, Acquire, SampleOk, SampleBad, SampleFiring, SampleCancelled,
                Record, AnnounceFired, AnnounceResolved, schedule, EngineTypeOK
  <2> QED
    BY <2>1, <2>2 DEF AllShown, Shown
<1>2. Shown(r)'
  <2> USE DEF EngineTypeOK, AllShown, Shown, Finish, GoTo
  <2>1. CASE Acquire(r)
    BY <2>1 DEF Acquire
  <2>2. CASE SampleOk(r)
    BY <2>2 DEF SampleOk
  <2>3. CASE SampleBad(r)
    BY <2>3 DEF SampleBad
  <2>4. CASE SampleFiring(r)
    BY <2>4 DEF SampleFiring
  <2>5. CASE SampleCancelled(r)
    BY <2>5 DEF SampleCancelled, schedule
  <2>6. ASSUME NEW muted \in BOOLEAN, Record(r, muted) PROVE Shown(r)'
    BY <2>6 DEF Record
  <2>7. CASE AnnounceFired(r)
    BY <2>7 DEF AnnounceFired
  <2>8. CASE AnnounceResolved(r)
    BY <2>8 DEF AnnounceResolved
  <2> QED
    BY <2>1, <2>2, <2>3, <2>4, <2>5, <2>6, <2>7, <2>8 DEF Evaluate, Evaluation
<1> QED
  BY <1>1, <1>2 DEF AllShown

LEMMA OthersKeepShown ==
  ASSUME EngineTypeOK, PassOnly, AllShown, Loop \/ \E q \in Requests : Edit(q)
  PROVE  AllShown'
<1> SUFFICES ASSUME NEW r \in Rules PROVE Shown(r)'
  BY DEF AllShown
<1>1. Shown(r)
  BY DEF AllShown
<1>2. CASE BeginPass
  <2>1. eval[r] = "idle" /\ eval'[r] \in {"idle", "queued"}
    BY <1>2 DEF BeginPass, PassOnly
  <2> QED
    BY <1>1, <1>2, <2>1 DEF BeginPass, Shown
<1>3. CASE EndPass \/ \E p \in Rules : Elapse(p)
  BY <1>1, <1>3 DEF EndPass, Elapse, pass, Shown
<1>4. ASSUME NEW q \in Requests, Install(q) PROVE Shown(r)'
  <2>1. /\ UNCHANGED <<eval, shown>>
        /\ \E gone \in SUBSET incidents : incidents' = incidents \ gone /\ dropped' = dropped \cup gone
    BY <1>4 DEF Install, pass
  <2> QED
    BY <1>1, <2>1 DEF Shown
<1>5. ASSUME NEW q \in Requests, Edit(q), ~Install(q) PROVE Shown(r)'
  <2>1. UNCHANGED <<eval, shown, incidents, dropped>>
    BY <1>5 DEF Edit, Change, Load, Save, SaveFails, Reload, pass
  <2> QED
    BY <1>1, <2>1 DEF Shown
<1> QED
  BY <1>2, <1>3, <1>4, <1>5 DEF Loop

-----------------------------------------------------------------------------
(* The engine's rules and the file.                                        *)

LEMMA EditKeepsAlone ==
  ASSUME EngineTypeOK, Alone, NEW q \in Requests, Edit(q)
  PROVE  Alone'
<1> SUFFICES ASSUME ~tangled' PROVE Alone'
  BY DEF Alone
<1>0. \A p \in Requests : request[p] \in RequestType
  BY DEF EngineTypeOK
<1>1. CASE \E r \in Rules, to \in Statuses : Change(q, r, to)
  <2>1. \A p \in Requests : At(p, "idle")
    BY <1>1 DEF Change
  <2>2. \A p \in Requests : p # q => request'[p] = request[p]
    BY <1>1 DEF Change, EngineTypeOK
  <2>3. request'[q].pc = "load"
    BY <1>1, NoRequestType DEF Change, EngineTypeOK, RequestType
  <2> QED
    BY <2>1, <2>2, <2>3 DEF Alone, At
<1>2. ASSUME ~(\E r \in Rules, to \in Statuses : Change(q, r, to))
      PROVE  /\ ~tangled /\ ~At(q, "idle")
             /\ \A p \in Requests : p # q => request'[p] = request[p] /\ At(p, "idle")
  <2>1. ~At(q, "idle")
    BY <1>2 DEF Edit, Load, Save, SaveFails, Reload, Install, At
  <2>3. ~tangled
    BY <1>2 DEF Edit, Load, Save, SaveFails, Reload, Install, CanRead
  <2>2. \A p \in Requests : p # q => request'[p] = request[p]
    BY <1>2 DEF Edit, Load, Save, SaveFails, Reload, Install, EngineTypeOK
  <2> QED
    BY <2>1, <2>2, <2>3 DEF Alone
<1>3. CASE Load(q) \/ Save(q)
  <2>0. request \in [Requests -> RequestType] /\ request[q] \in RequestType
    BY DEF EngineTypeOK
  <2>1. request'[q].pc \in {"save", "reload"}
    <3>1. CASE Load(q)
      <4>1. PICK list : request' = [request EXCEPT ![q] = [@ EXCEPT !.pc = "save", !.seen = list]]
        BY <3>1 DEF Load
      <4>2. request'[q] = [request[q] EXCEPT !.pc = "save", !.seen = list]
        BY <2>0, <4>1
      <4> QED
        BY <2>0, <4>2 DEF RequestType
    <3>2. CASE Save(q)
      <4>1. request'[q] = [request[q] EXCEPT !.pc = "reload"]
        BY <2>0, <3>2 DEF Save
      <4> QED
        BY <2>0, <4>1 DEF RequestType
    <3> QED
      BY <1>3, <3>1, <3>2
  <2>2. ~(\E r \in Rules, to \in Statuses : Change(q, r, to))
    BY <1>3 DEF Load, Save, Change, At
  <2> QED
    BY <1>2, <2>1, <2>2 DEF Alone, At
<1>4. CASE Reload(q)
  <2>0. request \in [Requests -> RequestType] /\ request[q] \in RequestType
    BY DEF EngineTypeOK
  <2>3. [request[q] EXCEPT !.pc = "install", !.seen = file].pc = "install"
    BY <2>0 DEF RequestType
  <2>4. [request[q] EXCEPT !.pc = "install", !.seen = file].seen = file
    BY <2>0 DEF RequestType
  <2>5. request' = [request EXCEPT ![q] = [@ EXCEPT !.pc = "install", !.seen = file]] /\ file' = file
    BY <1>4 DEF Reload, CanRead
  <2>1. request'[q].pc = "install" /\ request'[q].seen = file /\ file' = file
    BY <2>0, <2>3, <2>4, <2>5
  <2>2. ~(\E r \in Rules, to \in Statuses : Change(q, r, to))
    BY <1>4 DEF Reload, Change, At
  <2> QED
    BY <1>2, <2>1, <2>2 DEF Alone, At
<1>5. CASE Install(q)
  <2>1. ~(\E r \in Rules, to \in Statuses : Change(q, r, to))
    BY <1>5 DEF Install, Change, At
  <2>2. rules' = file' /\ request'[q].pc = "idle"
    BY <1>0, <1>2, <1>5, <2>1 DEF Install, Alone, EngineTypeOK, NoRequest
  <2> QED
    BY <1>2, <2>1, <2>2 DEF Alone, At
<1>6. CASE SaveFails(q)
  <2>1. ~(\E r \in Rules, to \in Statuses : Change(q, r, to))
    BY <1>6 DEF SaveFails, Change, At
  <2>2. rules' = file' /\ request'[q].pc = "idle"
    BY <1>0, <1>6 DEF SaveFails, EngineTypeOK, NoRequest
  <2> QED
    BY <1>2, <2>1, <2>2 DEF Alone, At
<1> QED
  BY <1>1, <1>3, <1>4, <1>5, <1>6 DEF Edit

LEMMA OthersKeepAlone ==
  ASSUME Alone, UNCHANGED edits
  PROVE  Alone'
  BY DEF edits, Alone, At
-----------------------------------------------------------------------------
(* The theorems.                                                           *)

LEMMA InitInv == EngineInit => EngineInv
<1> SUFFICES ASSUME EngineInit PROVE EngineInv
  OBVIOUS
<1>0. MaxConcurrent \in Nat /\ MaxChanges \in Nat /\ MaxUnreadable \in Nat
  BY AlertEvaluationAssumption
<1>1. EngineTypeOK
  <2>1. file \in [Rules -> Statuses] /\ rules \in [Rules -> Statuses]
    BY DEF EngineInit
  <2>2. request \in [Requests -> RequestType]
    BY NoRequestType DEF EngineInit
  <2>3. eval \in [Rules -> Stages] /\ shown \in [Rules -> {"clear", "firing"}]
    BY DEF EngineInit, Stages
  <2>4. free \in 0 .. MaxConcurrent /\ changes \in 0 .. MaxChanges /\ unread \in 0 .. MaxUnreadable
    BY <1>0 DEF EngineInit
  <2>5. due \subseteq Rules /\ cooling \subseteq Rules /\ incidents \subseteq Rules /\ dropped \subseteq Rules
    BY DEF EngineInit
  <2>6. loop \in {"waiting", "pass", "ended"} /\ cancelled \in BOOLEAN /\ tangled \in BOOLEAN
    BY DEF EngineInit
  <2> QED
    BY <2>1, <2>2, <2>3, <2>4, <2>5, <2>6 DEF EngineTypeOK
<1>2. Active = {}
  BY DEF EngineInit, Active, ActiveStages
<1>3. Permits
  BY <1>2, FS_EmptySet, AlertEvaluationAssumption DEF EngineInit, Permits
<1>4. PassOnly /\ AllShown
  BY DEF EngineInit, PassOnly, AllShown, Shown
<1>5. \A q \in Requests : At(q, "idle")
  BY DEF EngineInit, At, NoRequest
<1>6. Alone
  BY <1>5 DEF EngineInit, Alone, At
<1> QED
  BY <1>1, <1>3, <1>4, <1>6 DEF EngineInv

LEMMA StepInv == EngineInv /\ [EngineNext]_engineVars => EngineInv'
<1> SUFFICES ASSUME EngineInv, [EngineNext]_engineVars PROVE EngineInv'
  OBVIOUS
<1> USE DEF EngineInv
<1>1. CASE Loop
  <2>1. UNCHANGED edits
    BY <1>1 DEF Loop, BeginPass, EndPass, Elapse
  <2> QED
    BY <1>1, <2>1, LoopKeepsType, OthersKeepShown, OthersKeepAlone
<1>2. ASSUME NEW r \in Rules, Evaluate(r) PROVE EngineInv'
  <2>1. UNCHANGED edits /\ UNCHANGED loop
    BY <1>2, EvaluateShape
  <2>2. loop = "pass"
    BY <1>2 DEF Evaluate, Evaluation, Acquire, SampleOk, SampleBad, SampleFiring, SampleCancelled,
                Record, AnnounceFired, AnnounceResolved, PassOnly
  <2>3. PassOnly'
    BY <2>1, <2>2 DEF PassOnly
  <2> QED
    BY <1>2, <2>1, <2>3, EvaluateKeepsType, EvaluateKeepsShown, OthersKeepAlone
<1>3. ASSUME NEW q \in Requests, Edit(q) PROVE EngineInv'
  BY <1>3, EditKeepsType, OthersKeepShown, EditKeepsAlone
<1>4. CASE UNCHANGED engineVars
  BY <1>4 DEF engineVars, edits, schedule, pass, EngineTypeOK, Permits, Active, PassOnly,
              AllShown, Shown, Alone, At
<1> QED
  BY <1>1, <1>2, <1>3, <1>4 DEF EngineNext, Evaluate

LEMMA EngineInvariance == EngineSpec => []EngineInv
  BY InitInv, StepInv, PTL DEF EngineSpec

\* The engine's variables keep their types, the permits between 0 and their
\* number, for every set of rules and requests.
THEOREM EngineTypeCorrect == EngineSpec => []EngineTypeOK
<1>1. EngineInv => EngineTypeOK
  BY DEF EngineInv
<1> QED
  BY <1>1, EngineInvariance, PTL

\* An alert is shown as firing exactly while its incident is open, or when a
\* reload has dropped the incident of a rule that was gone.
THEOREM StreamFollowsIncidents == EngineSpec => []FiringIsShown
<1>1. EngineInv => FiringIsShown
  BY DEF EngineInv, AllShown, Shown, FiringIsShown
<1> QED
  BY <1>1, EngineInvariance, PTL

\* Requests that do not overlap, and read what they load, leave the engine
\* with the saved rules.
THEOREM EngineFollowsFile == EngineSpec => []RulesFollowFile
<1>1. EngineInv => RulesFollowFile
  BY DEF EngineInv, Alone, RulesFollowFile
<1> QED
  BY <1>1, EngineInvariance, PTL

-----------------------------------------------------------------------------
(* The service attached to the engine.                                     *)

\* The types of the service's own variables.
InsightTypeOK ==
    /\ busy \in BOOLEAN /\ episodes \subseteq Rules
    /\ alarmed \subseteq Rules
    /\ task \in [Tasks -> TaskType] /\ closed \in [Rules -> Nat]
    /\ reported \subseteq Rules \X Nat /\ repeated \subseteq Rules \X Nat
    /\ waved \subseteq Rules \X Nat /\ excused \subseteq Rules \X Nat

Holding(t) == task[t].pc \in {"gates", "probe", "draft", "report"}

\* The slot has one holder.
Slot ==
    \A t \in Tasks : Holding(t) => busy /\ \A u \in Tasks : Holding(u) => u = t

\* Incident n of rule r has begun.
Begun(r, n) == n < closed[r] \/ (n = closed[r] /\ r \in alarmed)
AllBegun ==
    /\ \A t \in Tasks : ~In(t, "idle") => Begun(task[t].rule, task[t].number)
    /\ \A r \in Rules, n \in Nat : <<r, n>> \in reported => Begun(r, n)

\* While an incident lasts, its report keeps the episode ...
ReportsHold ==
    \A r \in Rules : Current(r) \in reported \ excused => r \in episodes
\* ... and the episode stands for a report or an investigation of it.
EpisodesStand ==
    \A r \in episodes :
        \/ Current(r) \in excused \cup reported
        \/ \E t \in Tasks : Working(t) /\ Incident(t) = Current(r)

\* What an investigation relies on while it works.
WorkStands ==
    \A t \in Tasks : Working(t) =>
        /\ Incident(t) = Current(task[t].rule) =>
              Incident(t) \in excused \/ task[t].rule \in episodes
        /\ Incident(t) \in excused \/ Incident(t) \notin reported
        /\ Current(task[t].rule) \in reported => Current(task[t].rule) \in excused

IInv ==
    /\ InsightTypeOK /\ Slot /\ AllBegun /\ ReportsHold /\ EpisodesStand /\ WorkStands
    /\ repeated \subseteq excused /\ waved \subseteq excused

-----------------------------------------------------------------------------
(* The steps of a task, as the rest of the proof sees them.                *)

LEMMA NoTaskType == NoTask \in TaskType
  BY AlertEvaluationAssumption DEF NoTask, TaskType

LEMMA TaskTyped ==
  ASSUME InsightTypeOK, NEW t \in Tasks
  PROVE  /\ task[t] \in TaskType /\ task[t].rule \in Rules /\ task[t].number \in Nat
         /\ Incident(t) \in Rules \X Nat /\ Current(task[t].rule) \in Rules \X Nat
         /\ task[t].pc \in {"idle", "start", "gates", "probe", "draft", "report"}
<1>1. task[t] \in TaskType /\ closed \in [Rules -> Nat]
  BY DEF InsightTypeOK
<1>2. task[t].rule \in Rules /\ task[t].number \in Nat
      /\ task[t].pc \in {"idle", "start", "gates", "probe", "draft", "report"}
  BY <1>1 DEF TaskType
<1> QED
  BY <1>1, <1>2 DEF Incident, Current

\* A task that gives the slot back is idle, and the others are as they were.
LEMMA LeaveShape ==
  ASSUME InsightTypeOK, NEW t \in Tasks, Leave(t)
  PROVE  /\ busy' = FALSE /\ task' \in [Tasks -> TaskType]
         /\ task'[t].pc = "idle"
         /\ \A u \in Tasks : u # t => task'[u] = task[u]
  BY NoTaskType DEF Leave, InsightTypeOK, NoTask

\* A task that moves on changes its stage only.
LEMMA MoveShape ==
  ASSUME InsightTypeOK, NEW t \in Tasks, NEW pc \in {"gates", "probe", "draft", "report"}, Move(t, pc)
  PROVE  /\ task' \in [Tasks -> TaskType]
         /\ task'[t].pc = pc /\ task'[t].rule = task[t].rule /\ task'[t].number = task[t].number
         /\ \A u \in Tasks : u # t => task'[u] = task[u]
<1>1. task \in [Tasks -> TaskType] /\ task[t] \in TaskType
  BY DEF InsightTypeOK
<1>2. task' = [task EXCEPT ![t] = [@ EXCEPT !.pc = pc]]
  BY DEF Move
<1>3. [task[t] EXCEPT !.pc = pc] \in TaskType
  BY <1>1 DEF TaskType
<1>4. task'[t] = [task[t] EXCEPT !.pc = pc]
  BY <1>1, <1>2
<1>5. task'[t].pc = pc /\ task'[t].rule = task[t].rule /\ task'[t].number = task[t].number
  BY <1>1, <1>4 DEF TaskType
<1>6. task' \in [Tasks -> TaskType]
  BY <1>1, <1>2, <1>3
<1> QED
  BY <1>1, <1>2, <1>5, <1>6

-----------------------------------------------------------------------------
(* The steps of a task that has no investigation under way.                *)

\* Whoever holds the slot is alone with it when it gives it back.
LEMMA SlotAfterLeave ==
  ASSUME InsightTypeOK, Slot, NEW t \in Tasks, Holding(t), Leave(t)
  PROVE  /\ Slot'
         /\ \A u \in Tasks : ~Working(u)'
         /\ \A u \in Tasks : Working(u) => u = t
<1>1. \A u \in Tasks : Holding(u) => u = t
  BY DEF Slot
<1>2. \A u \in Tasks : ~Holding(u)'
  BY <1>1, LeaveShape DEF Holding
<1> QED
  BY <1>1, <1>2 DEF Slot, Holding, Working

LEMMA BegunAfterLeave ==
  ASSUME InsightTypeOK, AllBegun, NEW t \in Tasks, Leave(t), UNCHANGED <<alarmed, closed>>,
         \A r \in Rules, n \in Nat : <<r, n>> \in reported' => <<r, n>> \in reported \/ Begun(r, n)
  PROVE  AllBegun'
<1>1. \A r, n : Begun(r, n)' <=> Begun(r, n)
  BY DEF Begun
<1>2. ASSUME NEW u \in Tasks, ~In(u, "idle")' PROVE Begun(task[u].rule, task[u].number)' /\ task'[u] = task[u]
  <2>1. u # t
    BY <1>2, LeaveShape DEF In
  <2> QED
    BY <1>1, <1>2, <2>1, LeaveShape DEF In, AllBegun
<1> QED
  BY <1>1, <1>2 DEF AllBegun, Begun

LEMMA StartKeeps == ASSUME IInv, NEW t \in Tasks, Start(t) PROVE IInv'
<1> USE DEF IInv
<1>1. CASE busy /\ task' = [task EXCEPT ![t] = NoTask] /\ UNCHANGED busy
  <2>1. /\ task' \in [Tasks -> TaskType] /\ task'[t].pc = "idle"
        /\ \A u \in Tasks : u # t => task'[u] = task[u]
    BY <1>1, NoTaskType DEF InsightTypeOK, NoTask
  <2>2. InsightTypeOK'
    BY <1>1, <2>1 DEF Start, InsightTypeOK, insightHistory
  <2>3. Slot' /\ AllBegun' /\ WorkStands'
    BY <1>1, <2>1 DEF Start, insightHistory, Slot, Holding, AllBegun, In, Begun, WorkStands, Working, Incident, Current
  <2>4. EpisodesStand' /\ ReportsHold'
    BY <1>1, <2>1 DEF Start, insightHistory, EpisodesStand, ReportsHold, In, Working, Incident, Current
  <2> QED
    BY <2>2, <2>3, <2>4 DEF Start, insightHistory
<1>2. CASE ~busy /\ busy' = TRUE /\ Move(t, "gates")
  <2>1. /\ task' \in [Tasks -> TaskType] /\ task'[t].pc = "gates"
        /\ task'[t].rule = task[t].rule /\ task'[t].number = task[t].number
        /\ \A u \in Tasks : u # t => task'[u] = task[u]
    BY <1>2, MoveShape
  <2>2. InsightTypeOK'
    BY <1>2, <2>1 DEF Start, InsightTypeOK, insightHistory
  <2>3. \A u \in Tasks : ~Holding(u)
    BY <1>2 DEF Slot
  <2>4. Slot'
    BY <1>2, <2>1, <2>3 DEF Slot, Holding
  <2>5. AllBegun'
    BY <1>2, <2>1 DEF Start, insightHistory, AllBegun, In, Begun
  <2>6. \A u \in Tasks : ~Working(u) /\ ~Working(u)'
    BY <2>1, <2>3 DEF Working, Holding
  <2>7. WorkStands' /\ EpisodesStand' /\ ReportsHold'
    BY <2>6 DEF Start, insightHistory, WorkStands, EpisodesStand, ReportsHold, Current
  <2> QED
    BY <2>2, <2>4, <2>5, <2>7 DEF Start, insightHistory
<1> QED
  BY <1>1, <1>2 DEF Start

\* A task that leaves before it has claimed the episode.
LEMMA UnclaimedKeeps ==
  ASSUME IInv, NEW t \in Tasks, Reject(t) \/ SkipInvestigated(t) \/ GatesThrow(t)
  PROVE  IInv'
<1> USE DEF IInv
<1> DEFINE r == task[t].rule
<1>1. /\ In(t, "gates") /\ Leave(t) /\ UNCHANGED <<alarmed, closed, reported, repeated>>
  BY DEF Reject, SkipInvestigated, GatesThrow, insightHistory
<1>2. Holding(t) /\ ~Working(t)
  BY <1>1 DEF In, Holding, Working
<1>3. Slot' /\ \A u \in Tasks : ~Working(u) /\ ~Working(u)'
  BY <1>1, <1>2, SlotAfterLeave
<1>4. AllBegun'
  BY <1>1, BegunAfterLeave
<1>5. WorkStands'
  BY <1>3 DEF WorkStands
<1>6. r \in Rules /\ Incident(t) \in Rules \X Nat /\ Current(r) \in Rules \X Nat
  BY TaskTyped
<1>7. \A p : Current(p)' = Current(p)
  BY <1>1 DEF Current
<1>8. CASE Reject(t)
  <2>1. InsightTypeOK'
    BY <1>1, <1>8, LeaveShape DEF Reject, InsightTypeOK, insightHistory
  <2>2. EpisodesStand' /\ ReportsHold'
    BY <1>3, <1>7, <1>8 DEF Reject, insightHistory, EpisodesStand, ReportsHold
  <2> QED
    BY <1>3, <1>4, <1>5, <1>8, <2>1, <2>2 DEF Reject, insightHistory
<1>9. CASE SkipInvestigated(t)
  <2>1. /\ waved' = IF Investigated(Incident(t)) THEN waved ELSE waved \cup {Incident(t)}
        /\ excused' = IF Incident(t) = Current(r) THEN excused ELSE excused \cup {Incident(t)}
        /\ r \in episodes /\ episodes' = episodes
    BY <1>9 DEF SkipInvestigated
  <2>2. InsightTypeOK'
    BY <1>1, <1>6, <2>1, LeaveShape DEF InsightTypeOK
  <2>3. EpisodesStand' /\ ReportsHold'
    BY <1>1, <1>3, <1>7, <2>1 DEF EpisodesStand, ReportsHold
  <2>4. waved' \subseteq excused'
    <3>1. CASE Incident(t) = Current(r)
      <4>1. Current(r) \in excused \cup reported
        BY <1>3, <2>1 DEF EpisodesStand
      <4> QED
        BY <3>1, <4>1, <2>1 DEF Investigated
    <3> QED
      BY <2>1, <3>1
  <2> QED
    BY <1>1, <1>3, <1>4, <1>5, <2>1, <2>2, <2>3, <2>4
<1>10. CASE GatesThrow(t)
  <2>1. /\ episodes' = episodes \ {r} /\ waved' = waved
        /\ excused' = excused \cup {Incident(t), Current(r)}
    BY <1>10 DEF GatesThrow
  <2>2. InsightTypeOK'
    BY <1>1, <1>6, <2>1, LeaveShape DEF InsightTypeOK
  <2>3. EpisodesStand' /\ ReportsHold'
    BY <1>1, <1>3, <1>7, <2>1 DEF EpisodesStand, ReportsHold
  <2> QED
    BY <1>1, <1>3, <1>4, <1>5, <2>1, <2>2, <2>3
<1> QED
  BY <1>8, <1>9, <1>10

LEMMA ClaimKeeps == ASSUME IInv, NEW t \in Tasks, Claim(t) PROVE IInv'
<1> USE DEF IInv
<1> DEFINE r == task[t].rule
<1>1. /\ In(t, "gates") /\ r \notin episodes /\ episodes' = episodes \cup {r} /\ Move(t, "probe")
      /\ excused' = IF Incident(t) = Current(r) THEN excused ELSE excused \cup {Incident(t), Current(r)}
      /\ UNCHANGED <<busy, alarmed, closed, reported, repeated, waved>>
  BY DEF Claim
<1>2. /\ task' \in [Tasks -> TaskType] /\ task'[t].pc = "probe"
      /\ task'[t].rule = r /\ task'[t].number = task[t].number
      /\ \A u \in Tasks : u # t => task'[u] = task[u]
  BY <1>1, MoveShape
<1>3. r \in Rules /\ Incident(t) \in Rules \X Nat /\ Current(r) \in Rules \X Nat
  BY TaskTyped
<1>4. InsightTypeOK'
  BY <1>1, <1>2, <1>3 DEF InsightTypeOK
<1>5. Holding(t)
  BY <1>1 DEF Holding, In
<1>6. Slot'
  BY <1>1, <1>2, <1>5 DEF Slot, Holding
<1>7. AllBegun'
  BY <1>1, <1>2 DEF AllBegun, In, Begun
<1>8. /\ \A u \in Tasks : Working(u)' => u = t
      /\ Working(t)' /\ Incident(t)' = Incident(t)
      /\ \A u \in Tasks : ~Working(u)
  BY <1>1, <1>2, <1>5 DEF Slot, Holding, Working, Incident, In
<1>9. \A p : Current(p)' = Current(p)
  BY <1>1 DEF Current
<1>10. ReportsHold'
  BY <1>1, <1>9 DEF ReportsHold
<1>11. EpisodesStand'
  BY <1>1, <1>8, <1>9 DEF EpisodesStand
<1>12. Current(r) \in reported => Current(r) \in excused
  BY <1>1, <1>3 DEF ReportsHold
<1>13. WorkStands'
  BY <1>1, <1>2, <1>8, <1>9, <1>12 DEF WorkStands
<1> QED
  BY <1>1, <1>4, <1>6, <1>7, <1>10, <1>11, <1>13

LEMMA WorkKeeps ==
  ASSUME IInv, NEW t \in Tasks, Investigate(t) \/ Draft(t)
  PROVE  IInv'
<1> USE DEF IInv
<1>1. PICK pc \in {"draft", "report"} : Move(t, pc)
  BY DEF Investigate, Draft
<1>2. UNCHANGED <<busy, episodes, alarmed, closed, reported, repeated, waved, excused>> /\ Working(t)
  BY DEF Investigate, Draft, insightHistory, Working, In
<1>3. /\ task' \in [Tasks -> TaskType] /\ task'[t].pc = pc
      /\ task'[t].rule = task[t].rule /\ task'[t].number = task[t].number
      /\ \A u \in Tasks : u # t => task'[u] = task[u]
  BY <1>1, MoveShape
<1>4. \A u \in Tasks : /\ Incident(u)' = Incident(u) /\ task'[u].rule = task[u].rule
                       /\ Working(u)' <=> Working(u)
                       /\ Holding(u)' <=> Holding(u)
  BY <1>2, <1>3 DEF Incident, Working, Holding
<1>5. InsightTypeOK'
  BY <1>2, <1>3 DEF InsightTypeOK
<1>6. Slot' /\ AllBegun'
  BY <1>2, <1>3, <1>4 DEF Slot, AllBegun, In, Begun, Working
<1>7. \A p : Current(p)' = Current(p)
  BY <1>2 DEF Current
<1>8. ReportsHold' /\ EpisodesStand' /\ WorkStands'
  BY <1>2, <1>4, <1>7 DEF ReportsHold, EpisodesStand, WorkStands
<1> QED
  BY <1>2, <1>5, <1>6, <1>8

LEMMA EndKeeps == ASSUME IInv, NEW t \in Tasks, Fail(t) \/ Report(t) PROVE IInv'
<1> USE DEF IInv
<1> DEFINE r == task[t].rule
<1>1. Working(t) /\ Holding(t) /\ Leave(t) /\ UNCHANGED <<alarmed, closed, waved, excused>>
  BY DEF Fail, Report, In, Working, Holding, insightHistory
<1>2. Slot' /\ \A u \in Tasks : ~Working(u)' /\ (Working(u) => u = t)
  BY <1>1, SlotAfterLeave
<1>3. r \in Rules /\ Incident(t) \in Rules \X Nat /\ Incident(t) = <<r, task[t].number>>
  BY TaskTyped DEF Incident
<1>4. Begun(r, task[t].number)
  BY <1>1 DEF AllBegun, Working, In
<1>5. \A p : Current(p)' = Current(p)
  BY <1>1 DEF Current
<1>6. WorkStands'
  BY <1>2 DEF WorkStands
<1>7. CASE Fail(t)
  <2>1. episodes' = episodes \ {r} /\ UNCHANGED <<reported, repeated>>
    BY <1>7 DEF Fail, insightHistory
  <2>2. InsightTypeOK'
    BY <1>1, <2>1, LeaveShape DEF InsightTypeOK
  <2>3. AllBegun'
    BY <1>1, <2>1, BegunAfterLeave
  <2>4. ReportsHold'
    BY <1>1, <1>5, <2>1 DEF ReportsHold, WorkStands
  <2>5. EpisodesStand'
    <3> SUFFICES ASSUME NEW p \in episodes, p # r PROVE Current(p) \in excused \cup reported
      BY <1>1, <1>5, <2>1 DEF EpisodesStand
    <3>1. Incident(t) # Current(p)
      BY <1>3 DEF Current
    <3> QED
      BY <1>2, <3>1 DEF EpisodesStand
  <2> QED
    BY <1>1, <1>2, <1>6, <2>1, <2>2, <2>3, <2>4, <2>5
<1>8. CASE Report(t)
  <2>1. /\ reported' = reported \cup {Incident(t)} /\ episodes' = episodes
        /\ repeated' = IF Incident(t) \in reported THEN repeated \cup {Incident(t)} ELSE repeated
    BY <1>8 DEF Report
  <2>2. InsightTypeOK'
    BY <1>1, <1>3, <2>1, LeaveShape DEF InsightTypeOK
  <2>3. AllBegun'
    <3>1. \A p \in Rules, n \in Nat : <<p, n>> \in reported' => <<p, n>> \in reported \/ Begun(p, n)
      BY <1>3, <1>4, <2>1
    <3> QED
      BY <1>1, <3>1, BegunAfterLeave
  <2>4. ReportsHold'
    <3> SUFFICES ASSUME NEW p \in Rules, Current(p) = Incident(t), Incident(t) \notin excused
                 PROVE  p \in episodes
      BY <1>1, <1>5, <2>1 DEF ReportsHold
    <3>1. p = r
      BY <1>3 DEF Current
    <3> QED
      BY <1>1, <3>1 DEF WorkStands
  <2>5. EpisodesStand'
    BY <1>1, <1>2, <1>5, <2>1 DEF EpisodesStand
  <2>6. repeated' \subseteq excused'
    BY <1>1, <2>1 DEF WorkStands
  <2> QED
    BY <1>1, <1>2, <1>6, <2>1, <2>2, <2>3, <2>4, <2>5, <2>6
<1> QED
  BY <1>7, <1>8

-----------------------------------------------------------------------------
(* The reactions to the engine.                                            *)

LEMMA RecoveredKeeps == ASSUME IInv, NEW r \in Rules, OnRecovered(r) PROVE IInv'
<1> USE DEF IInv
<1>1. /\ episodes' = episodes \ {r} /\ alarmed' = alarmed \ {r}
      /\ closed' = IF r \in alarmed THEN [closed EXCEPT ![r] = @ + 1] ELSE closed
      /\ UNCHANGED <<busy, task, reported, repeated, waved, excused>>
  BY DEF OnRecovered
<1>2. /\ closed' \in [Rules -> Nat]
      /\ \A p \in Rules : p # r => closed'[p] = closed[p]
      /\ closed'[r] = IF r \in alarmed THEN closed[r] + 1 ELSE closed[r]
  BY <1>1 DEF InsightTypeOK
<1>3. InsightTypeOK'
  BY <1>1, <1>2 DEF InsightTypeOK
<1>4. Slot'
  BY <1>1 DEF Slot, Holding
<1>5. ASSUME NEW p \in Rules, NEW n \in Nat, Begun(p, n)
      PROVE  Begun(p, n)' /\ <<r, closed'[r]>> # <<p, n>>
  BY <1>1, <1>2, <1>5 DEF Begun, InsightTypeOK
<1>6. AllBegun'
  BY <1>1, <1>5, TaskTyped DEF AllBegun, In
<1>7. /\ \A p \in Rules : p # r => Current(p)' = Current(p)
      /\ Current(r)' = <<r, closed'[r]>> /\ closed'[r] \in Nat
  BY <1>2 DEF Current
<1>8. Current(r)' \notin reported
  BY <1>5, <1>7 DEF AllBegun
<1>9. ASSUME NEW t \in Tasks, Working(t)
      PROVE  Incident(t) # Current(r)' /\ Incident(t)' = Incident(t) /\ Working(t)'
  <2>1. Begun(task[t].rule, task[t].number)
    BY <1>9 DEF AllBegun, In, Working
  <2> QED
    BY <1>1, <1>5, <1>7, <1>9, <2>1, TaskTyped DEF Incident, Working
<1>10. ReportsHold'
  BY <1>1, <1>7, <1>8 DEF ReportsHold
<1>11. EpisodesStand'
  <2> SUFFICES ASSUME NEW p \in episodes, p # r
               PROVE  \/ Current(p) \in excused \cup reported
                      \/ \E t \in Tasks : Working(t)' /\ Incident(t)' = Current(p)
    BY <1>1, <1>7 DEF EpisodesStand, InsightTypeOK
  <2> QED
    BY <1>9 DEF EpisodesStand
<1>12. WorkStands'
  <2> SUFFICES ASSUME NEW t \in Tasks, Working(t)
               PROVE  /\ Incident(t) = Current(task[t].rule)' =>
                            Incident(t) \in excused \/ task[t].rule \in episodes'
                      /\ Incident(t) \in excused \/ Incident(t) \notin reported
                      /\ Current(task[t].rule)' \in reported => Current(task[t].rule)' \in excused
    BY <1>1, <1>9 DEF WorkStands, Working, Incident
  <2>1. CASE task[t].rule = r
    BY <1>1, <1>8, <1>9, <2>1 DEF WorkStands
  <2>2. CASE task[t].rule # r
    BY <1>1, <1>7, <2>2, TaskTyped DEF WorkStands
  <2> QED
    BY <2>1, <2>2
<1> QED
  BY <1>1, <1>3, <1>4, <1>6, <1>10, <1>11, <1>12

LEMMA FiredKeeps == ASSUME IInv, NEW r \in Rules, OnAlertFired(r) PROVE IInv'
<1> USE DEF IInv
<1>1. /\ alarmed' = alarmed \cup {r}
      /\ UNCHANGED <<busy, episodes, closed, reported, repeated, waved, excused>>
  BY DEF OnAlertFired
<1>2. closed[r] \in Nat
  BY DEF InsightTypeOK
<1>3. \A p \in Rules, n \in Nat : Begun(p, n) => Begun(p, n)'
  BY <1>1 DEF Begun
<1>4. Begun(r, closed[r])'
  BY <1>1 DEF Begun
<1>5. \A p : Current(p)' = Current(p)
  BY <1>1 DEF Current
<1>6. CASE UNCHANGED task
  <2>1. InsightTypeOK' /\ Slot'
    BY <1>1, <1>6 DEF InsightTypeOK, Slot, Holding
  <2>2. AllBegun'
    BY <1>1, <1>3, <1>6, TaskTyped DEF AllBegun, In
  <2>3. ReportsHold' /\ EpisodesStand' /\ WorkStands'
    BY <1>1, <1>5, <1>6 DEF ReportsHold, EpisodesStand, WorkStands, Working, Incident
  <2> QED
    BY <1>1, <2>1, <2>2, <2>3
<1>7. ASSUME NEW t \in Tasks, In(t, "idle"),
             task' = [task EXCEPT ![t] = [pc |-> "start", rule |-> r, number |-> closed[r]]]
      PROVE  IInv'
  <2>1. [pc |-> "start", rule |-> r, number |-> closed[r]] \in TaskType
    BY <1>2 DEF TaskType
  <2>2. /\ task' \in [Tasks -> TaskType]
        /\ task'[t].pc = "start" /\ task'[t].rule = r /\ task'[t].number = closed[r]
        /\ \A u \in Tasks : u # t => task'[u] = task[u]
    BY <1>7, <2>1 DEF InsightTypeOK
  <2>3. InsightTypeOK'
    BY <1>1, <2>2 DEF InsightTypeOK
  <2>4. \A u \in Tasks : /\ Working(u)' <=> Working(u)
                         /\ Working(u) => Incident(u)' = Incident(u) /\ task'[u] = task[u]
                         /\ Holding(u)' <=> Holding(u)
    BY <1>7, <2>2 DEF Working, Holding, Incident, In
  <2>5. Slot'
    BY <1>1, <2>4 DEF Slot
  <2>6. AllBegun'
    BY <1>1, <1>3, <1>4, <2>2, TaskTyped DEF AllBegun, In
  <2>7. ReportsHold' /\ EpisodesStand' /\ WorkStands'
    BY <1>1, <1>5, <2>4 DEF ReportsHold, EpisodesStand, WorkStands
  <2> QED
    BY <1>1, <2>3, <2>5, <2>6, <2>7
<1> QED
  BY <1>6, <1>7 DEF OnAlertFired

-----------------------------------------------------------------------------
(* The theorems.                                                           *)

\* With the service attached the engine takes its own steps only.
LEMMA StepsOfEngine == ASSUME [Next]_vars PROVE [EngineNext]_engineVars
<1>1. ASSUME NEW t \in Tasks, UNCHANGED engineVars PROVE [EngineNext]_engineVars
  BY <1>1
<1> QED
  BY <1>1 DEF Next, EngineNext, vars

LEMMA InitIInv == Init => IInv
<1> SUFFICES ASSUME Init PROVE IInv
  OBVIOUS
<1>1. /\ busy = FALSE /\ episodes = {} /\ task = [t \in Tasks |-> NoTask]
      /\ alarmed = {} /\ closed = [r \in Rules |-> 0]
      /\ reported = {} /\ repeated = {} /\ waved = {} /\ excused = {}
  BY DEF Init
<1>2. InsightTypeOK
  BY <1>1, NoTaskType DEF InsightTypeOK
<1>3. \A t \in Tasks : task[t].pc = "idle"
  BY <1>1 DEF NoTask
<1> QED
  BY <1>1, <1>2, <1>3 DEF IInv, Slot, Holding, AllBegun, In, ReportsHold, EpisodesStand, WorkStands, Working

LEMMA Inductive == IInv /\ [Next]_vars => IInv'
<1> SUFFICES ASSUME IInv, [Next]_vars PROVE IInv'
  OBVIOUS
<1>1. CASE UNCHANGED insightVars
  BY <1>1 DEF insightVars, insightHistory, IInv, InsightTypeOK, Slot, Holding, AllBegun, In, Begun,
              ReportsHold, EpisodesStand, WorkStands, Working, Incident, Current
<1>2. ASSUME NEW r \in Rules, OnRecovered(r) \/ OnAlertFired(r) PROVE IInv'
  BY <1>2, RecoveredKeeps, FiredKeeps
<1>3. ASSUME NEW t \in Tasks, Progress(t) PROVE IInv'
  BY <1>3, StartKeeps, UnclaimedKeeps, ClaimKeeps, WorkKeeps, EndKeeps DEF Progress
<1> QED
  BY <1>1, <1>2, <1>3 DEF Next, vars

LEMMA Invariance == Spec => []IInv
  BY InitIInv, Inductive, PTL DEF Spec

\* The alert engine keeps all its promises with the service attached to its
\* events: every behaviour of the two is one of the engine alone.
THEOREM EngineUndisturbed == Spec => EngineSpec
<1>1. Init => EngineInit
  BY DEF Init
<1> QED
  BY <1>1, StepsOfEngine, PTL DEF Spec, EngineSpec

\* The variables keep their types.
THEOREM TypeCorrect == Spec => []TypeOK
<1>1. EngineTypeOK /\ IInv => TypeOK
  BY DEF IInv, InsightTypeOK, TypeOK
<1> QED
  BY <1>1, EngineUndisturbed, EngineTypeCorrect, Invariance, PTL

\* An incident has one report, unless a late task or one that failed before it
\* claimed the episode came in between.
THEOREM ReportedOnce == Spec => []OneReportPerIncident
<1>1. IInv => OneReportPerIncident
  BY DEF IInv, OneReportPerIncident
<1> QED
  BY <1>1, Invariance, PTL

\* A firing that is skipped as investigated belongs to an incident that is
\* being investigated or has its report, with the same exceptions.
THEOREM SkippedWithReason == Spec => []SkipIsHonest
<1>1. IInv => SkipIsHonest
  BY DEF IInv, SkipIsHonest
<1> QED
  BY <1>1, Invariance, PTL

=============================================================================
