------------------------- MODULE ClientCacheProofs -------------------------
(***************************************************************************)
(* The safety properties of ClientCache, and that it keeps the promise of  *)
(* SharedClients, for every set of keys, builds, callers and sweepers.     *)
(*                                                                         *)
(* The invariants say little about who may still touch a build. What makes *)
(* them inductive is Apart: a build is in at most one place - the          *)
(* dictionary, one sweep's list, the hooks, or abandoned - so that whoever *)
(* disposes it is the last to hold it.                                     *)
(***************************************************************************)
EXTENDS ClientCache, TLAPS

\* A build is held by one party at a time.
Apart ==
    \A b \in Builds :
        /\ Installed(b) => ~Underway(b) /\ b \notin abandoned
        /\ b \in hooked => b \notin abandoned
        /\ \A s \in Sweepers : b \in sweep[s].builds =>
              /\ b \notin hooked /\ b \notin abandoned
              /\ \A t \in Sweepers : b \in sweep[t].builds => s = t

\* A build nobody started is nowhere.
FreshIsNowhere ==
    \A b \in Builds : Task(b) = "unused" =>
        ~Installed(b) /\ ~Underway(b) /\ b \notin abandoned

\* A disposed client is nowhere any more, and was the cache's own.
DisposedIsNowhere ==
    \A b \in Builds :
        \/ build[b].disposed = 0
        \/ /\ build[b].disposed = 1 /\ build[b].owned /\ Task(b) = "built"
           /\ ~Installed(b) /\ ~Underway(b)

\* Only a sweep that is handing out holds builds.
SweepsHold == \A s \in Sweepers : sweep[s].pc # "remove" => sweep[s].builds = {}

IInv ==
    /\ TypeOK /\ NeverPoisoned
    /\ Apart /\ FreshIsNowhere /\ DisposedIsNowhere /\ SweepsHold

-----------------------------------------------------------------------------
(* Typing.                                                                 *)

LEMMA IdleSweepType == IdleSweep \in SweepType /\ (CHOOSE k \in Keys : TRUE) \in Keys
  BY ClientCacheAssumption DEF IdleSweep, SweepType, Kinds

LEMMA Idles == NewBuild \in BuildType /\ IdleCaller \in CallerType
  BY IdleSweepType DEF NewBuild, IdleCaller, BuildType, CallerType, Tasks

LEMMA InitType == Init => TypeOK
<1> SUFFICES ASSUME Init PROVE TypeOK
  OBVIOUS
<1>1. build \in [Builds -> BuildType] /\ caller \in [Callers -> CallerType]
  BY Idles DEF Init
<1>2. sweep \in [Sweepers -> SweepType]
  BY IdleSweepType DEF Init
<1>3. slot \in [Keys -> Builds \cup {NoBuild}]
  BY DEF Init
<1>4. hooked \subseteq Builds /\ abandoned \subseteq Builds /\ profile \in Nat
  BY DEF Init
<1>5. closed \in BOOLEAN
  BY DEF Init
<1> QED
  BY <1>1, <1>2, <1>3, <1>4, <1>5 DEF TypeOK

LEMMA DisposedType ==
  ASSUME TypeOK, NEW b \in Builds
  PROVE  Disposed(b) \in [Builds -> BuildType]
  BY DEF Disposed, TypeOK, BuildType

LEMMA CallType ==
  ASSUME TypeOK, NEW c \in Callers, Call(c)
  PROVE  TypeOK'
<1> USE ClientCacheAssumption
<1>1. CASE Request(c)
  <2>1. PICK k \in Keys : caller' = [caller EXCEPT ![c] = [pc |-> "claim", key |-> k,
                                                          build |-> NoBuild, profile |-> profile]]
    BY <1>1 DEF Request
  <2>2. [pc |-> "claim", key |-> k, build |-> NoBuild, profile |-> profile] \in CallerType
    BY DEF TypeOK, CallerType
  <2>3. caller' \in [Callers -> CallerType]
    BY <2>1, <2>2 DEF TypeOK
  <2> QED
    BY <1>1, <2>3 DEF Request, TypeOK
<1>2. CASE Claim(c)
  <2> DEFINE k == caller[c].key
  <2>1. k \in Keys /\ caller[c].profile \in Nat
    BY DEF TypeOK, CallerType
  <2>2. ASSUME NEW b \in Builds, caller' = [caller EXCEPT ![c].pc = "wait", ![c].build = b]
        PROVE  caller' \in [Callers -> CallerType]
    <3>1. [caller[c] EXCEPT !.pc = "wait", !.build = b] \in CallerType
      BY DEF TypeOK, CallerType
    <3>2. caller' = [caller EXCEPT ![c] = [caller[c] EXCEPT !.pc = "wait", !.build = b]]
      BY <2>2
    <3> QED
      BY <3>1, <3>2 DEF TypeOK
  <2>3. CASE slot[k] # NoBuild /\ caller' = [caller EXCEPT ![c].pc = "wait", ![c].build = slot[k]]
             /\ UNCHANGED <<slot, build>>
    <3>1. slot[k] \in Builds
      BY <2>1, <2>3 DEF TypeOK
    <3>2. caller' \in [Callers -> CallerType]
      BY <2>2, <2>3, <3>1
    <3> QED
      BY <1>2, <2>3, <3>2 DEF Claim, TypeOK
  <2>4. ASSUME NEW b \in Unused,
               slot' = [slot EXCEPT ![k] = b],
               build' = [build EXCEPT ![b].task = "building", ![b].key = k,
                                      ![b].profile = caller[c].profile],
               caller' = [caller EXCEPT ![c].pc = "wait", ![c].build = b]
        PROVE  TypeOK'
    <3> DEFINE started == [build[b] EXCEPT !.task = "building", !.key = k,
                                           !.profile = caller[c].profile]
    <3>1. b \in Builds
      BY DEF Unused
    <3>2. started \in BuildType
      BY <2>1, <3>1 DEF TypeOK, BuildType, Tasks
    <3>3. build' = [build EXCEPT ![b] = started]
      BY <2>4
    <3> HIDE DEF started
    <3>4. build' \in [Builds -> BuildType]
      BY <3>1, <3>2, <3>3 DEF TypeOK
    <3>5. caller' \in [Callers -> CallerType]
      BY <2>2, <2>4, <3>1
    <3>6. slot' \in [Keys -> Builds \cup {NoBuild}]
      BY <2>1, <2>4, <3>1 DEF TypeOK
    <3>7. UNCHANGED <<hooked, sweep, closed, profile, abandoned>>
      BY <1>2 DEF Claim
    <3> QED
      BY <3>4, <3>5, <3>6, <3>7 DEF TypeOK
  <2> QED
    BY <1>2, <2>3, <2>4 DEF Claim
<1>3. CASE Answered(c) \/ GiveUp(c)
  BY <1>3, Idles DEF Answered, GiveUp, TypeOK
<1> QED
  BY <1>1, <1>2, <1>3 DEF Call

LEMMA BuildingType ==
  ASSUME TypeOK, NEW b \in Builds, Building(b)
  PROVE  TypeOK'
<1>1. CASE FactoryReturns(b)
  <2>1. PICK owned \in BOOLEAN :
          build' = [build EXCEPT ![b].task = "built", ![b].owned = owned]
    BY <1>1 DEF FactoryReturns
  <2>2. [build[b] EXCEPT !.task = "built", !.owned = owned] \in BuildType
    BY DEF TypeOK, BuildType, Tasks
  <2>3. build' \in [Builds -> BuildType]
    BY <2>1, <2>2 DEF TypeOK
  <2> QED
    BY <1>1, <2>3 DEF FactoryReturns, TypeOK
<1>2. CASE FactoryThrows(b)
  BY <1>2 DEF FactoryThrows, TypeOK, BuildType, Tasks
<1>3. CASE Fail(b)
  BY <1>3 DEF Fail, TypeOK, BuildType, Tasks
<1>4. CASE DisposeWhenBuilt(b)
  <2>1. Disposed(b) \in [Builds -> BuildType]
    BY DisposedType
  <2> QED
    BY <1>4, <2>1 DEF DisposeWhenBuilt, TypeOK
<1> QED
  BY <1>1, <1>2, <1>3, <1>4 DEF Building

SweeperStep(s) == Sweeping(s) \/ SweepStart(s) \/ SaveProfile(s) \/ SweepInterrupted(s)

LEMMA SweeperType ==
  ASSUME TypeOK, NEW s \in Sweepers, SweeperStep(s)
  PROVE  TypeOK'
<1>1. CASE SweepCheck(s)
  BY <1>1, IdleSweepType DEF SweepCheck, TypeOK, SweepType
<1>2. CASE SweepKeys(s)
  <2>1. [sweep[s] EXCEPT !.pc = "remove", !.keys = Cached] \in SweepType
    BY DEF TypeOK, SweepType, Cached
  <2>2. sweep' = [sweep EXCEPT ![s] = [sweep[s] EXCEPT !.pc = "remove", !.keys = Cached]]
    BY <1>2 DEF SweepKeys
  <2>3. sweep' \in [Sweepers -> SweepType]
    BY <2>1, <2>2 DEF TypeOK
  <2> QED
    BY <1>2, <2>3 DEF SweepKeys, TypeOK
<1>3. CASE SweepDone(s)
  BY <1>3, IdleSweepType DEF SweepDone, TypeOK
<1>4. ASSUME NEW k \in Keys, SweepRemove(s, k)
      PROVE  TypeOK'
  <2> DEFINE next == [sweep[s] EXCEPT !.keys = @ \ {k}, !.builds = @ \cup ({slot[k]} \ {NoBuild})]
  <2>1. slot[k] \in Builds \cup {NoBuild}
    BY DEF TypeOK
  <2>3. next \in SweepType
    BY <2>1 DEF TypeOK, SweepType
  <2>4. sweep' = [sweep EXCEPT ![s] = next]
    BY <1>4 DEF SweepRemove
  <2> HIDE DEF next
  <2>2. sweep' \in [Sweepers -> SweepType]
    BY <2>3, <2>4 DEF TypeOK
  <2> QED
    BY <1>4, <2>2 DEF SweepRemove, TypeOK
<1>5. ASSUME NEW b \in Builds, HandOff(s, b)
      PROVE  TypeOK'
  <2>1. sweep' \in [Sweepers -> SweepType]
    BY <1>5 DEF HandOff, TypeOK, SweepType
  <2> QED
    BY <1>5, <2>1, DisposedType DEF HandOff, TypeOK
<1>6. CASE SweepStart(s)
  <2>1. CASE \E kind \in {"invalidateAsync", "dispose"} :
               sweep' = [sweep EXCEPT ![s] = [IdleSweep EXCEPT !.pc = "keys", !.kind = kind]]
    <3>1. \A kind \in {"invalidateAsync", "dispose"} :
            [IdleSweep EXCEPT !.pc = "keys", !.kind = kind] \in SweepType
      BY DEF SweepType, IdleSweep, Kinds
    <3> QED
      BY <1>6, <2>1, <3>1 DEF SweepStart, TypeOK
  <2>2. CASE \E k \in Keys :
               sweep' = [sweep EXCEPT ![s] = [IdleSweep EXCEPT !.pc = "remove", !.keys = {k}]]
    <3>1. \A k \in Keys : [IdleSweep EXCEPT !.pc = "remove", !.keys = {k}] \in SweepType
      BY DEF SweepType, IdleSweep, Kinds
    <3> QED
      BY <1>6, <2>2, <3>1 DEF SweepStart, TypeOK
  <2> QED
    BY <1>6, <2>1, <2>2 DEF SweepStart
<1>7. CASE SaveProfile(s)
  <2>1. [IdleSweep EXCEPT !.pc = "check", !.kind = "invalidate"] \in SweepType
    BY DEF SweepType, IdleSweep, Kinds
  <2> QED
    BY <1>7, <2>1 DEF SaveProfile, TypeOK
<1>8. CASE SweepInterrupted(s)
  <2>1. sweep[s].builds \subseteq Builds
    BY DEF TypeOK, SweepType
  <2>2. sweep' \in [Sweepers -> SweepType]
    BY <1>8, IdleSweepType DEF SweepInterrupted, TypeOK
  <2> QED
    BY <1>8, <2>1, <2>2 DEF SweepInterrupted, TypeOK
<1> QED
  BY <1>1, <1>2, <1>3, <1>4, <1>5, <1>6, <1>7, <1>8 DEF SweeperStep, Sweeping

-----------------------------------------------------------------------------
(* The other invariants.                                                   *)

LEMMA InitInv == Init => IInv
<1> SUFFICES ASSUME Init PROVE IInv
  OBVIOUS
<1>1. TypeOK
  BY InitType
<1>2. \A b \in Builds : ~Installed(b) /\ ~Underway(b) /\ b \notin abandoned
  BY ClientCacheAssumption DEF Init, Installed, Underway, IdleSweep
<1>3. \A b \in Builds : build[b].disposed = 0
  BY DEF Init, NewBuild
<1>4. \A s \in Sweepers : sweep[s].builds = {}
  BY DEF Init, IdleSweep
<1>5. NeverPoisoned
  BY DEF Init, NeverPoisoned
<1> QED
  BY <1>1, <1>2, <1>3, <1>4, <1>5
     DEF IInv, Apart, FreshIsNowhere, DisposedIsNowhere, SweepsHold, Underway

LEMMA CallKeeps ==
  ASSUME IInv, NEW c \in Callers, Call(c)
  PROVE  IInv'
<1>1. TypeOK'
  BY CallType DEF IInv
<1>2. CASE UNCHANGED <<slot, build, hooked, sweep, abandoned>>
  BY <1>1, <1>2 DEF IInv, NeverPoisoned, Apart, FreshIsNowhere, DisposedIsNowhere,
                    SweepsHold, Installed, Underway, Task
<1>3. CASE Claim(c) /\ slot[caller[c].key] = NoBuild
  <2> DEFINE k == caller[c].key
  <2>1. PICK b \in Unused :
          /\ slot' = [slot EXCEPT ![k] = b]
          /\ build' = [build EXCEPT ![b].task = "building", ![b].key = k,
                                    ![b].profile = caller[c].profile]
    BY <1>3 DEF Claim
  <2>2. UNCHANGED <<hooked, sweep, abandoned>>
    BY <1>3 DEF Claim
  <2>3. b \in Builds /\ Task(b) = "unused" /\ k \in Keys
    BY DEF Unused, IInv, TypeOK, CallerType
  <2>4. ~Installed(b) /\ ~Underway(b) /\ b \notin abandoned /\ build[b].disposed = 0
    BY <2>3 DEF IInv, FreshIsNowhere, DisposedIsNowhere
  <2>5. \A x \in Builds :
          /\ build'[x].disposed = build[x].disposed /\ build'[x].owned = build[x].owned
          /\ x # b => build'[x] = build[x]
          /\ x = b => build'[x].task = "building" /\ build'[x].key = k
    BY <2>1, <2>3 DEF IInv, TypeOK, BuildType
  <2>6. \A j \in Keys : slot'[j] = IF j = k THEN b ELSE slot[j]
    BY <2>1, <2>3 DEF IInv, TypeOK
  <2>7. \A x \in Builds : (Installed(x)' <=> Installed(x) \/ x = b) /\ (Underway(x)' <=> Underway(x))
    BY <1>3, <2>2, <2>3, <2>6, ClientCacheAssumption DEF Installed, Underway
  <2>8. NeverPoisoned'
    BY <2>3, <2>4, <2>5, <2>6 DEF IInv, TypeOK, NeverPoisoned, Task, Installed
  <2>9. Apart' /\ SweepsHold'
    BY <2>2, <2>4, <2>7 DEF IInv, Apart, SweepsHold
  <2>10. FreshIsNowhere'
    BY <2>2, <2>5, <2>7 DEF IInv, FreshIsNowhere, Task
  <2>11. DisposedIsNowhere'
    BY <2>3, <2>4, <2>5, <2>7 DEF IInv, DisposedIsNowhere, Task
  <2> QED
    BY <1>1, <2>8, <2>9, <2>10, <2>11 DEF IInv
<1> QED
  BY <1>2, <1>3 DEF Call, Request, Claim, Answered, GiveUp

LEMMA BuildingKeeps ==
  ASSUME IInv, NEW b \in Builds, Building(b)
  PROVE  IInv'
<1>1. TypeOK'
  BY BuildingType DEF IInv
<1>2. ASSUME UNCHANGED <<slot, hooked, sweep, abandoned>>,
             Task(b) \in {"building", "failing"}, ~Installed(b) \/ build'[b].task = "built",
             build'[b].task \in {"built", "failed"},
             build'[b].disposed = build[b].disposed, build'[b].key = build[b].key,
             \A x \in Builds : x # b => build'[x] = build[x]
      PROVE  IInv'
  <2>1. build[b].disposed = 0
    BY <1>2 DEF IInv, DisposedIsNowhere
  <2> QED
    BY <1>1, <1>2, <2>1 DEF IInv, TypeOK, NeverPoisoned, Apart, FreshIsNowhere, DisposedIsNowhere,
                            SweepsHold, Installed, Underway, Task
<1>3. CASE FactoryReturns(b)
  BY <1>2, <1>3 DEF FactoryReturns, IInv, TypeOK, BuildType
<1>4. CASE Fail(b)
  <2>1. ~Installed(b)
    BY <1>4, ClientCacheAssumption DEF Fail, IInv, NeverPoisoned, Installed, Task
  <2> QED
    BY <1>2, <1>4, <2>1 DEF Fail, IInv, TypeOK, BuildType
<1>5. CASE FactoryThrows(b)
  <2>1. \A x \in Builds :
          /\ build'[x].disposed = build[x].disposed /\ build'[x].owned = build[x].owned
          /\ build'[x].key = build[x].key
          /\ x # b => build'[x] = build[x]
          /\ x = b => build'[x].task = "failing"
    BY <1>5 DEF FactoryThrows, IInv, TypeOK, BuildType
  <2>2. build[b].disposed = 0
    BY <1>5 DEF FactoryThrows, IInv, DisposedIsNowhere
  <2>3. \A k \in Keys : slot'[k] = IF slot[k] = b THEN NoBuild ELSE slot[k]
    BY <1>5 DEF FactoryThrows
  <2>4. UNCHANGED <<hooked, sweep, abandoned>>
    BY <1>5 DEF FactoryThrows
  <2>5. \A x \in Builds : (Installed(x)' => Installed(x) /\ x # b) /\ (Underway(x)' <=> Underway(x))
    BY <2>3, <2>4, ClientCacheAssumption DEF Installed, Underway
  <2>6. NeverPoisoned'
    BY <2>1, <2>3 DEF IInv, TypeOK, NeverPoisoned, Task
  <2>7. Apart' /\ SweepsHold'
    BY <2>4, <2>5 DEF IInv, Apart, SweepsHold
  <2>8. FreshIsNowhere'
    BY <2>1, <2>4, <2>5 DEF IInv, FreshIsNowhere, Task
  <2>9. DisposedIsNowhere'
    BY <2>1, <2>2, <2>5 DEF IInv, DisposedIsNowhere, Task
  <2> QED
    BY <1>1, <2>6, <2>7, <2>8, <2>9 DEF IInv
<1>6. CASE DisposeWhenBuilt(b)
  <2>1. b \in hooked /\ Task(b) = "built" /\ ~Installed(b) /\ b \notin abandoned
        /\ \A s \in Sweepers : b \notin sweep[s].builds
    BY <1>6 DEF DisposeWhenBuilt, IInv, Apart, Underway
  <2>2. build[b].disposed = 0
    BY <2>1 DEF IInv, DisposedIsNowhere, Underway
  <2>3. \A x \in Builds :
          /\ build'[x].task = build[x].task /\ build'[x].key = build[x].key
          /\ build'[x].owned = build[x].owned
          /\ x # b => build'[x] = build[x]
          /\ x = b => build'[x].disposed = IF build[b].owned THEN 1 ELSE 0
    BY <1>6, <2>2 DEF DisposeWhenBuilt, Disposed, IInv, TypeOK, BuildType
  <2>4. slot' = slot /\ sweep' = sweep /\ abandoned' = abandoned /\ hooked' = hooked \ {b}
    BY <1>6 DEF DisposeWhenBuilt
  <2>5. \A x \in Builds : /\ Installed(x)' <=> Installed(x)
                          /\ Underway(x)' <=> Underway(x) /\ x # b
    BY <2>1, <2>4 DEF Installed, Underway
  <2>6. NeverPoisoned'
    BY <2>3, <2>4 DEF IInv, TypeOK, NeverPoisoned, Task
  <2>7. Apart' /\ SweepsHold'
    BY <2>4, <2>5 DEF IInv, Apart, SweepsHold
  <2>8. FreshIsNowhere'
    BY <2>3, <2>4, <2>5 DEF IInv, FreshIsNowhere, Task
  <2>9. DisposedIsNowhere'
    BY <2>1, <2>3, <2>5 DEF IInv, DisposedIsNowhere, Task
  <2> QED
    BY <1>1, <2>6, <2>7, <2>8, <2>9 DEF IInv
<1> QED
  BY <1>3, <1>4, <1>5, <1>6 DEF Building

LEMMA SweeperKeeps ==
  ASSUME IInv, NEW s \in Sweepers, SweeperStep(s)
  PROVE  IInv'
<1>1. TypeOK'
  BY SweeperType DEF IInv
<1>2. ASSUME UNCHANGED <<slot, build, hooked, abandoned>>,
             \A t \in Sweepers : sweep'[t].builds = sweep[t].builds,
             \A t \in Sweepers : sweep'[t].pc # "remove" => sweep[t].builds = {}
      PROVE  IInv'
  BY <1>1, <1>2 DEF IInv, NeverPoisoned, Apart, FreshIsNowhere, DisposedIsNowhere,
                    SweepsHold, Installed, Underway, Task
<1>3. CASE SweepCheck(s)
  BY <1>2, <1>3 DEF SweepCheck, IInv, TypeOK, SweepType, SweepsHold, IdleSweep
<1>4. CASE SweepKeys(s)
  BY <1>2, <1>4 DEF SweepKeys, IInv, TypeOK, SweepType, SweepsHold
<1>5. CASE SweepDone(s)
  BY <1>2, <1>5 DEF SweepDone, IInv, TypeOK, SweepType, SweepsHold, IdleSweep
<1>6. CASE SweepStart(s)
  <2>1. sweep[s].builds = {} /\ \A t \in Sweepers : t # s => sweep'[t] = sweep[t]
    BY <1>6 DEF SweepStart, IInv, TypeOK, SweepsHold
  <2>2. sweep'[s].builds = {}
    BY <1>6 DEF SweepStart, IInv, TypeOK, IdleSweep
  <2> QED
    BY <1>2, <1>6, <2>1, <2>2 DEF SweepStart, IInv, SweepsHold
<1>7. CASE SaveProfile(s)
  BY <1>2, <1>7 DEF SaveProfile, IInv, TypeOK, SweepType, SweepsHold, IdleSweep
<1>8. CASE SweepInterrupted(s)
  <2>1. \A t \in Sweepers : sweep'[t].builds = IF t = s THEN {} ELSE sweep[t].builds
    BY <1>8 DEF SweepInterrupted, IInv, TypeOK, IdleSweep
  <2>2. slot' = slot /\ build' = build /\ hooked' = hooked
        /\ abandoned' = abandoned \cup sweep[s].builds
    BY <1>8 DEF SweepInterrupted
  <2>3. \A b \in Builds : /\ Installed(b)' <=> Installed(b)
                          /\ Underway(b)' <=> Underway(b) /\ b \notin sweep[s].builds
    BY <2>1, <2>2 DEF Installed, Underway, IInv, Apart
  <2>4. NeverPoisoned'
    BY <2>2 DEF IInv, NeverPoisoned, Task
  <2>5. Apart'
    BY <2>1, <2>2, <2>3 DEF IInv, Apart, Underway
  <2>6. SweepsHold'
    BY <1>8, <2>1 DEF SweepInterrupted, IInv, TypeOK, SweepsHold
  <2>7. FreshIsNowhere'
    BY <2>2, <2>3 DEF IInv, FreshIsNowhere, Task, Underway
  <2>8. DisposedIsNowhere'
    BY <2>2, <2>3 DEF IInv, DisposedIsNowhere, Task
  <2> QED
    BY <1>1, <2>4, <2>5, <2>6, <2>7, <2>8 DEF IInv
<1>9. ASSUME NEW k \in Keys, SweepRemove(s, k)
      PROVE  IInv'
  <2>1. build' = build /\ hooked' = hooked /\ abandoned' = abandoned
    BY <1>9 DEF SweepRemove
  <2>2. \A j \in Keys : slot'[j] = IF j = k THEN NoBuild ELSE slot[j]
    BY <1>9 DEF SweepRemove, IInv, TypeOK
  <2>3. \A t \in Sweepers : /\ sweep'[t].pc = sweep[t].pc
                            /\ sweep'[t].builds = IF t = s THEN sweep[t].builds \cup ({slot[k]} \ {NoBuild})
                                                  ELSE sweep[t].builds
    BY <1>9 DEF SweepRemove, IInv, TypeOK, SweepType
  <2>4. sweep[s].pc = "remove"
    BY <1>9 DEF SweepRemove
  <2>5. \A b \in Builds : /\ Installed(b)' <=> Installed(b) /\ b # slot[k]
                          /\ Underway(b)' <=> Underway(b) \/ b = slot[k]
    <3>1. \A j \in Keys : slot[j] = slot[k] /\ slot[k] # NoBuild => j = k
      BY DEF IInv, NeverPoisoned
    <3> QED
      BY <2>1, <2>2, <2>3, <3>1, ClientCacheAssumption DEF Installed, Underway
  <2>6. slot[k] # NoBuild => /\ slot[k] \in Builds /\ Installed(slot[k]) /\ Task(slot[k]) # "unused"
                             /\ build[slot[k]].disposed = 0
    BY DEF IInv, TypeOK, NeverPoisoned, Installed, DisposedIsNowhere
  <2>7. NeverPoisoned'
    BY <2>1, <2>2 DEF IInv, NeverPoisoned, Task
  <2>8. Apart'
    <3>1. slot[k] # NoBuild => /\ slot[k] \notin hooked /\ slot[k] \notin abandoned
                               /\ \A t \in Sweepers : slot[k] \notin sweep[t].builds
      BY <2>6 DEF IInv, Apart, Underway
    <3>2. \A b \in Builds : Installed(b)' => ~Underway(b)' /\ b \notin abandoned'
      BY <2>1, <2>5 DEF IInv, Apart
    <3>3. \A b \in Builds : b \in hooked' => b \notin abandoned'
      BY <2>1 DEF IInv, Apart
    <3>4. ASSUME NEW b \in Builds, NEW t \in Sweepers, b \in sweep'[t].builds
          PROVE  /\ b \notin hooked' /\ b \notin abandoned'
                 /\ \A u \in Sweepers : b \in sweep'[u].builds => t = u
      <4>1. CASE b = slot[k] /\ slot[k] # NoBuild
        BY <2>1, <2>3, <3>1, <3>4, <4>1
      <4>2. CASE ~(b = slot[k] /\ slot[k] # NoBuild)
        <5>1. \A u \in Sweepers : b \in sweep'[u].builds => b \in sweep[u].builds
          BY <2>3, <4>2
        <5> QED
          BY <2>1, <3>4, <5>1 DEF IInv, Apart
      <4> QED
        BY <4>1, <4>2
    <3> QED
      BY <3>2, <3>3, <3>4 DEF Apart
  <2>9. SweepsHold'
    BY <2>3, <2>4 DEF IInv, SweepsHold
  <2>10. FreshIsNowhere'
    BY <2>1, <2>5, <2>6, ClientCacheAssumption DEF IInv, FreshIsNowhere, Task
  <2>11. DisposedIsNowhere'
    BY <2>1, <2>5, <2>6, ClientCacheAssumption DEF IInv, DisposedIsNowhere, Task
  <2> QED
    BY <1>1, <2>7, <2>8, <2>9, <2>10, <2>11 DEF IInv
<1>10. ASSUME NEW b \in Builds, HandOff(s, b)
       PROVE  IInv'
  <2>1. /\ b \in sweep[s].builds /\ b \notin hooked /\ b \notin abandoned /\ ~Installed(b)
        /\ \A t \in Sweepers : t # s => b \notin sweep[t].builds
    BY <1>10 DEF HandOff, Handing, IInv, Apart, Underway
  <2>2. build[b].disposed = 0 /\ Task(b) # "unused"
    BY <2>1 DEF IInv, DisposedIsNowhere, FreshIsNowhere, Underway
  <2>3. slot' = slot /\ abandoned' = abandoned /\ sweep[s].pc = "remove"
    BY <1>10 DEF HandOff, Handing
  <2>4. \A t \in Sweepers : /\ sweep'[t].pc = sweep[t].pc
                            /\ sweep'[t].builds = IF t = s THEN sweep[t].builds \ {b}
                                                  ELSE sweep[t].builds
    BY <1>10 DEF HandOff, IInv, TypeOK, SweepType
  <2>5. \A x \in Builds :
          /\ build'[x].task = build[x].task /\ build'[x].key = build[x].key
          /\ build'[x].owned = build[x].owned
          /\ x # b => build'[x] = build[x]
          /\ x = b => build'[x].disposed = IF build[b].owned /\ Task(b) = "built" THEN 1 ELSE 0
    BY <1>10, <2>2 DEF HandOff, Disposed, IInv, TypeOK, BuildType
  <2>6. hooked' = IF Task(b) = "built" THEN hooked ELSE hooked \cup {b}
    BY <1>10 DEF HandOff
  <2>7. \A x \in Builds : /\ Installed(x)' <=> Installed(x)
                          /\ Underway(x)' <=> IF x = b THEN Task(b) # "built" ELSE Underway(x)
    BY <2>1, <2>3, <2>4, <2>6 DEF Installed, Underway
  <2>8. NeverPoisoned'
    BY <2>3, <2>5 DEF IInv, TypeOK, NeverPoisoned, Task
  <2>9. Apart'
    <3>1. \A x \in Builds : Installed(x)' => ~Underway(x)' /\ x \notin abandoned'
      BY <2>1, <2>3, <2>7 DEF IInv, Apart
    <3>2. \A x \in Builds : x \in hooked' => x \notin abandoned'
      BY <2>1, <2>3, <2>6 DEF IInv, Apart
    <3>3. ASSUME NEW x \in Builds, NEW t \in Sweepers, x \in sweep'[t].builds
          PROVE  /\ x \notin hooked' /\ x \notin abandoned'
                 /\ \A u \in Sweepers : x \in sweep'[u].builds => t = u
      <4>1. x # b /\ x \in sweep[t].builds
        BY <2>1, <2>4, <3>3
      <4>2. \A u \in Sweepers : x \in sweep'[u].builds => x \in sweep[u].builds
        BY <2>4
      <4> QED
        BY <2>3, <2>6, <4>1, <4>2 DEF IInv, Apart
    <3> QED
      BY <3>1, <3>2, <3>3 DEF Apart
  <2>10. SweepsHold'
    BY <2>3, <2>4 DEF IInv, SweepsHold
  <2>11. FreshIsNowhere'
    BY <2>2, <2>3, <2>5, <2>7 DEF IInv, FreshIsNowhere, Task
  <2>12. DisposedIsNowhere'
    BY <2>1, <2>2, <2>5, <2>7 DEF IInv, DisposedIsNowhere, Task
  <2> QED
    BY <1>1, <2>8, <2>9, <2>10, <2>11, <2>12 DEF IInv
<1> QED
  BY <1>3, <1>4, <1>5, <1>6, <1>7, <1>8, <1>9, <1>10 DEF SweeperStep, Sweeping

LEMMA Inductive == IInv /\ [Next]_vars => IInv'
<1> SUFFICES ASSUME IInv, [Next]_vars PROVE IInv'
  OBVIOUS
<1>1. CASE UNCHANGED vars
  BY <1>1 DEF vars, IInv, TypeOK, NeverPoisoned, Apart, FreshIsNowhere, DisposedIsNowhere,
              SweepsHold, Installed, Underway, Task
<1>2. CASE Next
  BY <1>2, CallKeeps, BuildingKeeps, SweeperKeeps DEF Next, SweeperStep
<1> QED
  BY <1>1, <1>2

LEMMA Invariance == Spec => []IInv
  BY InitInv, Inductive, PTL DEF Spec

\* The cache's variables keep their types.
THEOREM TypeCorrect == Spec => []TypeOK
<1>1. IInv => TypeOK
  BY DEF IInv
<1> QED
  BY <1>1, Invariance, PTL

\* No client is disposed twice and no borrowed one at all, for any number of
\* callers, sweeps and builds.
THEOREM NoDoubleDispose == Spec => []DisposedOnce
<1>1. IInv => DisposedOnce
  BY DEF IInv, TypeOK, BuildType, DisposedIsNowhere, DisposedOnce
<1> QED
  BY <1>1, Invariance, PTL

\* A lookup finds neither a failed build nor a disposed client, for any number
\* of callers, sweeps and builds.
THEOREM LookupsAreUsable == Spec => []CachedIsUsable
<1>1. IInv => CachedIsUsable
  BY DEF IInv, DisposedIsNowhere, CachedIsLive, CachedIsUsable
<1> QED
  BY <1>1, Invariance, PTL

-----------------------------------------------------------------------------
(* Nothing leaks.                                                          *)

\* Somebody still has the build in hand, or an interrupted sweep let it go.
Held(b) == Installed(b) \/ Underway(b) \/ b \in abandoned

\* A build is held from its start until its client, if owned, is disposed.
Kept(b) ==
    /\ Task(b) = "building" => Held(b)
    /\ Task(b) = "built" /\ build[b].owned => Held(b) \/ build[b].disposed > 0
AllKept == \A b \in Builds : Kept(b)

\* A step that starts, completes and disposes nothing, and drops nothing.
LEMMA HandsKept ==
  ASSUME AllKept, build' = build, \A b \in Builds : Held(b) => Held(b)'
  PROVE  AllKept'
  BY DEF AllKept, Kept, Task

LEMMA CallKept ==
  ASSUME IInv, AllKept, NEW c \in Callers, Call(c)
  PROVE  AllKept'
<1>0. TypeOK
  BY DEF IInv
<1>1. UNCHANGED <<hooked, sweep, abandoned>>
  BY DEF Call, Request, Claim, Answered, GiveUp
<1>2. CASE UNCHANGED <<slot, build>>
  BY <1>1, <1>2, HandsKept DEF Held, Installed, Underway
<1>3. ASSUME NEW b \in Unused, slot[caller[c].key] = NoBuild,
             slot' = [slot EXCEPT ![caller[c].key] = b],
             build' = [build EXCEPT ![b].task = "building", ![b].key = caller[c].key,
                                    ![b].profile = caller[c].profile]
      PROVE  AllKept'
  <2> DEFINE k == caller[c].key
  <2>1. k \in Keys /\ b \in Builds
    BY <1>0 DEF TypeOK, CallerType, Unused
  <2>2. slot'[k] = b /\ \A j \in Keys : j # k => slot'[j] = slot[j]
    BY <1>0, <1>3, <2>1 DEF TypeOK
  <2>3. Installed(b)'
    BY <2>1, <2>2 DEF Installed
  <2>4. \A a \in Builds : a # b => (Held(a) => Held(a)')
    BY <1>0, <1>1, <1>3, <2>2, ClientCacheAssumption DEF Held, Installed, Underway
  <2>5. \A a \in Builds : a # b => build'[a] = build[a]
    BY <1>0, <1>3 DEF TypeOK
  <2> QED
    BY <2>3, <2>4, <2>5 DEF AllKept, Kept, Held, Task
<1> QED
  BY <1>2, <1>3 DEF Call, Request, Claim, Answered, GiveUp

LEMMA BuildingKept ==
  ASSUME IInv, AllKept, NEW b \in Builds, Building(b)
  PROVE  AllKept'
<1>0. TypeOK
  BY DEF IInv
<1>1. UNCHANGED <<sweep, abandoned>>
  BY DEF Building, FactoryReturns, FactoryThrows, Fail, DisposeWhenBuilt
<1>2. \A a \in Builds : a # b => build'[a] = build[a]
  BY <1>0 DEF Building, FactoryReturns, FactoryThrows, Fail, DisposeWhenBuilt,
              Disposed, TypeOK
<1>3. \A a \in Builds : a # b => (Held(a) => Held(a)')
  BY <1>0, <1>1 DEF Building, FactoryReturns, FactoryThrows, Fail, DisposeWhenBuilt,
              Held, Installed, Underway, TypeOK
<1>4. Kept(b)'
  <2>1. CASE FactoryReturns(b)
    <3>1. Held(b)
      BY <2>1 DEF AllKept, Kept, FactoryReturns
    <3>2. Held(b)'
      BY <2>1, <3>1 DEF FactoryReturns, Held, Installed, Underway
    <3> QED
      BY <3>2 DEF Kept
  <2>2. CASE FactoryThrows(b) \/ Fail(b)
    <3>1. build'[b].task \in {"failing", "failed"}
      BY <1>0, <2>2 DEF FactoryThrows, Fail, TypeOK, BuildType
    <3> QED
      BY <3>1 DEF Kept, Task
  <2>3. CASE DisposeWhenBuilt(b)
    <3>1. /\ build'[b].task = "built" /\ build'[b].owned = build[b].owned
          /\ build'[b].disposed = IF build[b].owned THEN build[b].disposed + 1
                                                    ELSE build[b].disposed
      BY <1>0, <2>3 DEF DisposeWhenBuilt, Disposed, TypeOK, BuildType, Task
    <3>2. build[b].disposed \in Nat
      BY <1>0 DEF TypeOK, BuildType
    <3> QED
      BY <3>1, <3>2 DEF Kept, Task
  <2> QED
    BY <2>1, <2>2, <2>3 DEF Building
<1> QED
  BY <1>2, <1>3, <1>4 DEF AllKept, Kept, Task

LEMMA SweeperKept ==
  ASSUME IInv, AllKept, NEW s \in Sweepers,
         Sweeping(s) \/ SweepStart(s) \/ SaveProfile(s) \/ SweepInterrupted(s)
  PROVE  AllKept'
<1>0. TypeOK /\ sweep[s].builds \subseteq Builds
  BY DEF IInv, TypeOK, SweepType
<1>1. CASE \/ SweepCheck(s) \/ SweepKeys(s) \/ SweepDone(s)
           \/ SweepStart(s) \/ SaveProfile(s)
  <2>1. \A t \in Sweepers : t # s => sweep'[t] = sweep[t]
    BY <1>0, <1>1 DEF SweepCheck, SweepKeys, SweepDone, SweepStart, SaveProfile, TypeOK
  <2>2. sweep[s].builds \subseteq sweep'[s].builds
    <3>1. CASE SweepKeys(s)
      BY <1>0, <3>1 DEF SweepKeys, TypeOK, SweepType
    <3>2. CASE SweepCheck(s) \/ SweepDone(s) \/ SweepStart(s) \/ SaveProfile(s)
      <4>1. sweep[s].builds = {}
        BY <3>2 DEF IInv, SweepsHold, SweepCheck, SweepDone, SweepStart, SaveProfile
      <4> QED
        BY <4>1
    <3> QED
      BY <1>1, <3>1, <3>2
  <2>3. UNCHANGED <<slot, build, hooked, abandoned>>
    BY <1>1 DEF SweepCheck, SweepKeys, SweepDone, SweepStart, SaveProfile
  <2>4. \A b \in Builds : Held(b) => Held(b)'
    BY <2>1, <2>2, <2>3 DEF Held, Installed, Underway
  <2> QED
    BY <2>3, <2>4, HandsKept
<1>2. ASSUME NEW k \in Keys, SweepRemove(s, k) PROVE AllKept'
  <2>1. \A t \in Sweepers : sweep'[t].builds =
           IF t = s THEN sweep[s].builds \cup ({slot[k]} \ {NoBuild}) ELSE sweep[t].builds
    BY <1>0, <1>2 DEF SweepRemove, TypeOK, SweepType
  <2>2. \A j \in Keys : j # k => slot'[j] = slot[j]
    BY <1>0, <1>2 DEF SweepRemove, TypeOK
  <2>3. UNCHANGED <<build, hooked, abandoned>>
    BY <1>2 DEF SweepRemove
  <2>4. \A b \in Builds : Held(b) => Held(b)'
    BY <2>1, <2>2, <2>3, ClientCacheAssumption DEF Held, Installed, Underway
  <2> QED
    BY <2>3, <2>4, HandsKept
<1>3. ASSUME NEW b \in Builds, HandOff(s, b) PROVE AllKept'
  <2>1. \A t \in Sweepers : sweep'[t].builds =
           IF t = s THEN sweep[s].builds \ {b} ELSE sweep[t].builds
    BY <1>0, <1>3 DEF HandOff, TypeOK, SweepType
  <2>2. UNCHANGED <<slot, abandoned>> /\ hooked \subseteq hooked'
    BY <1>3 DEF HandOff
  <2>3. \A a \in Builds : a # b => (Held(a) => Held(a)') /\ build'[a] = build[a]
    BY <1>0, <1>3, <2>1, <2>2 DEF Held, Installed, Underway, HandOff, Disposed, TypeOK
  <2>4. Kept(b)'
    <3>1. CASE Task(b) = "built"
      <4>1. /\ build'[b].task = "built" /\ build'[b].owned = build[b].owned
            /\ build'[b].disposed = IF build[b].owned THEN build[b].disposed + 1
                                                      ELSE build[b].disposed
        BY <1>0, <1>3, <3>1 DEF HandOff, Disposed, TypeOK, BuildType, Task
      <4>2. build[b].disposed \in Nat
        BY <1>0 DEF TypeOK, BuildType
      <4> QED
        BY <4>1, <4>2 DEF Kept, Task
    <3>2. CASE Task(b) # "built"
      BY <1>3, <3>2 DEF HandOff, Kept, Held, Underway
    <3> QED
      BY <3>1, <3>2
  <2> QED
    BY <2>3, <2>4 DEF AllKept, Kept, Task
<1>4. CASE SweepInterrupted(s)
  <2>1. \A t \in Sweepers : t # s => sweep'[t].builds = sweep[t].builds
    BY <1>0, <1>4 DEF SweepInterrupted, TypeOK
  <2>2. UNCHANGED <<slot, build, hooked>> /\ abandoned' = abandoned \cup sweep[s].builds
    BY <1>4 DEF SweepInterrupted
  <2>3. \A b \in Builds : Held(b) => Held(b)'
    BY <2>1, <2>2 DEF Held, Installed, Underway
  <2> QED
    BY <2>2, <2>3, HandsKept
<1> QED
  BY <1>1, <1>2, <1>3, <1>4 DEF Sweeping

LEMMA StepKept == IInv /\ AllKept /\ [Next]_vars => AllKept'
<1> SUFFICES ASSUME IInv, AllKept, [Next]_vars PROVE AllKept'
  OBVIOUS
<1>1. CASE UNCHANGED vars
  BY <1>1, HandsKept DEF vars, Held, Installed, Underway
<1>2. CASE Next
  BY <1>2, CallKept, BuildingKept, SweeperKept DEF Next
<1> QED
  BY <1>1, <1>2

\* A client the cache owns is installed, being removed, disposed, or one that
\* an interrupted async invalidation let go - also when it was evicted or the
\* cache was closed in the middle of its build.
THEOREM NoneIsLeaked == Spec => []NothingLeaks
<1>1. Init => AllKept
  BY Idles DEF Init, AllKept, Kept, Task, NewBuild
<1>2. AllKept => NothingLeaks
  BY DEF AllKept, Kept, Held, NothingLeaks
<1> QED
  BY <1>1, <1>2, InitInv, Inductive, StepKept, PTL DEF Spec

\* Both together: a client is disposed once, and never forgotten.
THEOREM DisposalsAreExact == Spec => []DisposalIsExact
  BY NoDoubleDispose, NoneIsLeaked, PTL DEF DisposalIsExact

-----------------------------------------------------------------------------
(* The refinement.                                                         *)

phases == [b \in Builds |-> Phase(b)]

PhaseFacts ==
    \A b \in Builds :
        /\ Task(b) = "unused" => Phase(b) = "new"
        /\ Task(b) \in {"failing", "failed"} => Phase(b) = "gone"
        /\ Task(b) \in {"building", "built"} =>
              /\ build[b].disposed > 0 => Phase(b) = "disposed"
              /\ ~(build[b].disposed > 0) /\ Installed(b) => Phase(b) = "live"
              /\ ~(build[b].disposed > 0) /\ ~Installed(b) => Phase(b) = "retired"

LEMMA PhaseIs == PhaseFacts
<1> SUFFICES ASSUME NEW b \in Builds
             PROVE  /\ Task(b) = "unused" => Phase(b) = "new"
                    /\ Task(b) \in {"failing", "failed"} => Phase(b) = "gone"
                    /\ Task(b) \in {"building", "built"} =>
                          /\ build[b].disposed > 0 => Phase(b) = "disposed"
                          /\ ~(build[b].disposed > 0) /\ Installed(b) => Phase(b) = "live"
                          /\ ~(build[b].disposed > 0) /\ ~Installed(b) => Phase(b) = "retired"
  BY DEF PhaseFacts
<1>1. Task(b) = "unused" => Phase(b) = "new"
  BY DEF Phase, PhaseOf
<1>2. Task(b) \in {"failing", "failed"} => Phase(b) = "gone"
  BY DEF Phase, PhaseOf
<1>3. Task(b) \in {"building", "built"} /\ build[b].disposed > 0 => Phase(b) = "disposed"
  BY DEF Phase, PhaseOf
<1>4. Task(b) \in {"building", "built"} /\ ~(build[b].disposed > 0) /\ Installed(b) => Phase(b) = "live"
  BY DEF Phase, PhaseOf
<1>5. Task(b) \in {"building", "built"} /\ ~(build[b].disposed > 0) /\ ~Installed(b) => Phase(b) = "retired"
  BY DEF Phase, PhaseOf
<1> QED
  BY <1>1, <1>2, <1>3, <1>4, <1>5

LEMMA PhaseIsNext == PhaseFacts'
  BY PhaseIs, PTL

LEMMA StepKeepsPromise ==
  ASSUME IInv, [Next]_vars
  PROVE  [Promise!Next]_<<slot, phases>>
<1> DEFINE Stays(x) == Phase(x)' = Phase(x)
<1>1. ASSUME NEW x \in Builds, build'[x].task = build[x].task,
             build'[x].disposed = build[x].disposed, Installed(x)' = Installed(x)
      PROVE  Stays(x)
  BY <1>1 DEF Phase, Task
<1>2. CASE UNCHANGED <<slot, build>>
  <2>1. \A x \in Builds : Stays(x)
    BY <1>1, <1>2 DEF Installed
  <2> QED
    BY <1>2, <2>1 DEF phases
<1>3. ASSUME NEW c \in Callers, Claim(c), slot[caller[c].key] = NoBuild
      PROVE  Promise!Next
  <2> DEFINE k == caller[c].key
  <2>1. PICK b \in Unused :
          /\ slot' = [slot EXCEPT ![k] = b]
          /\ build' = [build EXCEPT ![b].task = "building", ![b].key = k,
                                    ![b].profile = caller[c].profile]
    BY <1>3 DEF Claim
  <2>2. b \in Builds /\ Task(b) = "unused" /\ k \in Keys
    BY DEF Unused, IInv, TypeOK, CallerType
  <2>3. build[b].disposed = 0 /\ b # NoBuild
    BY <2>2, ClientCacheAssumption DEF IInv, DisposedIsNowhere
  <2>4. \A x \in Builds :
          /\ build'[x].disposed = build[x].disposed
          /\ build'[x].task = IF x = b THEN "building" ELSE build[x].task
    BY <2>1, <2>2 DEF IInv, TypeOK, BuildType
  <2>5. \A x \in Builds : x # b => Installed(x)' = Installed(x)
    BY <1>3, <2>1, <2>2, ClientCacheAssumption DEF Installed, IInv, TypeOK
  <2>6. Installed(b)'
    BY <2>1, <2>2 DEF Installed, IInv, TypeOK
  <2>7. Phase(b) = "new"
    BY <2>2, PhaseIs DEF PhaseFacts
  <2>8. Phase(b)' = "live"
    BY <2>2, <2>3, <2>4, <2>6, PhaseIsNext DEF PhaseFacts, Task
  <2>9. \A x \in Builds : x # b => Stays(x)
    BY <1>1, <2>4, <2>5
  <2>10. phases' = [phases EXCEPT ![b] = "live"] /\ phases[b] = "new"
    BY <2>2, <2>7, <2>8, <2>9 DEF phases
  <2>11. Promise!Install(k, b)
    BY <1>3, <2>1, <2>10 DEF Promise!Install, phases
  <2> QED
    BY <2>2, <2>11 DEF Promise!Next
<1>4. ASSUME NEW b \in Builds, FactoryReturns(b)
      PROVE  UNCHANGED <<slot, phases>>
  <2>1. slot' = slot /\ \A x \in Builds : Installed(x)' = Installed(x)
    BY <1>4 DEF FactoryReturns, Installed
  <2>2. \A x \in Builds : build'[x].disposed = build[x].disposed
                          /\ (x # b => build'[x].task = build[x].task)
    BY <1>4 DEF FactoryReturns, IInv, TypeOK, BuildType
  <2>3. Task(b) = "building" /\ Task(b)' = "built"
    BY <1>4 DEF FactoryReturns, IInv, TypeOK, BuildType, Task
  <2>4. Stays(b)
    BY <2>1, <2>2, <2>3, PhaseIs, PhaseIsNext DEF PhaseFacts, IInv, TypeOK, BuildType
  <2>5. \A x \in Builds : Stays(x)
    BY <1>1, <2>1, <2>2, <2>4
  <2> QED
    BY <2>1, <2>5 DEF phases
<1>5. ASSUME NEW b \in Builds, FactoryThrows(b)
      PROVE  Promise!Next
  <2>1. slot' = [k \in Keys |-> IF slot[k] = b THEN NoBuild ELSE slot[k]]
    BY <1>5 DEF FactoryThrows
  <2>2. \A x \in Builds : build'[x].disposed = build[x].disposed
                          /\ (x # b => build'[x].task = build[x].task)
    BY <1>5 DEF FactoryThrows, IInv, TypeOK, BuildType
  <2>3. Task(b) = "building" /\ Task(b)' = "failing" /\ ~(build[b].disposed > 0)
    BY <1>5 DEF FactoryThrows, IInv, TypeOK, BuildType, Task, DisposedIsNowhere
  <2>4. \A x \in Builds : x # b => Installed(x)' = Installed(x)
    BY <2>1, ClientCacheAssumption DEF Installed
  <2>5. Phase(b) \in {"live", "retired"} /\ Phase(b)' = "gone"
    BY <2>3, PhaseIs, PhaseIsNext DEF PhaseFacts
  <2>6. \A x \in Builds : x # b => Stays(x)
    BY <1>1, <2>2, <2>4
  <2>7. phases' = [phases EXCEPT ![b] = "gone"] /\ phases[b] \in {"live", "retired"}
    BY <2>5, <2>6 DEF phases
  <2>8. Promise!Fail(b)
    BY <2>1, <2>7 DEF Promise!Fail, phases
  <2> QED
    BY <2>8 DEF Promise!Next
<1>6. ASSUME NEW b \in Builds, Fail(b)
      PROVE  UNCHANGED <<slot, phases>>
  <2>1. slot' = slot /\ \A x \in Builds : Installed(x)' = Installed(x)
    BY <1>6 DEF Fail, Installed
  <2>2. \A x \in Builds : build'[x].disposed = build[x].disposed
                          /\ (x # b => build'[x].task = build[x].task)
    BY <1>6 DEF Fail, IInv, TypeOK, BuildType
  <2>3. Task(b) = "failing" /\ Task(b)' = "failed"
    BY <1>6 DEF Fail, IInv, TypeOK, BuildType, Task
  <2>4. Stays(b)
    BY <2>3, PhaseIs, PhaseIsNext DEF PhaseFacts
  <2>5. \A x \in Builds : Stays(x)
    BY <1>1, <2>1, <2>2, <2>4
  <2> QED
    BY <2>1, <2>5 DEF phases
<1>7. ASSUME NEW b \in Builds, Task(b) = "built", build[b].disposed = 0, ~Installed(b),
             build' = Disposed(b), slot' = slot
      PROVE  [Promise!Next]_<<slot, phases>>
  <2>1. \A x \in Builds : Installed(x)' = Installed(x)
    BY <1>7 DEF Installed
  <2>2. \A x \in Builds : /\ x # b => build'[x] = build[x]
                          /\ build'[x].task = build[x].task
    BY <1>7 DEF Disposed, IInv, TypeOK, BuildType
  <2>3. \A x \in Builds : x # b => Stays(x)
    BY <1>1, <2>1, <2>2
  <2>4. CASE build[b].owned
    <3>1. build'[b].disposed = 1
      BY <1>7, <2>4 DEF Disposed, IInv, TypeOK, BuildType
    <3>2. Phase(b) = "retired"
      BY <1>7, PhaseIs DEF PhaseFacts
    <3>3. Phase(b)' = "disposed"
      BY <1>7, <2>2, <3>1, PhaseIsNext DEF PhaseFacts, Task
    <3>4. phases' = [phases EXCEPT ![b] = "disposed"] /\ phases[b] = "retired"
      BY <2>3, <3>2, <3>3 DEF phases
    <3>5. Promise!Dispose(b)
      BY <1>7, <3>4 DEF Promise!Dispose, phases
    <3> QED
      BY <3>5 DEF Promise!Next
  <2>5. CASE ~build[b].owned
    <3>1. build'[b].disposed = build[b].disposed
      BY <2>5, <1>7 DEF Disposed, IInv, TypeOK, BuildType
    <3>2. \A x \in Builds : Stays(x)
      BY <1>1, <2>1, <2>2, <2>3, <3>1
    <3> QED
      BY <1>7, <3>2 DEF phases
  <2> QED
    BY <2>4, <2>5
<1>8. ASSUME NEW b \in Builds, DisposeWhenBuilt(b)
      PROVE  [Promise!Next]_<<slot, phases>>
  <2>1. Task(b) = "built" /\ build[b].disposed = 0 /\ ~Installed(b)
    BY <1>8 DEF DisposeWhenBuilt, IInv, Apart, DisposedIsNowhere, Underway
  <2> QED
    BY <1>7, <1>8, <2>1 DEF DisposeWhenBuilt
<1>9. ASSUME NEW s \in Sweepers, NEW b \in Builds, HandOff(s, b)
      PROVE  [Promise!Next]_<<slot, phases>>
  <2>1. build[b].disposed = 0 /\ ~Installed(b)
    BY <1>9 DEF HandOff, Handing, IInv, Apart, DisposedIsNowhere, Underway
  <2>2. CASE Task(b) = "built"
    BY <1>7, <1>9, <2>1, <2>2 DEF HandOff
  <2>3. CASE Task(b) # "built"
    BY <1>2, <1>9, <2>3 DEF HandOff
  <2> QED
    BY <2>2, <2>3
<1>10. ASSUME NEW s \in Sweepers, NEW k \in Keys, SweepRemove(s, k), slot[k] # NoBuild
       PROVE  Promise!Next
  <2> DEFINE b == slot[k]
  <2>1. b \in Builds /\ Task(b) \in {"building", "built"} /\ Installed(b)
        /\ \A j \in Keys : slot[j] = b => j = k
    BY <1>10 DEF IInv, TypeOK, NeverPoisoned, Installed
  <2>2. build[b].disposed = 0
    BY <2>1 DEF IInv, DisposedIsNowhere
  <2>3. build' = build /\ slot' = [slot EXCEPT ![k] = NoBuild]
    BY <1>10 DEF SweepRemove
  <2>4. \A x \in Builds : Installed(x)' = (Installed(x) /\ x # b)
    BY <2>1, <2>3, ClientCacheAssumption DEF Installed, IInv, TypeOK
  <2>5. \A x \in Builds : x # b => Stays(x)
    BY <1>1, <2>3, <2>4 DEF Installed
  <2>6. Phase(b) = "live"
    BY <2>1, <2>2, PhaseIs DEF PhaseFacts
  <2>7. \A x \in Builds : x = b => Phase(x)' = "retired"
    <3> SUFFICES ASSUME NEW x \in Builds, x = slot[k] PROVE Phase(x)' = "retired"
      OBVIOUS
    <3>1. build'[x].task \in {"building", "built"} /\ ~(build'[x].disposed > 0)
      BY <2>1, <2>2, <2>3 DEF Task
    <3>2. ~Installed(x)'
      BY <2>4
    <3> QED
      BY <3>1, <3>2, PhaseIsNext DEF PhaseFacts, Task
  <2>8. phases' = [phases EXCEPT ![b] = "retired"]
    BY <2>1, <2>5, <2>7 DEF phases
  <2>9. Promise!Retire(k)
    BY <1>10, <2>3, <2>8 DEF Promise!Retire, phases
  <2> QED
    BY <2>9 DEF Promise!Next
<1>11. ASSUME NEW s \in Sweepers, NEW k \in Keys, SweepRemove(s, k), slot[k] = NoBuild
       PROVE  [Promise!Next]_<<slot, phases>>
  <2>1. slot' = slot /\ build' = build
    BY <1>11 DEF SweepRemove, IInv, TypeOK
  <2> QED
    BY <1>2, <2>1
<1>12. ASSUME NEW c \in Callers, Call(c)
       PROVE  [Promise!Next]_<<slot, phases>>
  BY <1>2, <1>3, <1>12 DEF Call, Request, Claim, Answered, GiveUp
<1>13. ASSUME NEW b \in Builds, Building(b)
       PROVE  [Promise!Next]_<<slot, phases>>
  BY <1>4, <1>5, <1>6, <1>8, <1>13 DEF Building
<1>14. ASSUME NEW s \in Sweepers, SweeperStep(s)
       PROVE  [Promise!Next]_<<slot, phases>>
  <2>1. CASE SweepCheck(s) \/ SweepKeys(s) \/ SweepDone(s) \/ SweepStart(s)
             \/ SaveProfile(s) \/ SweepInterrupted(s)
    BY <1>2, <2>1 DEF SweepCheck, SweepKeys, SweepDone, SweepStart, SaveProfile, SweepInterrupted
  <2>2. ASSUME NEW k \in Keys, SweepRemove(s, k)
        PROVE  [Promise!Next]_<<slot, phases>>
    BY <1>10, <1>11, <2>2
  <2>3. ASSUME NEW b \in Builds, HandOff(s, b)
        PROVE  [Promise!Next]_<<slot, phases>>
    BY <1>9, <2>3
  <2> QED
    BY <1>14, <2>1, <2>2, <2>3 DEF SweeperStep, Sweeping
<1>15. CASE UNCHANGED vars
  BY <1>2, <1>15 DEF vars
<1> QED
  BY <1>12, <1>13, <1>14, <1>15 DEF Next, SweeperStep

LEMMA InitKeepsPromise == Init => Promise!Init
<1> SUFFICES ASSUME Init PROVE Promise!Init
  OBVIOUS
<1>1. \A b \in Builds : Phase(b) = "new"
  BY PhaseIs DEF PhaseFacts, Init, NewBuild, Task
<1> QED
  BY <1>1 DEF Init, Promise!Init

\* Looking up, building, failing, evicting, invalidating and closing together
\* do what SharedClients promises: one client per key at a time, retired
\* before it is disposed, and a failure that touches no other client.
THEOREM KeepsThePromise == Spec => ImplementsPromise
<1>1. Init => Promise!Init
  BY InitKeepsPromise
<1>2. IInv /\ [Next]_vars => [Promise!Next]_<<slot, phases>>
  BY StepKeepsPromise
<1>3. <<slot, phases>> = <<slot, [b \in Builds |-> Phase(b)]>>
  BY DEF phases
<1> QED
  BY <1>1, <1>2, Invariance, PTL DEF Spec, ImplementsPromise, Promise!Spec, phases
=============================================================================
