---------------------------- MODULE ClientCache ----------------------------
(***************************************************************************)
(* SingleFlightCache, ClientCache on top of it, and the connection pools   *)
(* and the profile save that use them: callers that look a client up and   *)
(* build it once, and sweeps that evict, invalidate or close the cache     *)
(* while builds are in flight.                                             *)
(*                                                                         *)
(* A slot of the dictionary is a TaskCompletionSource; it is identified    *)
(* here with the build it stands for and the client that build makes.      *)
(***************************************************************************)
EXTENDS Naturals

CONSTANTS
    Keys,     \* ids of accounts, namespaces, caches or connections
    Builds,   \* bound on the builds: one per factory call
    NoBuild,
    Callers,  \* requests
    Sweepers, \* profile saves, evictions, shutdown
    MaxSaves  \* bound on profile saves

ASSUME ClientCacheAssumption ==
    /\ Keys # {} /\ NoBuild \notin Builds
    /\ MaxSaves \in Nat

VARIABLES
    slot,      \* the dictionary: the build installed for each key
    build,     \* every build: its task, client, owner and profile version
    hooked,    \* builds with a disposal to run on completion (WhenBuilt)
    caller,    \* the requests
    sweep,     \* the sweeps
    closed,    \* _closed
    profile,   \* version of the saved profile
    abandoned  \* history: removed builds an interrupted sweep never reached

vars == <<slot, build, hooked, caller, sweep, closed, profile, abandoned>>

-----------------------------------------------------------------------------
(* Helpers.                                                                *)

Kinds == {"evict", "invalidate", "invalidateAsync", "dispose"}
Tasks == {"unused", "building", "failing", "built", "failed"}
NewBuild == [task |-> "unused", key |-> CHOOSE k \in Keys : TRUE,
             owned |-> FALSE, disposed |-> 0, profile |-> 0]
IdleCaller == [pc |-> "idle", key |-> CHOOSE k \in Keys : TRUE,
               build |-> NoBuild, profile |-> 0]
IdleSweep == [pc |-> "idle", kind |-> "evict", keys |-> {}, builds |-> {}]

Task(b) == build[b].task
Installed(b) == \E k \in Keys : slot[k] = b
Unused == {b \in Builds : Task(b) = "unused"}
Cached == {k \in Keys : slot[k] # NoBuild}

Init ==
    /\ slot = [k \in Keys |-> NoBuild]
    /\ build = [b \in Builds |-> NewBuild]
    /\ hooked = {}
    /\ caller = [c \in Callers |-> IdleCaller]
    /\ sweep = [s \in Sweepers |-> IdleSweep]
    /\ closed = FALSE
    /\ profile = 0
    /\ abandoned = {}

-----------------------------------------------------------------------------
(* Callers: GetOrAdd, GetOrAddAsync.                                       *)

\* A request resolves its configuration from the profile and finds the cache
\* open; a closed one answers null.
Request(c) ==
    /\ caller[c].pc = "idle" /\ ~closed
    /\ \E k \in Keys :
        caller' = [caller EXCEPT ![c] = [pc |-> "claim", key |-> k,
                                         build |-> NoBuild, profile |-> profile]]
    /\ UNCHANGED <<slot, build, hooked, sweep, closed, profile, abandoned>>

\* ConcurrentDictionary.GetOrAdd: join the installed build or install one.
Claim(c) ==
    /\ caller[c].pc = "claim"
    /\ LET k == caller[c].key IN
        \/ /\ slot[k] # NoBuild
           /\ caller' = [caller EXCEPT ![c].pc = "wait", ![c].build = slot[k]]
           /\ UNCHANGED <<slot, build>>
        \/ /\ slot[k] = NoBuild
           /\ \E b \in Unused :
                /\ slot' = [slot EXCEPT ![k] = b]
                /\ build' = [build EXCEPT ![b].task = "building", ![b].key = k,
                                          ![b].profile = caller[c].profile]
                /\ caller' = [caller EXCEPT ![c].pc = "wait", ![c].build = b]
    /\ UNCHANGED <<hooked, sweep, closed, profile, abandoned>>

\* The wait ends with the client or the exception of the build.
Answered(c) ==
    /\ caller[c].pc = "wait" /\ Task(caller[c].build) \in {"built", "failed"}
    /\ caller' = [caller EXCEPT ![c] = IdleCaller]
    /\ UNCHANGED <<slot, build, hooked, sweep, closed, profile, abandoned>>

\* The caller's token only bounds its own wait.
GiveUp(c) ==
    /\ caller[c].pc = "wait"
    /\ caller' = [caller EXCEPT ![c] = IdleCaller]
    /\ UNCHANGED <<slot, build, hooked, sweep, closed, profile, abandoned>>

-----------------------------------------------------------------------------
(* Builds.                                                                 *)

\* The factory returns a client, its own or a borrowed one: SetResult.
FactoryReturns(b) ==
    /\ Task(b) = "building"
    /\ \E owned \in BOOLEAN :
        build' = [build EXCEPT ![b].task = "built", ![b].owned = owned]
    /\ UNCHANGED <<slot, hooked, caller, sweep, closed, profile, abandoned>>

\* Mutant: the key is removed whatever is installed for it by now.
FactoryThrowsByKey(b) ==
    /\ Task(b) = "building"
    /\ slot' = [slot EXCEPT ![build[b].key] = NoBuild]
    /\ build' = [build EXCEPT ![b].task = "failing"]
    /\ UNCHANGED <<hooked, caller, sweep, closed, profile, abandoned>>

\* The slot goes first, if it is still the installed one.
FactoryThrows(b) ==
    /\ Task(b) = "building"
    /\ slot' = [k \in Keys |-> IF slot[k] = b THEN NoBuild ELSE slot[k]]
    /\ build' = [build EXCEPT ![b].task = "failing"]
    /\ UNCHANGED <<hooked, caller, sweep, closed, profile, abandoned>>

\* Mutant: BuildAsync drops the slot and forgets its waiters.
FailForgotten(b) == Task(b) = "failing" /\ UNCHANGED vars

\* Then the waiters see the exception.
Fail(b) ==
    /\ Task(b) = "failing"
    /\ build' = [build EXCEPT ![b].task = "failed"]
    /\ UNCHANGED <<slot, hooked, caller, sweep, closed, profile, abandoned>>

Disposed(b) == [build EXCEPT ![b].disposed = IF build[b].owned THEN @ + 1 ELSE @]

\* The continuation a sweep hung on a build that was still running.
DisposeWhenBuilt(b) ==
    /\ b \in hooked /\ Task(b) = "built"
    /\ build' = Disposed(b)
    /\ hooked' = hooked \ {b}
    /\ UNCHANGED <<slot, caller, sweep, closed, profile, abandoned>>

-----------------------------------------------------------------------------
(* Sweeps: Evict, InvalidateAllSync, InvalidateAllAsync, DisposeAsync.     *)

\* if (_closed) return; Evict then has its key, the others copy the key list.
SweepStart(s) ==
    /\ sweep[s].pc = "idle" /\ ~closed
    /\ \/ \E kind \in {"invalidateAsync", "dispose"} :
            sweep' = [sweep EXCEPT ![s] = [IdleSweep EXCEPT !.pc = "keys", !.kind = kind]]
       \/ \E k \in Keys :
            sweep' = [sweep EXCEPT ![s] = [IdleSweep EXCEPT !.pc = "remove", !.keys = {k}]]
    /\ UNCHANGED <<slot, build, hooked, caller, closed, profile, abandoned>>

\* A saved profile is followed by InvalidateAllSync.
SaveProfile(s) ==
    /\ sweep[s].pc = "idle" /\ profile < MaxSaves
    /\ profile' = profile + 1
    /\ sweep' = [sweep EXCEPT ![s] = [IdleSweep EXCEPT !.pc = "check", !.kind = "invalidate"]]
    /\ UNCHANGED <<slot, build, hooked, caller, closed, abandoned>>

SweepCheck(s) ==
    /\ sweep[s].pc = "check"
    /\ sweep' = [sweep EXCEPT ![s] = IF closed THEN IdleSweep ELSE [@ EXCEPT !.pc = "keys"]]
    /\ UNCHANGED <<slot, build, hooked, caller, closed, profile, abandoned>>

\* RemoveAll copies the keys; DisposeAsync has closed the cache by then.
SweepKeys(s) ==
    /\ sweep[s].pc = "keys"
    /\ sweep' = [sweep EXCEPT ![s].pc = "remove", ![s].keys = Cached]
    /\ closed' = (closed \/ sweep[s].kind = "dispose")
    /\ UNCHANGED <<slot, build, hooked, caller, profile, abandoned>>

\* Mutant: the build is looked up, and the key removed when all is done.
SweepLookUp(s, k) ==
    /\ sweep[s].pc = "remove" /\ k \in sweep[s].keys
    /\ sweep' = [sweep EXCEPT ![s].keys = @ \ {k}, ![s].builds = @ \cup ({slot[k]} \ {NoBuild})]
    /\ UNCHANGED <<slot, build, hooked, caller, closed, profile, abandoned>>

\* TryRemove hands the build to one remover; a key that is gone is skipped.
SweepRemove(s, k) ==
    /\ sweep[s].pc = "remove" /\ k \in sweep[s].keys
    /\ sweep' = [sweep EXCEPT ![s].keys = @ \ {k}, ![s].builds = @ \cup ({slot[k]} \ {NoBuild})]
    /\ slot' = [slot EXCEPT ![k] = NoBuild]
    /\ UNCHANGED <<build, hooked, caller, closed, profile, abandoned>>

Handing(s, b) == sweep[s].pc = "remove" /\ sweep[s].keys = {} /\ b \in sweep[s].builds

\* Mutant: a build in flight has nothing to dispose yet and is let go.
HandOffBuiltOnly(s, b) ==
    /\ Handing(s, b)
    /\ IF Task(b) = "built" THEN build' = Disposed(b) ELSE UNCHANGED build
    /\ sweep' = [sweep EXCEPT ![s].builds = @ \ {b}]
    /\ UNCHANGED <<slot, hooked, caller, closed, profile, abandoned>>

\* WhenBuilt, DisposeRemovedAsync: dispose now, or when the build completes.
HandOff(s, b) ==
    /\ Handing(s, b)
    /\ IF Task(b) = "built"
       THEN build' = Disposed(b) /\ UNCHANGED hooked
       ELSE hooked' = hooked \cup {b} /\ UNCHANGED build
    /\ sweep' = [sweep EXCEPT ![s].builds = @ \ {b}]
    /\ UNCHANGED <<slot, caller, closed, profile, abandoned>>

\* InvalidateAllAsync: the token, or a disposal that throws, ends the loop.
SweepInterrupted(s) ==
    /\ \E b \in Builds : Handing(s, b)
    /\ sweep[s].kind = "invalidateAsync"
    /\ abandoned' = abandoned \cup sweep[s].builds
    /\ sweep' = [sweep EXCEPT ![s] = IdleSweep]
    /\ UNCHANGED <<slot, build, hooked, caller, closed, profile>>

SweepDone(s) ==
    /\ sweep[s].pc = "remove" /\ sweep[s].keys = {} /\ sweep[s].builds = {}
    /\ sweep' = [sweep EXCEPT ![s] = IdleSweep]
    /\ UNCHANGED <<slot, build, hooked, caller, closed, profile, abandoned>>

Call(c) == Request(c) \/ Claim(c) \/ Answered(c) \/ GiveUp(c)
Building(b) == FactoryReturns(b) \/ FactoryThrows(b) \/ Fail(b) \/ DisposeWhenBuilt(b)
Sweeping(s) ==
    \/ SweepCheck(s) \/ SweepKeys(s) \/ SweepDone(s)
    \/ \E k \in Keys : SweepRemove(s, k)
    \/ \E b \in Builds : HandOff(s, b)

Next ==
    \/ \E c \in Callers : Call(c)
    \/ \E b \in Builds : Building(b)
    \/ \E s \in Sweepers :
        Sweeping(s) \/ SweepStart(s) \/ SaveProfile(s) \/ SweepInterrupted(s)

Spec == Init /\ [][Next]_vars

\* Factories return or throw and completed tasks wake their waiters; a sweep
\* may stall for ever.
FairSpec ==
    /\ Spec
    /\ \A c \in Callers : WF_vars(Answered(c))
    /\ \A b \in Builds : WF_vars(Building(b))

-----------------------------------------------------------------------------
(* Properties.                                                             *)

BuildType == [task : Tasks, key : Keys, owned : BOOLEAN, disposed : Nat, profile : Nat]
CallerType == [pc : {"idle", "claim", "wait"}, key : Keys,
               build : Builds \cup {NoBuild}, profile : Nat]
SweepType == [pc : {"idle", "check", "keys", "remove"}, kind : Kinds,
              keys : SUBSET Keys, builds : SUBSET Builds]

\* Every variable keeps its type.
TypeOK ==
    /\ slot \in [Keys -> Builds \cup {NoBuild}]
    /\ build \in [Builds -> BuildType]
    /\ hooked \subseteq Builds
    /\ caller \in [Callers -> CallerType]
    /\ sweep \in [Sweepers -> SweepType]
    /\ closed \in BOOLEAN
    /\ profile \in Nat
    /\ abandoned \subseteq Builds

\* "One transient failure never poisons the key": a failed build is not
\* installed any more when its waiters learn of it, so whoever tries again
\* builds afresh; an installed build belongs to its key alone.
NeverPoisoned ==
    \A k \in Keys : slot[k] # NoBuild =>
        Task(slot[k]) \in {"building", "built"} /\ build[slot[k]].key = k

\* However evictions, invalidations, a close and a finishing build interleave,
\* a client is disposed at most once, and a borrowed one never.
DisposedOnce ==
    \A b \in Builds : build[b].disposed <= IF build[b].owned THEN 1 ELSE 0

\* A lookup never returns a client that somebody has disposed.
CachedIsLive == \A b \in Builds : Installed(b) => build[b].disposed = 0

\* What a lookup finds can be used: it did not fail, it belongs to the key and
\* nobody has disposed it, in every order of failures, sweeps and rebuilds.
CachedIsUsable == NeverPoisoned /\ CachedIsLive

Underway(b) == b \in hooked \/ \E s \in Sweepers : b \in sweep[s].builds

\* A client the cache owns is in the cache, on its way to be disposed, or
\* disposed, unless an async invalidation was interrupted: none is leaked, be
\* it evicted in the middle of its build.
NothingLeaks ==
    \A b \in Builds : Task(b) = "built" /\ build[b].owned =>
        Installed(b) \/ Underway(b) \/ build[b].disposed > 0 \/ b \in abandoned

\* Whoever removes a client, its disposal takes place, and once.
DisposalIsExact == DisposedOnce /\ NothingLeaks

\* Every request that waits is answered, whoever removes its build meanwhile.
EveryWaitEnds == \A c \in Callers : caller[c].pc = "wait" ~> caller[c].pc # "wait"

PhaseOf(task, disposed, installed) ==
    CASE task = "unused" -> "new"
      [] task \in {"failing", "failed"} -> "gone"
      [] task \in {"building", "built"} /\ disposed -> "disposed"
      [] task \in {"building", "built"} /\ ~disposed /\ installed -> "live"
      [] task \in {"building", "built"} /\ ~disposed /\ ~installed -> "retired"

Phase(b) == PhaseOf(Task(b), build[b].disposed > 0, Installed(b))

Promise == INSTANCE SharedClients WITH
    Clients <- Builds, NoClient <- NoBuild,
    current <- slot, phase <- [b \in Builds |-> Phase(b)]

\* The cache keeps the promise of SharedClients.
ImplementsPromise == Promise!Spec

\* "The very next request picks up the new config instead of reusing a client
\* built from stale credentials": with no sweep left, what is cached was built
\* from the saved profile.
CachedIsCurrent ==
    (\A s \in Sweepers : sweep[s].pc = "idle") =>
        \A k \in Cached : build[slot[k]].profile = profile
=============================================================================
