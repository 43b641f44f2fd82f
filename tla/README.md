# SwebKit in TLA+

SwebKit is a desktop tool for debugging cloud workloads: a Tauri shell (Rust,
`src/src-tauri`), a React front end (`src/web`) and a .NET sidecar
(`src/src-sidecar`) over libraries for Service Bus, Kubernetes, Redis, SQL,
storage and observability (`src/src/SwebKit.*`). The logic worth a
specification is where the tool changes something that others change too: the
Service Bus power operations, the files the sidecar keeps its own state in, the
caches in front of remote clients, the agent's confirm-before-act store, the
monitoring and agent loops, and the API client's saves and runs.

## 1. Inventory

| Component | Source | State it keeps | Operations | What is hard | What makes it correct |
|---|---|---|---|---|---|
| Reach-message operation | `ReachParkProcessor.cs`, `AzureServiceBusClient.cs` 679-861, `SbOperationService.cs` 433-503 | operation record; messages, peek-locks and stamps at the broker | park, act on target, restore; cancel, resume, dismiss | peek-locks expire, runs are cancelled or die between two settles, other receivers, foreign dead letters | nothing lost; only what was asked is settled; cap; order; an ended run is reported for what it is |
| Replay operation | `AzureServiceBusClient.cs` 1122-1203, `SbOperationService.cs` 505-622 | requested and processed sequences; source and target entity | replay, resume, journal flush | send and confirm are two steps; journal lags the processed set | a moved message is on the target; resume skips what is confirmed; missing means gone |
| Operation service and journal | `SbOperationService.cs`, `SbOperationJournalRepository.cs` | operations, gate, persist gate, tokens, journal on disk | start, cancel, resume, dismiss, persist, restart | ungated cancel, status computed before the persist gate, throttled writes, lost writes | one runner per operation and entity; a crash is detectable; a terminal state survives a restart |
| App-data files | `AppDataFileStore.cs` and the repositories over it | primary, `.bak`, `.tmp` files | save with retries, load with fallback | crash between the steps of a save, readers and writers interleaving | a load never returns older than the last completed save, never a torn file |
| Client caches | `SingleFlightCache.cs`, `ClientCache.cs`, the sidecar pools | entries per key, in-flight creations | get or create, invalidate, dispose | concurrent creators, invalidation during creation, failures cached | one live creation per key, each client disposed at most once and never while handed out |
| Agent actions | `IAgentActionCoordinator.cs`, `AgentActionApplier.cs`, `AgentEndpoints.cs` | pending and resolved proposals | propose, confirm, reject, expire, evict | two confirms, confirm against expiry, eviction at capacity | an action runs only when confirmed, once, with the arguments that were shown |
| Agent chat and tool loop | `SidecarAgentChatService.cs`, `AgentToolCallOrchestrator.cs`, `AgentSessionStore.cs`, `AgentExchangeBuffer.cs`, `AgentContextBudgetPlanner.cs` | sessions, histories, budgets | send, call tools, trim | cancel in the middle of a tool round, budget boundaries | every tool call has its result; history stays well-formed |
| ACP agent host | `Acp/AcpJsonRpcPeer.cs`, `AcpAgentHost.cs`, `AcpPermissionStore.cs` | child process, pending requests, permissions | request, respond, restart | responses racing process exit | each request completes once; no answer goes to another run |
| Monitoring | `MonitoringAlertEvaluationService.cs`, `ProactiveInsightService.cs`, `ProactiveInvestigationRunner.cs` | alert states, silences, reports, running investigations | evaluate, fire, resolve, investigate | overlapping evaluations, stale data, limits on concurrent runs | one alert per episode; cooldown and concurrency limits hold |
| OAuth PKCE flow | `OAuth2PkceFlowService.cs` | pending flows by state | start, callback, poll, expire | callback racing timeout | one token per flow, states are not reused |
| Linked collections and git | `LinkedCollectionFileService.cs`, `LinkedGitService.cs`, `git.rs` | files of a collection tree | load, save, detect conflict, pull | external edits between read and write | an external edit is not overwritten unseen |
| Event bus and fan-out | `AppEventBus.cs`, `OrderedFanOut.cs` | subscribers, pending results | publish, subscribe, dispose | publish during unsubscribe, order of results | results in order; no delivery after dispose |
| Sidecar supervision | `src-tauri/src/sidecar.rs` | child and port, boot gate, flag of the shutdown | boot, spawn, watch, recover, restart command, kill on exit | spawns that overlap with each other and with the exit, watchers of a slot that changes | no sidecar outlives the app, the port told is the child's, a crash is noticed |
| Comparers, parsers, substitution | `PodHealthDiffer.cs`, `SqlDataComparer.cs`, `SqlSchemaComparer.cs`, `SqlStatementGuard.cs`, `VariableSubstitutionService.cs`, `cron.ts`, `log-window.ts`, `notification-dedupe.ts` | none or a window | pure functions | boundaries | equal to a reference definition |
| Cloud and cluster clients | `SwebKit.Kubernetes`, `SwebKit.Redis`, `SwebKit.Sql`, `SwebKit.Observability`, `AzureStorageClient.cs` | connections | queries and single commands | remote I/O | mostly pass-through |
| API client workspace | `ApiClientPageContext.tsx`, `useApiClient.ts`, `useApiRun.ts`, `ConfigEndpoints.cs`, `ApiClientEndpoints.cs`, `CollectionRepository.cs`, `PostRequestCaptureExecutor.cs` | tabs and drafts, query cache, store in memory, `collections.json`, sends and runs | open, edit, close, save, refetch, send, run, abort, capture | every save writes the whole store; sends re-read and write it too; tabs change under saves and sends | a save changes its own item only; no unsaved text looks saved; no tab is left sending; one run shown |
| Rest of the front end | `src/web/src` | query caches, stores | screens | rendering | mostly presentation |

"Hard" behaviours, line by line, are in the `hazards` of `PROJECT.json`. The
components interact as follows. Endpoints call the operation service; the service
starts one background task per operation, which calls the Azure client and is
told of progress by callbacks; the service writes its journal through
`AppDataFileStore`; the Azure client comes out of a `ClientCache`, which profile
saves sweep while operations hold the client. Agent actions are confirmed through
endpoints of their own and applied by executors over the same clients. The API client's
page keeps the collections in a query cache, sends them back whole, and streams runs from
the sidecar; the sidecar's collections repository writes them through `AppDataFileStore`.

## 2. Plan

Order of work, the most important behaviour first. Done:

1. `SbReach`: one reach-message operation, message by message.
2. `SbReplay`: one cross-environment replay, message by message.
3. `SbOperations`: many operations, their runners, API calls, callbacks, journal
   writes and restarts. A run is reduced to its observable steps here; the details
   of a run are those of 1 and 2.
4. `ClientCache`, with `SharedClients` as the abstract specification it implements.
5. `AppDataFileStore`: the file store under a gated repository.
6. `AgentActions`: the bounded store of proposals, and the requests that confirm,
   apply and reject them.
7. `AlertEvaluation`: the alert engine's passes against edits of its rules.
8. `ProactiveInsights`: the insight service, composed with 7 over the engine's events.
9. `SidecarSupervision`: the shell's boot, watch, recovery, restart and kill of the
   sidecar process.
10. `ApiWorkspace`: the API client's tabs, saves, sends and runs over the collections
   store.

Not done, in the order in which they would be worth it:

11. `SequenceProcessor` (`MessageSequenceProcessor`): the receive, match and release
   loop of resubmit, complete and resend, which shares hazards with the replay loop.
12. `InMemoryRepositories`: profiles and environments, which keep a document in memory
    and save snapshots without a gate; composed with the replacement steps of
    `AppDataFileStore`.
13. `AcpPeer` (JSON-RPC requests against process exit), `PkceFlow`: two small protocols
    with timeouts.
14. `ChatLoop`, `EventFanOut`, `DailyFiles`, `LinkedFiles`, and the pure algorithms
    as operators against reference definitions.

What is only model-checked is listed at the end of section 6.

## 3. Modules and the code they stand for

`PROJECT.json` ("map") gives the lines behind each definition. The correspondence in
outline:

### SbReach, MCSbReach, SbReachProofs

One operation against one entity holding sequence numbers `1..N`, and `F` dead
letters of other origin.

| TLA+ | Code |
|---|---|
| `op` | the request: target sequence, action, restore order (`before`), `maxParked` |
| `state`, `restored`, `cancelled` | `SbOperation.State`, `RestoredCount`, its token source |
| `place`, `lock` | where the broker has each message and who holds its peek-lock |
| `tail` | copies sent to the entity by restore and by the resubmit of the target |
| `pc`, `run` | the position and locals of `RunReachAsync` and `RunRestoreAsync`, and of the client calls they await |
| `run.blind` | history: stamped messages whose lock was held when the last run began |

Receiving, parking, acting on the target, releasing the rest of a batch
(`ReachParkProcessor`), collecting, sending and completing (`RestoreParkedCopiesAsync`)
are actions; a cancel is an intention (`cancelled`) that the runner observes at its
next check or inside an awaited call. A crash keeps the broker's state, makes every
held lock an orphan, and leaves the operation `Interrupted`. `OthersLock` and
`OthersSettle` are another receiver. `LockExpires` frees orphaned locks.

### SbReplay, MCSbReplay, SbReplayProofs

| TLA+ | Code |
|---|---|
| `op` | requested sequences, `removeSource` (move or copy), source queue or dead letters |
| `processed`, `missing` | `ProcessedSequences`, and what the last run reported as never found |
| `journal`, `unsaved`, `flush` | the entry on disk, the terminal `PersistAsync` that has not landed, and the throttled one (`PersistThrottled`) |
| `place`, `lock`, `deliveries` | broker state of the source, with the delivery limit |
| `copies` | clones of each message in the target namespace |
| `run` | `wanted`, the batch in hand and whether `FailedCount` is positive |

The loop is that of `ReplayMessagesAsync`: receive, abandon what nobody wants, send the
clone, settle the source, confirm. Send and settle are two actions, each of which can
throw with or without its effect (`SendFails`, `SettleFails`). A persist that computed
its status before a resume, and lands after it, is in `SbOperations` and not here.

### SbOperations, MCSbOperations, SbOperationsProofs

Several operations in one process. `op` is the service's dictionary, `runner` the
background tasks, `persists` the calls of `PersistAsync` (each with the status it
read and the call that waits for it), `cancelling` the `CancelAsync` calls between
their check and their `Cancel()`, `entries` and `disk` the journal in memory and on
disk, `dlq` the number of stamped messages an operation left at the broker. Calls
that the service runs under `_gate` (start, resume, dismiss) hold it until their write
has returned; cancel and the progress callbacks take no gate. `ReadStatus` is the
status computed before `_persistGate`, `PersistLands` the write under it, which may
fail and is then swallowed. `Crash` forgets the process; `EnsureInitialized` reads the
journal back, and may fail to. Progress callbacks (`Progress<T>`) run on the thread
pool in any order, later than the run they came from if they like (`Report`).

### ClientCache, SharedClients, MCClientCache, ClientCacheProofs

A slot of the dictionary is a `TaskCompletionSource`; it is identified with the build
it stands for. `caller` are requests between the check of `_closed`, `GetOrAdd` and the
answer; `sweep` are evictions, the two invalidations and the close, each of which takes
keys, removes them one by one and hands the removed builds off for disposal; `hooked`
are builds whose disposal `WhenBuilt` attached as a continuation. `profile` counts
profile saves; a build records the version its caller had read.

`SharedClients` is the abstract specification: each key has one current client; a
client goes from `new` to `live`, `retired` and `disposed`, or to `gone` when it
could not be built. The refinement maps `current <- slot` and the phase of a client to
its task, whether it was disposed and whether it is installed.

### AppDataFileStore, MCAppDataFileStore, AppDataFileStoreProofs

`AppDataFileStore` together with a repository that gates it (`AlertHistoryRepository`;
silences and insight reports have the same shape). A request reads the store or
appends to it: gate, load the primary, fall back to `.bak`, write a temp file, replace
the primary with up to `MaxAttempts` tries, copy the primary to a temp file and move it
over `.bak`, leave. Every file operation may fail where the code catches or propagates
an exception; the process may die anywhere; `Damage` makes a file unreadable from
outside. The histories `missed`, `lost` and `damaged` say which of these happened, so
that a property can name its exception exactly.

### AgentActions, MCAgentActions, AgentActionsProofs

`phase` is where a proposal is: not made, past the cap check of `ProposalParking`,
in the coordinator's map, or out of it. `action` is the `PendingAgentAction` object,
which requests may hold after it has left the map. `call` are requests: a lookup that
marks the proposal confirmed, the applier's checks (`Apply`), the awaited executor
(`Effect`, `EffectFails`, the latter with or without an effect), `Mark`, and rejections
in two steps. A coordinator method runs under its lock and is one step. Tools that
register without `ProposalParking` count as proposals of a chat. Applied entries stay in
the map until they expire or are evicted, as in the code, whose `CleanupExpired` has no
caller. `ExpectedFingerprint` is looked at in the executors only, which are external.

### AlertEvaluation, MCAlertEvaluation (proofs in ProactiveInsightsProofs)

`loop` and `eval` are the hosted loop and the tasks of its pass, `free` the permits of
`_concurrencyLimit`. An evaluation is a sample (`SampleOk`, `SampleBad` for errors, skips
and exceptions, `SampleFiring`, `SampleCancelled`), the suppression check, and the
announcement after the history row: a step ends where the code awaits. `due` and
`cooling` stand for the dictionaries of times: a rule is due or not at the next tick,
which `Elapse` decides. A request loads the rule list, saves it with one rule changed,
and reloads the engine, each a step of its own, since nothing locks the file.

### ProactiveInsights, MCProactiveInsights, ProactiveInsightsProofs

Extends `AlertEvaluation` and composes with it: `SampleOk` and `AnnounceFired` take place
together with the service's synchronous handlers of `EvaluationCompleted` and
`AlertFired`. `busy` is the one slot, `episodes` is `_openFiringEpisodes`, `task` the
tasks of firings that were not suppressed. Histories number the incidents of a rule (a
firing and what follows until the rule evaluates Ok), so that properties can say to
which incident a report belongs. The investigation runner is one step with a result or
none; it has no state that outlives it.

### SidecarSupervision, MCSidecarSupervision (proofs in DesktopProofs)

A process stands for its `Child`, its pid and its port. `child`, `port`, `settled` and
`exiting` are the fields of `SidecarState`; `thread` has the boot thread of `manage`,
the restart commands, and one thread per process: its watcher, which turns into the
recovery when the process crashes (`attempt` numbers its tries). A spawn is a start, a
wait for the line with the port that can time out, and then `start_supervision` and
`store_spawned`, in this order for the boot and for commands and in the other for a
recovery. What the code does under the lock of the child is one step. The first poll of
a watcher comes 500 ms after its start, and the code relies on the store having
happened by then; `Poll` has that as its guard. Pids are not reused. `replaced` is a
history: children that were alive when another took their slot.

### ApiWorkspace, MCApiWorkspace (proofs in DesktopProofs)

One internal collection: a version of each request and one of the collection's variables.
Every edit has a number of its own, so that a number says whose text it is.

| TLA+ | Code |
|---|---|
| `memory`, `file`, `stamp` | `CollectionRepository._store`, `collections.json`, `GetConcurrencyToken`; version 0 is what a list lacks, token 0 (`NoToken`) that of a file that is absent or whose stamp cannot be read |
| `writes` | the stamps given so far; a write gives the next one, an absent file has none |
| `cache`, `fetch` | the `["collections"]` query and its GET, which reads list and token at two times |
| `queue`, `flight` | saves that wait for the mutation scope of `useUpdateCollections`, and the one in flight: sent, accepted and being written, written, answered |
| `node`, `draft`, `dirty`, `preview`, `sending`, `active` | `tabs`, `tabStates`, `activeTabId` |
| `phase`, `origin`, `isRun`, `base` | a send or run from the click to its end, the tab that started it, and the collection as `ResolveCollectionAsync` loaded it for the captures to write back |
| `stream`, `current`, `shown` | a run's stream as the page sees it, `abortRef`, the drawer's state |
| `known`, `outrun`, `mixed`, `raced`, `blind` | histories, with which the properties name their exceptions |

A step ends where the code awaits. A save's list is derived when its turn comes, not when it
is asked for; its draft is the one of that moment. The profile starts with a collections
file or without one. A save is accepted when its token is the file's, or without a
comparison when the page has none or the file has none (`Stale`, `Uncompared`); it then
replaces the store in memory and is serialized at once, and the file follows. A draft whose
request the list does not have is placed nowhere (`Placed`). A send saves first; a run whose
tab was closed, or that has no plan or no secret (`prepared`), ends there. Then the sidecar
reads the file into memory, or an empty store if the file cannot be read (`LoadFails`), and
a capture that matches replaces the collection by what was read, with the captured variable.
An import (team packs) adds to the store in memory without any token; both reach the file a
step later (`WriteBack`), or fail to. A run is a send whose answer is a stream; the page may
leave it while the sidecar goes on (`RunAbandoned`). `EditOutside` and `RemoveOutside` are
other programs. An update of `CollectionVariables` stands for every change of the tree that
is not a tab's draft.

## 4. Runs

Every run is exhaustive. `pass` runs check everything listed; each `violation` run
checks one sentence of the repository that the code does not keep. The type invariants
are no properties of a run: each is a theorem.

| Run | What it shows |
|---|---|
| `reach_safety` | With three messages, batches of two, caps 1 and 2, every target, action and restore order, and two faults anywhere: no message is lost (`NothingLost`), only what was asked is settled or copied, and the cap counts across batches (`WithinRequest`), copies go out in order (`RestoreOrdered`), duplicates need interruptions, the count of restored messages is true and a completed restore has drained what it could see (`ResultIsHonest`), and every run, whatever its action and with a foreign dead letter on the queue, ends or keeps meeting a dead letter without the stamp (`RunEnds`) |
| `reach_stranded` (violation) | A resume right after an interruption finds the stamped messages still locked and reports Completed over them |
| `replay_safety` | Two messages, any request, move or copy, active queue or dead letters, two faults: a moved message is on the target, confirmations are true in memory and on disk (`DoneIsOnTarget`), a completed replay accounts for the request, a confirmed sequence is never sent again, and a replay from an active queue ends |
| `ops_deep` | One operation through two runs, with a crash and a failed journal access, late and reordered callbacks, cancels that hit the next run: one runner per operation (`OneRunner`), stranded messages are offered for resume (`StrandedIsOffered`), an end is final while the process lives, every run ends |
| `cache_safety` | One key, two builds, a caller, two sweeps of any kind and a profile save: what a lookup finds can be used (`CachedIsUsable`), disposal takes place and takes place once (`DisposalIsExact`), every waiter answered, and the cache implements `SharedClients` |
| `files_safety` | Two requests, two entries, every failure, crash and damage: saves are atomic, acknowledged entries stay and the backup follows (`AckedIsKept`), every request returns |
| `agents_safety` | Three proposals of a chat and an investigation in a store of two, and two requests: deduplication and cap hold up to the overlap of tool calls, an effect repeats only for a stated reason (`RepeatExplained`), a rejection before the execution is final, and chat traffic evicts no investigation's proposal |
| `alerts_engine` | Two rules, one permit, two requests: the stream and the open incidents agree (`FiringIsShown`), the engine works with the saved rules unless requests overlapped (`RulesFollowFile`), every pass ends |
| `alerts_ends` (violation) | One evaluation that ends in a cancellation of its source ends the hosted loop |
| `insights_safety` | Engine and service together, one rule, a recovery, two tasks, one request, an unreadable rule file, and failures at every step: one report per incident and honest skips, with late tasks as the stated exception, and the slot is always given back |
| `sidecar_safety` | Boot, watchers, recoveries, a restart command and the exit over three processes that can fail, time out or crash at any step: a sidecar that outlives the exit is about to be killed by a thread that runs, or is one of two kinds of orphan, one replaced in the slot while it lived or one whose spawn the end of the app cut short (`OrphansExplained`), the port told is the child's and is there once the boot settled (`PortIsReal`), and every crash is noticed and recovered from or given up (`CrashIsHandled`) |
| `workspace_safety` | Two requests, two tabs and two sends, with a collections file or none, and any three acts, beyond opening a first tab, among edits, saves, sends, runs, aborts, refetches, captures, imports, failed reads and writes and edits or a removal from outside: an accepted save undoes nobody's change, but for three stated exceptions (`SaveKeepsOthers`), a tab without the mark shows a text that was stored, unless its save did not have its text (`CleanMeansStored`), a tab that says it is sending has a send that will take that back (`SendingExplained`), and the drawer shows the one run that is not aborted (`OneRunShown`) |

Each property of a passing run comes with a mutant of a code definition (a dropped
guard, an unawaited call, a swallowed failure, a wrong order) under which TLC finds it
violated; the mutants stand next to the definition they change and are marked.

### Bounds

- `N = 3`, `MaxBatch = 2` in `SbReach`: the smallest queue with two messages in front
  of a target, a batch boundary inside the parked range, and a message behind the
  target in the same batch. The caps 1 and 2 make the cap bite in the middle of a batch
  and not at all. `F = 1`: one foreign dead letter without a stamp, which any restore
  may meet and abandon. It makes the endless collection possible for every action, so
  `RunEnds` names that exception in its formula (`Meets`) and covers every action.
- `N = 2` in `SbReplay`: one wanted and one unwanted message, or two wanted. The
  journal is flushed at every confirmation (`FlushEvery = 1`, 25 in the code), so that
  flush, final write, crash and resume meet within two messages; `MaxDelivery = 2`
  lets a message reach the limit within the run.
- Two faults are enough for an interruption of the run that resumes an interrupted
  one. Faults bound crashes, cancels, lost locks and broker errors; without a bound
  `DuplicatesNeedFaults` would say nothing, and the proofs do not need it.
- `SbOperations` has one operation with two runs and every failure; what two operations
  do to each other is proved (`StartsRefuse`) and not run. Bounds on runs, crashes and losses stand in the guards.
- Two builds in `ClientCache` are a client and its successor, two sweeps are any pair
  that can race; what a third would add is covered by the proofs.
- Two requests and entries with two attempts of the replacement (8 in the code): a
  failed attempt, and the last one.
- `AgentActions`: one proposal more than the store holds, so that eviction and expiry
  are forced; two tool calls in parallel; two requests, the smallest overlap.
- `AlertEvaluation`: one permit for two rules makes them wait for each other; two edits
  by two requests overlap in every way. Failed reads of the rule file are explored in
  `insights_safety` (with one rule) and are unbounded in the theorems.
- `SidecarSupervision`: three processes are a child, the one of its recovery and the one
  of a command that overlaps; one command suffices, since a recovery overlaps with it
  in every way two commands do. Two attempts (3 in the code): a failed one and the last.
- `ApiWorkspace`: `MaxActs = 3` bounds all that users and surroundings do, but for opening
  a tab when none is open, which is free; what page and sidecar do in answer is unbounded, and
  so is the state of the file. Three acts are enough for a save against an edit from outside
  and the refetch that mixes them, against a run and its capture, or against an import, and for
  a tab that is edited, saved and edited again. Two requests, tabs and sends are one and the
  other; they are symmetric. `MaxQueue = 2` is a save behind a save behind the one in
  flight.
- `ProactiveInsights`: one rule and one recovery give two incidents, two tasks a late
  one beside a current one.

The runs with `CHECK_DEADLOCK FALSE` are the ones that really may stop, because users may
stop asking (all operations ended, all builds used up, all proposals made) or because the
app has ended.

### Fairness

- The runner of an operation, queued journal writes and cancels are tasks on the .NET
  thread pool, and calls to the broker return or throw within their timeout:
  weak fairness of `Runner`, `Run(o)`, `Journal`, the persists and `CancelTrip`.
- A peek-lock expires: weak fairness of `LockExpires(m)`.
- Factories return or throw, and a completed task wakes its waiters: weak fairness of
  `Building(b)` and `Answered(c)`. A sweep may stall for ever.
- File operations return or throw: weak fairness of `Holds(t)`. `SemaphoreSlim` queues
  its asynchronous waiters first in first out, so that a waiter is served however often
  others come and go: strong fairness of `Enter(t)`.
- The samples of a pass, its tasks and the end of the pass: weak fairness of each
  evaluation and of `EndPass`; `SemaphoreSlim` serves its waiters in turn. Sources answer
  or time out. Investigations, the store and the model answer or time out: weak fairness
  of `Progress(t)`. Nothing makes the clock tick or a rule recover.
- Threads of the shell run, watchers poll every 500 ms, and a spawned process reports
  its port or times out (`READY_TIMEOUT`): weak fairness of `Step(t)` and `Poll(p)`.
- `ApiWorkspace` has safety properties only and assumes no fairness; `SendingExplained` and
  the second half of `OneRunShown` are the safety side of "it will end".
- Nothing is assumed of users, other receivers, crashes or faults.

## 5. Findings

The violation runs, with the quoted lines, are in `PROJECT.json` ("findings"):
`reach_stranded` and `alerts_ends`. Nine more sentences that the code does
not keep are stated in the modules; TLC refutes each on the instance of the passing run
named when it is added there as a property:

- `SbReplay.RunEnds` (`replay_safety`): from a dead-letter queue, which counts no
  deliveries, the loop may receive and abandon the same batch for ever.
- `SbOperations.OneRunningPerEntity` (`ops_deep` with two operations): a resume does not look for another
  operation running on the entity (`SbOperationService.cs:370`), though "the second one
  is refused regardless of kind" (`SbOperationService.cs:191`).
- `SbOperations.FinalStatusStays` (`ops_deep`): a journal write that read its status
  before the gate lands after the final one (`SbOperationService.cs:675`).
- `ClientCache.CachedIsCurrent` (`cache_safety`): a request that holds configuration from
  before a profile save caches a client built from it after the sweep.
- `AppDataFileStore.NoFailureForgets` (`files_safety`): a failed read of the primary and
  an earlier failed backup refresh together make an append drop an acknowledged entry.
- `AgentActions.ExecutesOnce` (`agents_safety`): two confirm requests that overlap both
  pass the test of `IsApplied` before either marks the proposal, and its effect takes
  place twice, though `ApplyAsync` "executes once" (`AgentActionApplier.cs:34`).
- `AgentActions.CapIsHard` (`agents_safety`): tool calls that overlap each pass the cap check
  before the others register (`ProposalParking.cs:34`, 41), and an investigation has more open
  proposals than it "may park" (`ProposalParking.cs:14`) under a cap that is "hard-enforced"
  (`ProactiveInvestigationRunner.cs:164-167`). `CapWithinOverlap` bounds the excess.
- `SidecarSupervision.NoOrphan` (`sidecar_safety`): a restart command and a recovery, or
  two commands, spawn at the same time; the later `store_spawned` drops the handle of a
  live child, which nobody kills on exit. And a spawn that still waits for its port when the
  app's process ends leaves its sidecar running: the thread that would kill it is gone
  (`sidecar.rs:174`). Yet `kill_sidecar` is there so that the sidecar "never survives as an
  orphan" (`sidecar.rs:401-402`). Each of the two alone refutes `NoOrphan`.
- `ApiWorkspace.NoSaveUndoes` (`workspace_safety`): the token is there "to detect external
  (e.g. Git-linked) modifications and return 409 conflicts" (`CollectionRepository.cs:61`).
  A refetch after an edit from outside answers with the old list, still in memory, and the
  new file's token (`ConfigEndpoints.cs:414`, 429), so that the next save is accepted and
  undoes the edit (`mixed`). A page that fetched while there was no `collections.json`, or
  while its stamp could not be read, sends no token (`useApiClient.ts:57-60`), and a file
  that is gone has none; the save is then accepted without a comparison
  (`ConfigEndpoints.cs:577`, 580) and undoes what an import or another program has written
  since (`blind`). And a write between the comparison of the token and the replacement of
  the file is undone too (`raced`). `SaveKeepsOthers` says that these three are all.

Other behaviour met while modelling, which contradicts no text of the repository:

- A rejection that lands while an execution is under way is answered as such, and the
  effect takes place; `RejectIsFinal` is about rejections before any execution began.
- A failed manual restart leaves no child and no recovery (`sidecar.rs:349`): the command
  returns the error, and the port keeps its old value.
- Rule edits that overlap can lose one another (`AlertRuleRepository.cs:62`), and the
  older of two snapshots can be the one the engine keeps until the next edit.
- A reload clears the cooldowns of all rules (`MonitoringAlertEvaluationService.cs:99`),
  so that editing one rule lets another that is firing fire again at once.
- The catch block of an investigation releases the rule's episode even when the task had
  not claimed it (`ProactiveInsightService.cs:415`); a task that waited until its
  incident was over claims, or is skipped for, the episode of the next one.
- A restore whose dead-letter queue holds something without the stamp (a foreign dead
  letter, or the target that was just dead-lettered) may receive and abandon it for
  ever, whatever the operation's action: the collection ends on an empty receive only
  (`AzureServiceBusClient.cs:832`). `RunEnds` of `SbReach` excepts a run that meets such a
  letter again and again, and no other.
- Each abandon costs a delivery; a copying replay can push a message over the delivery
  limit, and the broker dead-letters it (`AzureServiceBusClient.cs:1183`). The same
  limit is what ends the loop on an active queue (`ActiveRunEnds`).
- A message another receiver holds is reported missing
  (`AzureServiceBusClient.cs:1206`).
- A flush asked for while another is in flight is dropped, so more than 25
  confirmations can be lost in a crash (`SbOperationService.cs:607`).
- `CancelAsync` takes no gate: its token may be that of a later run, or disposed
  (`SbOperationService.cs:346`).
- Progress callbacks can arrive after the run, and out of order
  (`SbOperationService.cs:439`); the note about what remains can overstate it
  (`SbOperationService.cs:654`).
- A restored copy keeps the operation's stamp (`AzureServiceBusClient.cs:782`), and a
  restore asks for the stamp alone: should a consumer dead-letter the copy before the
  operation is resumed, it is restored once more. Copies do not come back to the
  dead-letter queue in `SbReach`.
- `ClientCache` reads `_closed` before it claims the slot (`ClientCache.cs:58`), and a
  caller may be answered with a client whose slot was evicted while it waited
  (`ClientCache.cs:106`).
- The copy kept of an unreadable file is best effort.
- A tab that is edited while its save is in flight is marked as saved by the answer
  (`ApiClientPageContext.tsx:1482`); until the editor's own timer saves it, it closes without
  a question. `CleanMeansStored` excepts it (`outrun`).
- A draft is put where its request is in the list (`ApiClientPageContext.tsx:226-252`). If the
  list has no such request, say because the file was removed or could not be read, the save
  changes nothing and its tab is marked as saved (`ApiClientPageContext.tsx:1480`). `outrun`
  names that tab as well.
- A `collections.json` that cannot be read when a send loads it leaves an empty store in memory
  (`CollectionRepository.cs:48`), while the file and its stamp stay as they are: the refetch that
  follows pairs the empty list with the file's token, and the next save overwrites the file. A
  copy of the file was kept.
- A capture writes back the collection as it was read before the request went out
  (`PostRequestCaptureExecutor.cs:75`), over whatever was saved in the meantime, and its
  write makes the page's token stale, so that the next save is refused.
- The refusal reads "Collections file changed on disk." (`ConfigEndpoints.cs:582`), and the
  page looks for "409" or "conflict" in the text (`ApiClientPageContext.tsx:1494`): the
  dialog that offers to reload or overwrite does not open for it.
- A clean preview tab is reused for another request also while it is sending
  (`ApiClientPageContext.tsx:528`); the answer then arrives in the tab's new request. Steps
  of a run are shown in whatever tab is active (`ApiClientPageContext.tsx:1662`).
- Ctrl+Enter sends again while a send is under way (`RequestEditor.tsx:151`); the first
  answer clears the mark of both.

## 6. Proofs

TLAPS checks the theorems below for every value of the constants that satisfies the
module's named assumption (`SbReachAssumption` and so on, all of them typing of bounds;
TLC evaluates them in the runs).

**SbReachProofs.** `TypeCorrect`, `NothingIsLost`, `StaysWithinRequest`,
`DuplicatesArePaid`, `CopiesAreOrdered`, `ResultsAreHonest`: every safety property of the
run. `NothingLost` is not inductive: completing a stamped message needs the copy to be
there. `Confirmable` says that at `pc = "complete"` the last message sent is on the
entity, and `OnlyAskedCollected` that the runner only lists messages the operation may
resend; with them `IInv` is inductive. On top of it `JInv` relates the runner's lists to
the broker: a message it lists is still stamped (`Listed`), the cap is counted over
batches (`Capped`), what was sent precedes what is pending (`SentFirst`), at each stage
every stamped message is in the runner's reach or was held by another (`Drains`), and
each message's copies are accounted for (`Paid`): a copy beyond the first was paid for
by a fault, with an allowance while the message is in hand under a held lock.

**SbReplayProofs.** `TypeCorrect`, `DoneLosesNothing`, `OnlyRequestedIsCopied`,
`CompletedIsComplete`, `DuplicatesAreBounded`, `ConfirmedStaysConfirmed`. The
strengthening has five parts: the run looks for the unconfirmed part of the request
(`LooksForTheRest`), what is being settled was sent (`SentBeforeSettled`), nothing is
forgotten as long as nothing failed (`Accounted`), the journal's Completed is as good
as the operation's (`JournalAccounts`, needed because a crash brings the journal's
state back), and `Paid`: every unconfirmed clone was paid for by an interruption, with
one allowance while its settle is under way under a held lock. `Paid` is what makes
the bound on duplicates inductive: a lost lock or a cancel in that window spends the
allowance and is itself the fault that pays.

**SbOperationsProofs.** `TypeCorrect`, `RunsAlone`, `StartsRefuse`, `StrandedCanResume`,
`EndedStaysEnded`. The invariant joins `OneRunner` and `StartsExclude` with `Bookkeeping`
(what a pending write says of its operation, that one transition is written at a time,
that a final state is known for final wherever it is kept) and `Recorded`: unless an
access was lost, an operation that works or left stamped messages is on disk, whence a
restart offers it.

**ClientCacheProofs.** `TypeCorrect`, `NoDoubleDispose`, `LookupsAreUsable`,
`NoneIsLeaked`, `DisposalsAreExact`, and `KeepsThePromise`, which is the whole refinement
of `SharedClients`. The key invariant is `Apart`: a build is in the dictionary, in one
sweep's hands, hooked or abandoned, and in one of these at a time, so whoever disposes it
is the last to hold it. `AllKept` is the other half: from its start until it is disposed
a build is held in one of these places. Each step of the cache is then shown to be one
of the abstract steps or a stutter.

**AppDataFileStoreProofs.** `TypeCorrect`, `SavesAreAtomic`, `AcknowledgedIsKept`.
`GateHeld` gives the files to one request at a time; `Progress` says
what the one past the gate has in hand at each step (rows that contain every
acknowledged entry before the replacement, a primary that contains its entry after it,
a copy equal to the primary before the swap).

**AgentActionsProofs.** `TypeCorrect`, `StoreIsBounded`, `RegisteredOnce`,
`CapHoldsUpToOverlap`, `RepeatsAreExplained`, `RejectionIsFinal`, `InvestigationsOutlastChat`.
Two invariants, of the store and of executions: the first counts pending and parked
proposals together against the cap (`CapCounts`), since registering turns one into the
other; the second says that while nothing excuses a repetition at most one request
executes a proposal, and none once its effect took place unless it is about to mark it
(`Once`), and that a barred proposal is out of the store for good (`BarredIsGone`).

**ProactiveInsightsProofs, the engine.** `EngineTypeCorrect`, `StreamFollowsIncidents`,
`EngineFollowsFile`. `Permits` counts the evaluations under way against the permits;
`Shown` says for every stage of an evaluation what incidents and stream have to do with
each other; `Alone` says what a request that is not overlapped carries.

**ProactiveInsightsProofs, the service.** `EngineUndisturbed`: the composition implements the engine's
specification, so that the engine's theorems hold for it; `TypeCorrect`, `ReportedOnce`,
`SkippedWithReason`. `Slot` gives the slot to one task; `AllBegun` says that tasks and
reports belong to incidents that have begun, so that a recovery opens an incident that
nothing refers to; `ReportsHold` and `EpisodesStand` relate episodes to reports, and
`WorkStands` says what stays true while an investigation runs.

**DesktopProofs, the shell.** `TypeCorrect`, `OrphansAreExplained`, `PortsAreReal`,
`EveryChildIsWatched`. `Stages` says for each point between a spawn and its end whether the
process has a watcher and whether it is in the slot, which differs between a recovery and
the rest; `OneHand` that no two threads have the same process in hand; `Accounted` that a
process that runs is in hand, in the slot or replaced. Emptying or overwriting the slot then
leaves no process unaccounted for. Once the app exits, a process in hand is about to be
killed as long as its thread runs, and is cut short when the app's process ends; the theorem
names the two cases apart.

**DesktopProofs, the API client.** `WorkspaceTyped`, `SavesKeepOthers`,
`CleanTabsAreStored`, `SendingIsExplained`, `OneRunIsShown`. A token is a number that a
write of the file draws from `writes`, so no stamp is used twice and none is newer than that
(`StampKnown`). `Agrees` says at each place where a list travels with a token (the cache,
the answer of a GET or of a save, and in `SentAgrees` a save on its way) that, unless
`mixed` excepts it, the list is the file's when the token is the file's stamp, and is empty
when there is no token. A save that is accepted with the file's stamp therefore differs from
the file in its own item; one accepted without a comparison does when there is still no
file, and is `blind` otherwise. `KnownInv` says that every list the store, the file, the
cache, a GET, a save or a send holds consists of known texts, and that of what a save is an
update of, the version is known as soon as the save was accepted; whence the mark comes off
a known text only, or the tab's text was not the save's (`outrun`). `SendInv` says which
tab, queue entry or flight each stage of a send owns: an update that carries a send is
queued or in flight once, its send waits in `saving`, and it came from the tab the send came
from; so every place that sets the mark hands it to a send in a stage that takes it back,
and no stage but the clearing one lets go of its tab. `OneRunShown` is inductive with the
types.

The inductive invariants were model-checked on small instances, or are made of
properties that were, before they were proved.

**Only model-checked.** Liveness (`RunEnds` of `SbReach` and `SbOperations`,
`ActiveRunEnds`, `EveryWaitEnds`, `RequestEnds`, `PassEnds`, `SlotIsGivenBack`,
`CrashIsHandled`): fairness and ENABLED are out of the prover's reach. Every safety
property of a passing run is a theorem. **Only proved:** `StartsExclude`; two operations are
more than a run can finish.

## 7. Not modelled

The components with status `not_modelled` in `PROJECT.json`, each with its reason.
Within the modelled ones:

- Message bodies, properties and formatting; sessions and partitioned entities. A
  message is its sequence number. A stamp is written by park and resubmit alone, so
  `place = "parked"` stands for it.
- Locks are not renewed by the code and are not renewed here; their expiry is a fault
  while the runner lives and certain once it does not.
- The alert engine's lengths of intervals, backoffs and cooldowns, its ring of recent
  alerts, its start-up delay and the application's stop; handlers of its events that
  throw; the `.bak` fallback of the rule file. A mute is an edit that writes the rule as
  it was read before. A rule whose source has no registered implementation is a rule that
  is switched off.
- The rounds, budgets and prompts of an investigation, the report file (its shape is that
  of `AppDataFileStore`), and the proposals that an investigation parks (`AgentActions`).
- What the executors of agent actions do to clusters and queues.
- The trim of the alert history at `MaxEntries`, the deletion of single records, and
  migrations of old file formats.
- Of the API client: linked collections and their content stamps, environments, examples,
  new and deleted requests, the conflict dialog, responses and history, save as a copy; more
  than one collection (an update of another one is an edit of the tree). The lookup of a
  secret between the save and the start of a run can fail here, but takes no time. Tokens are
  taken to be different for different writes (time and length of the file). The answer of a
  GET is the list as it was taken: objects of it that a capture changes in place before they
  are serialized are not modelled. Two saves that queue for
  one tab are ordered as they were asked for.
- The debug build of the shell, which starts no sidecar; the bounded wait of
  `get_sidecar_port` (a reader of `settled` and `port`); poisoned locks. `get_sidecar_port`
  reads the port without the lock of the child, so that it can see the two assignments of
  `store_spawned` one by one; here they are one step.
- The pools other than the Service Bus one use the same class and are not instantiated
  apart.
