---------------------------- MODULE ApiWorkspace ----------------------------
(***************************************************************************)
(* The API client's workspace: request tabs over one collections store.    *)
(*                                                                         *)
(* The page (ApiClientPageContext.tsx) edits drafts in tabs.  A save PUTs  *)
(* the WHOLE store, derived from the query cache when its turn comes       *)
(* (useUpdateCollections: one mutation scope, one save in flight), with    *)
(* the cache's concurrency token.  The sidecar keeps the store in memory,  *)
(* compares the token with the stamp of collections.json, where there are  *)
(* both, and writes the file.  A refetch of the store, a send (which       *)
(* re-reads the file into memory and may write captured variables back),   *)
(* an import, another save of the tree and an edit of the file from        *)
(* outside all run in between.                                             *)
(* A run (useApiRun) is a send whose answer is a stream; the drawer shows  *)
(* the last one started, and starting one aborts the one before.           *)
(*                                                                         *)
(* The store is one internal collection: a version number for each request *)
(* and one for the collection's variables, 0 for what the store lacks.     *)
(* Every edit has a number of its own, so a number says whose text it is.  *)
(* Linked collections, saved file by file, are not modelled here.          *)
(***************************************************************************)
EXTENDS Naturals, Sequences

CONSTANTS
  Requests,     \* the requests of the collection
  Vars,         \* the collection's variables, the item that captures change
  Tabs,         \* identifiers of tabs
  Sends,        \* sends, runs and imports under way at once
  None,         \* no request, no tab, no send
  MaxQueue,     \* bound: saves waiting for their turn
  MaxActs       \* bound: what users and surroundings do in all, but for
                \* opening a tab when there is none

Items == Requests \cup {Vars}
Lists == [Items -> Nat]

ASSUME WorkspaceAssumption ==
  /\ Vars \notin Requests
  /\ None \notin Items \cup Tabs \cup Sends
  /\ MaxQueue \in Nat /\ MaxActs \in Nat

VARIABLES
  memory,       \* CollectionRepository._store
  file,         \* what collections.json holds
  stamp,        \* its last-write time and length: the concurrency token
  writes,       \* writes of the file so far: the newest stamp
  cache,        \* the page's query cache: list, token
  fetch,        \* the GET of the store under way: at, list, token
  queue,        \* saves waiting for the mutation scope
  flight,       \* the save in flight: at, update, list, token
  node,         \* per tab, the request it shows; None: closed
  draft,        \* per tab, the text in its editor
  dirty,        \* per tab, marked as having unsaved changes
  preview,      \* per tab, the one that browsing reuses
  sending,      \* per tab, shown as sending
  active,       \* the tab whose editor is on screen
  phase,        \* per send, where it is
  origin,       \* per send, the tab it was started from; None: from the tree
  isRun,        \* per send, a streamed run instead of a plain send
  base,         \* per send, the collection as the sidecar loaded it
  stream,       \* per send, the client's side of the run's stream
  current,      \* abortRef: the run that owns the drawer
  shown,        \* the drawer: run, status
  acts,         \* acts so far, also the number of the latest edit
  known,        \* history: what the sidecar or the file ever held
  outrun,       \* history: tabs marked clean by a save without their text
  mixed,        \* history: the cache holds the file's stamp on another list
  raced,        \* history: the file was written under an accepted save
  blind         \* history: it had another token, and there was no comparison

fileVars  == <<file, stamp, writes>>
storeVars == <<memory, fileVars>>
saveVars  == <<cache, fetch, queue, flight, mixed, raced, blind>>
tabVars   == <<node, draft, dirty, preview, sending, active, outrun>>
sendVars  == <<phase, origin, isRun, base, stream>>
runVars   == <<current, shown>>
wsVars == <<memory, file, stamp, writes, cache, fetch, queue, flight, node, draft,
            dirty, preview, sending, active, phase, origin, isRun, base, stream,
            current, shown, acts, known, outrun, mixed, raced,
            blind>>

(***************************************************************************)
(* Records                                                                 *)
(***************************************************************************)
\* An update of the store: this item gets this version.  It comes from a tab's
\* draft (tab), maybe for a send that waits for it (send), or from the tree.
Update(i, v, t, s) == [item |-> i, version |-> v, tab |-> t, send |-> s]

Get(at, l, k, m) == [at |-> at, list |-> l, token |-> k, mixed |-> m]
Put(at, u, l, k, m) ==
  [at |-> at, update |-> u, list |-> l, token |-> k, mixed |-> m]

\* What the store holds at start, and nothing: no collection at all.
FirstList == [i \in Items |-> 1]
NoList == [i \in Items |-> 0]
Has(l) == l # NoList
NewText == acts + 2

\* The token of a file that is not there, or whose stamp could not be read.
NoToken == 0
\* What a list with this token should be, when it is handed out.
Behind(k) == IF k = NoToken THEN NoList ELSE file

NoGet  == Get("idle", NoList, 0, FALSE)
NoPut  == Put("idle", Update(Vars, 0, None, None), NoList, 0, FALSE)

Cached(l, k) == [list |-> l, token |-> k]
Drawer(s, status) == [run |-> s, status |-> status]

Pairs(l) == {<<i, l[i]>> : i \in Items}
Open(t) == node[t] # None

Spend == acts < MaxActs /\ acts' = acts + 1

Enqueue(u) ==
  /\ Len(queue) < MaxQueue
  /\ queue' = Append(queue, u)

(***************************************************************************)
(* At start the file, if there is one, has been loaded and fetched, and no *)
(* tab is open.                                                            *)
(***************************************************************************)
WsInit ==
  /\ \/ file = FirstList /\ stamp = 1
     \/ file = NoList /\ stamp = NoToken
  /\ memory = file /\ writes = stamp
  /\ cache = Cached(file, stamp) /\ fetch = NoGet
  /\ queue = <<>> /\ flight = NoPut
  /\ node = [t \in Tabs |-> None] /\ draft = [t \in Tabs |-> 0]
  /\ dirty = [t \in Tabs |-> FALSE] /\ preview = [t \in Tabs |-> FALSE]
  /\ sending = [t \in Tabs |-> FALSE] /\ active = None
  /\ phase = [s \in Sends |-> "idle"] /\ origin = [s \in Sends |-> None]
  /\ isRun = [s \in Sends |-> FALSE] /\ base = [s \in Sends |-> NoList]
  /\ stream = [s \in Sends |-> "none"]
  /\ current = None /\ shown = Drawer(None, "idle")
  /\ acts = 0 /\ known = Pairs(NoList) \cup Pairs(file)
  /\ outrun = [t \in Tabs |-> FALSE]
  /\ mixed = FALSE /\ raced = FALSE /\ blind = FALSE

(***************************************************************************)
(* Tabs                                                                    *)
(***************************************************************************)
\* newId(): no update and no send has seen the tab.
Unused(t) ==
  /\ ~Open(t)
  /\ flight.update.tab # t
  /\ \A n \in DOMAIN queue : queue[n].tab # t
  /\ \A s \in Sends : origin[s] # t

\* The tab shows r, as the cache has it: emptyTabState(deepClone(...)).
Show(t, r, peek) ==
  /\ node' = [node EXCEPT ![t] = r]
  /\ draft' = [draft EXCEPT ![t] = cache.list[r]]
  /\ dirty' = [dirty EXCEPT ![t] = FALSE]
  /\ preview' = [preview EXCEPT ![t] = peek]
  /\ sending' = [sending EXCEPT ![t] = FALSE]
  /\ outrun' = [outrun EXCEPT ![t] = FALSE]
  /\ active' = t

Revisit(r, peek) ==
  \E t \in Tabs :
    /\ node[t] = r
    /\ active' = t
    /\ preview' = [preview EXCEPT ![t] = @ /\ peek]
    /\ UNCHANGED <<node, draft, dirty, sending, outrun>>

\* A peek takes over the preview tab, if it is clean, also while it is sending.
Reusable(t) == Open(t) /\ preview[t] /\ ~dirty[t]

OpenTab(r, peek) ==
  /\ cache.list[r] # 0
  /\ IF \A t \in Tabs : ~Open(t) THEN UNCHANGED acts ELSE Spend
  /\ \/ Revisit(r, peek)
     \/ /\ \A t \in Tabs : node[t] # r
        /\ \/ peek /\ \E t \in Tabs : Reusable(t) /\ Show(t, r, TRUE)
           \/ /\ ~(peek /\ \E t \in Tabs : Reusable(t))
              /\ \E t \in Tabs : Unused(t) /\ Show(t, r, peek)
  /\ UNCHANGED <<storeVars, saveVars, sendVars, runVars, known>>

\* A click on a tab of the strip.
Activate(t) ==
  /\ Open(t) /\ active # t
  /\ Spend
  /\ active' = t
  /\ UNCHANGED <<storeVars, saveVars, sendVars, runVars, known, node,
                 draft, dirty, preview, sending, outrun>>

\* A clean tab closes at once, a dirty one when the user confirms.  The
\* neighbour's place in the strip is left open.
CloseTab(t) ==
  /\ Open(t)
  /\ Spend
  /\ node' = [node EXCEPT ![t] = None]
  /\ draft' = [draft EXCEPT ![t] = 0]
  /\ dirty' = [dirty EXCEPT ![t] = FALSE]
  /\ preview' = [preview EXCEPT ![t] = FALSE]
  /\ sending' = [sending EXCEPT ![t] = FALSE]
  /\ outrun' = [outrun EXCEPT ![t] = FALSE]
  /\ IF active # t THEN active' = active
     ELSE LET rest == {u \in Tabs \ {t} : Open(u)}
          IN  IF rest = {} THEN active' = None ELSE active' \in rest
  /\ UNCHANGED <<storeVars, saveVars, sendVars, runVars, known>>

\* Typing in the editor: the draft is new, and the tab is kept.
Edit ==
  /\ active # None
  /\ Spend
  /\ draft' = [draft EXCEPT ![active] = NewText]
  /\ dirty' = [dirty EXCEPT ![active] = TRUE]
  /\ preview' = [preview EXCEPT ![active] = FALSE]
  /\ outrun' = [outrun EXCEPT ![active] = FALSE]
  /\ UNCHANGED <<storeVars, saveVars, sendVars, runVars, known, node, sending,
                 active>>

(***************************************************************************)
(* Saves: the page's side                                                  *)
(***************************************************************************)
DraftOf(t, s) == Update(node[t], draft[t], t, s)

\* Ctrl+S or the autosave timer: the active tab's draft, as it is now.
Save ==
  /\ active # None
  /\ Spend
  /\ Enqueue(DraftOf(active, None))
  /\ UNCHANGED <<storeVars, tabVars, sendVars, runVars, known, cache, fetch,
                 flight, mixed, raced, blind>>

\* A rename, a move or an edit of the variables, through the same hook.
EditTree(i) ==
  /\ Spend
  /\ Enqueue(Update(i, NewText, None, None))
  /\ UNCHANGED <<storeVars, tabVars, sendVars, runVars, known, cache, fetch,
                 flight, mixed, raced, blind>>

\* A draft is put where its request is in the list, and nowhere if the list has
\* no such request (updateRequestInCollections); the tree adds what it lacks.
Placed(u, l) ==
  IF u.tab # None /\ l[u.item] = 0 THEN [u EXCEPT !.version = 0] ELSE u

\* The scope lets the next save begin: list and token are the cache's now.
BeginSave ==
  /\ flight.at = "idle" /\ queue # <<>>
  /\ LET u == Placed(Head(queue), cache.list)
     IN  flight' = Put("sent", u, [cache.list EXCEPT ![u.item] = u.version],
                       cache.token, mixed)
  /\ queue' = Tail(queue)
  /\ UNCHANGED <<storeVars, tabVars, sendVars, runVars, acts, known, cache,
                 fetch, mixed, raced, blind>>

\* What a failed save does: the tab stays dirty, a send that waited is dropped.
Drop(u) ==
  /\ flight' = NoPut
  /\ phase' = IF u.send = None THEN phase ELSE [phase EXCEPT ![u.send] = "idle"]
  /\ origin' = IF u.send = None THEN origin
               ELSE [origin EXCEPT ![u.send] = None]
  /\ UNCHANGED <<isRun, base, stream, queue, cache, fetch, mixed>>

(***************************************************************************)
(* Saves: the sidecar's side                                               *)
(***************************************************************************)
\* GetConcurrencyToken: the file's stamp, or none if it cannot be read.
TokenRead(k) ==
  \/ k = stamp /\ UNCHANGED acts
  \/ k = NoToken /\ stamp # NoToken /\ Spend

\* The page sent a token, the file has one (k), and they differ.
Stale(k) == NoToken \notin {flight.token, k} /\ flight.token # k

\* A save whose token is not the file's, with one of the two missing.
Uncompared(k) == NoToken \in {flight.token, k} /\ flight.token # stamp

\* The list replaces the store in memory, and is serialized.
Accepted ==
  /\ memory' = flight.list
  /\ known' = known \cup Pairs(flight.list)
  /\ flight' = [flight EXCEPT !.at = "writing"]
  /\ raced' = FALSE
  /\ UNCHANGED <<fileVars, tabVars, sendVars, runVars, cache, fetch, queue,
                 mixed>>

\* A mutant: the tokens are not compared.
AcceptUnchecked ==
  /\ flight.at = "sent"
  /\ \E k \in {stamp, NoToken} : TokenRead(k) /\ blind' = Uncompared(k)
  /\ Accepted

\* The token is the file's, or there is nothing to compare it with.
Accept ==
  /\ flight.at = "sent"
  /\ \E k \in {stamp, NoToken} :
       TokenRead(k) /\ ~Stale(k) /\ blind' = Uncompared(k)
  /\ Accepted

\* A mutant: the mark is taken off whatever the answer.
RefuseMarksClean ==
  /\ flight.at = "sent" /\ Stale(stamp)
  /\ Drop(flight.update)
  /\ dirty' = [t \in Tabs |-> dirty[t] /\ flight.update.tab # t]
  /\ UNCHANGED <<storeVars, runVars, acts, known, raced, blind, node, draft,
                 preview, sending, active, outrun>>

\* 409: the file was changed since the page read it.
Refuse ==
  /\ flight.at = "sent" /\ Stale(stamp)
  /\ Drop(flight.update)
  /\ UNCHANGED <<storeVars, tabVars, runVars, acts, known, raced, blind>>

WriteFile(l) == file' = l /\ writes' = writes + 1 /\ stamp' = writes + 1

Write ==
  /\ flight.at = "writing"
  /\ WriteFile(flight.list)
  /\ flight' = [flight EXCEPT !.at = "written"]
  /\ UNCHANGED <<memory, tabVars, sendVars, runVars, acts, known, cache, fetch,
                 queue, mixed, raced, blind>>

\* The store in memory has the list all the same.
WriteFails ==
  /\ flight.at = "writing"
  /\ Spend
  /\ Drop(flight.update)
  /\ UNCHANGED <<storeVars, tabVars, runVars, known, raced, blind>>

\* The answer: the store as it is in memory now, with the file's stamp.
Respond ==
  /\ flight.at = "written"
  /\ \E k \in {stamp, NoToken} :
       /\ TokenRead(k)
       /\ flight' = Put("answered", flight.update, memory, k, memory # Behind(k))
  /\ UNCHANGED <<storeVars, tabVars, sendVars, runVars, known, cache, fetch,
                 queue, mixed, raced, blind>>

\* The page takes the answer into the cache and calls the tab clean.  A send
\* that waited goes on, and its tab says so; a run needs the tab to be open, and
\* (prepared) a collection to run in and its secret, or it is dropped.
SettleSave ==
  \E prepared \in BOOLEAN :
    LET u == flight.update
        onward == u.send # None /\ (isRun[u.send] => Open(u.tab) /\ prepared)
    IN
    /\ flight.at = "answered"
    /\ cache' = Cached(flight.list, flight.token)
    /\ mixed' = flight.mixed
    /\ flight' = NoPut
    /\ dirty' = IF u.tab = None THEN dirty ELSE [dirty EXCEPT ![u.tab] = FALSE]
    /\ outrun' = IF u.tab = None THEN outrun
                 ELSE [outrun EXCEPT ![u.tab] =
                         /\ Open(u.tab)
                         /\ <<node[u.tab], draft[u.tab]>> # <<u.item, u.version>>]
    /\ sending' = IF onward /\ Open(u.tab) THEN [sending EXCEPT ![u.tab] = TRUE]
                  ELSE sending
    /\ phase' = IF u.send = None THEN phase
                ELSE [phase EXCEPT ![u.send] = IF onward THEN "ready" ELSE "idle"]
    /\ origin' = IF u.send = None \/ onward THEN origin
                 ELSE [origin EXCEPT ![u.send] = None]
    /\ UNCHANGED <<storeVars, runVars, acts, known, fetch, queue, raced, blind,
                   node, draft, preview, active, isRun, base, stream>>

(***************************************************************************)
(* A refetch of the store.  The sidecar takes the list, reads the linked   *)
(* roots, and only then reads the stamp.  A new refetch cancels the old.   *)
(***************************************************************************)
FetchList ==
  /\ Spend
  /\ fetch' = Get("listed", memory, 0, FALSE)
  /\ UNCHANGED <<storeVars, tabVars, sendVars, runVars, known, cache,
                 queue, flight, mixed, raced, blind>>

FetchToken ==
  /\ fetch.at = "listed"
  /\ \E k \in {stamp, NoToken} :
       /\ TokenRead(k)
       /\ fetch' = Get("answered", fetch.list, k, fetch.list # Behind(k))
  /\ UNCHANGED <<storeVars, tabVars, sendVars, runVars, known, cache, queue,
                 flight, mixed, raced, blind>>

FetchArrives ==
  /\ fetch.at = "answered"
  /\ cache' = Cached(fetch.list, fetch.token)
  /\ mixed' = fetch.mixed
  /\ fetch' = NoGet
  /\ UNCHANGED <<storeVars, tabVars, sendVars, runVars, acts, known, queue,
                 flight, raced, blind>>

(***************************************************************************)
(* Sends and runs                                                          *)
(***************************************************************************)
Free(s) == phase[s] = "idle" /\ stream[s] = "none"

\* Send, or send with dependencies: the draft is saved first.
Send(s, run) ==
  /\ active # None /\ Free(s)
  /\ Spend
  /\ Enqueue(DraftOf(active, s))
  /\ phase' = [phase EXCEPT ![s] = "saving"]
  /\ origin' = [origin EXCEPT ![s] = active]
  /\ isRun' = [isRun EXCEPT ![s] = run]
  /\ UNCHANGED <<storeVars, tabVars, runVars, known, cache, fetch, flight,
                 mixed, raced, blind, base, stream>>

\* A run of a folder, a selection or a chain: from the tree, nothing to save.
RunTree(s) ==
  /\ Free(s)
  /\ Spend
  /\ phase' = [phase EXCEPT ![s] = "ready"]
  /\ isRun' = [isRun EXCEPT ![s] = TRUE]
  /\ UNCHANGED <<storeVars, saveVars, tabVars, runVars, known, origin, base,
                 stream>>

\* The secret and the pre-request actions are done: the request goes out.
Post(s) ==
  /\ phase[s] = "ready" /\ ~isRun[s]
  /\ phase' = [phase EXCEPT ![s] = "posted"]
  /\ UNCHANGED <<storeVars, saveVars, tabVars, runVars, acts, known, origin,
                 isRun, base, stream>>

\* useApiRun.start: the run before is aborted, and this one owns the drawer.
StartRun(s) ==
  /\ phase[s] = "ready" /\ isRun[s]
  /\ phase' = [phase EXCEPT ![s] = "posted"]
  /\ stream' = [r \in Sends |-> IF r = s THEN "open"
                                ELSE IF r = current THEN "aborted"
                                ELSE stream[r]]
  /\ current' = s
  /\ shown' = Drawer(s, "running")
  /\ UNCHANGED <<storeVars, saveVars, tabVars, acts, known, origin, isRun, base>>

\* The sidecar reads the file again before it executes anything ...
Load(s) ==
  /\ phase[s] = "posted"
  /\ base' = [base EXCEPT ![s] = file]
  /\ phase' = [phase EXCEPT ![s] = "loading"]
  /\ UNCHANGED <<storeVars, saveVars, tabVars, runVars, acts, known, origin,
                 isRun, stream>>

\* ... and makes it the store in memory.
Loaded(s) ==
  /\ phase[s] = "loading"
  /\ memory' = base[s]
  /\ phase' = [phase EXCEPT ![s] = "calling"]
  /\ UNCHANGED <<fileVars, saveVars, tabVars, runVars, acts, known, origin,
                 isRun, base, stream>>

\* A file that cannot be read leaves an empty store in memory.
LoadFails(s) ==
  /\ phase[s] = "loading"
  /\ Spend
  /\ memory' = NoList
  /\ base' = [base EXCEPT ![s] = NoList]
  /\ phase' = [phase EXCEPT ![s] = "calling"]
  /\ UNCHANGED <<fileVars, saveVars, tabVars, runVars, known, origin, isRun,
                 stream>>

\* An answer with nothing to capture, or a failure, also of the write of what the
\* store in memory has by now.
Answer(s) ==
  /\ phase[s] \in {"posted", "loading", "calling", "storing"}
  /\ phase' = [phase EXCEPT ![s] = "answered"]
  /\ UNCHANGED <<storeVars, saveVars, tabVars, runVars, acts, known, origin,
                 isRun, base, stream>>

\* The sidecar changes the store in memory to l, and is about to save it.
Storing(s, l) ==
  /\ base' = [base EXCEPT ![s] = l]
  /\ memory' = l
  /\ known' = known \cup Pairs(l)
  /\ phase' = [phase EXCEPT ![s] = "storing"]

\* A capture rule matched: the collection as it was loaded, with the captured
\* variable, replaces whatever the store holds of it by now.
Capture(s) ==
  /\ phase[s] = "calling" /\ Has(base[s]) /\ Has(memory)
  /\ Spend
  /\ Storing(s, [base[s] EXCEPT ![Vars] = NewText])
  /\ UNCHANGED <<fileVars, saveVars, tabVars, runVars, origin, isRun, stream>>

\* An import or the agent adds to the store in memory, or changes it there.
Import(s, i) ==
  /\ Free(s)
  /\ Spend
  /\ Storing(s, [memory EXCEPT ![i] = NewText])
  /\ isRun' = [isRun EXCEPT ![s] = FALSE]
  /\ UNCHANGED <<fileVars, saveVars, tabVars, runVars, origin, stream>>

\* The file is written from elsewhere, maybe under a save on its way there.
Races == raced' = (raced \/ flight.at = "writing")

\* The store with the change reaches the file.
WriteBack(s) ==
  /\ phase[s] = "storing"
  /\ WriteFile(base[s])
  /\ Races
  /\ phase' = [phase EXCEPT ![s] = "answered"]
  /\ UNCHANGED <<memory, tabVars, runVars, acts, known, cache, fetch, queue,
                 flight, mixed, blind, origin, isRun, base, stream>>

\* A mutant: the tab on screen is taken for the one that started it.
NotSendingOnScreen(s) ==
  sending' = IF active = None THEN sending ELSE [sending EXCEPT ![active] = FALSE]

\* The tab that started it no longer says that it is sending.
NotSending(s) ==
  sending' = IF origin[s] = None THEN sending
             ELSE [sending EXCEPT ![origin[s]] = FALSE]

\* The answer of a plain send.
SendEnds(s) ==
  /\ phase[s] = "answered" /\ ~isRun[s]
  /\ NotSending(s)
  /\ phase' = [phase EXCEPT ![s] = "idle"]
  /\ origin' = [origin EXCEPT ![s] = None]
  /\ UNCHANGED <<storeVars, saveVars, runVars, acts, known, isRun, base, stream,
                 node, draft, dirty, preview, active, outrun>>

\* A mutant: ownership is read after the controller was let go.
SettleRunTooLate(s, status) ==
  IF current = s THEN current' = None /\ UNCHANGED shown
  ELSE UNCHANGED <<current, shown>>

\* settle: only the run that owns the drawer writes to it and lets it go.
SettleRun(s, status) ==
  IF current = s THEN current' = None /\ shown' = Drawer(s, status)
  ELSE UNCHANGED <<current, shown>>

\* The stream ended: done, aborted by the sidecar, or an error.
RunEnds(s, status) ==
  /\ phase[s] = "answered" /\ stream[s] = "open"
  /\ SettleRun(s, status)
  /\ NotSending(s)
  /\ phase' = [phase EXCEPT ![s] = "idle"]
  /\ stream' = [stream EXCEPT ![s] = "none"]
  /\ origin' = [origin EXCEPT ![s] = None]
  /\ UNCHANGED <<storeVars, saveVars, acts, known, isRun, base, node, draft,
                 dirty, preview, active, outrun>>

\* abort(): the drawer's stop button.
AbortRun ==
  /\ current # None /\ stream[current] = "open"
  /\ Spend
  /\ stream' = [stream EXCEPT ![current] = "aborted"]
  /\ UNCHANGED <<storeVars, saveVars, tabVars, runVars, known, phase,
                 origin, isRun, base>>

\* The aborted stream rejects in the page; the sidecar may still be at work.
RunCancelled(s) ==
  /\ stream[s] = "aborted"
  /\ SettleRun(s, "aborted")
  /\ NotSending(s)
  /\ stream' = [stream EXCEPT ![s] = "none"]
  /\ origin' = [origin EXCEPT ![s] = None]
  /\ UNCHANGED <<storeVars, saveVars, acts, known, phase, isRun, base, node,
                 draft, dirty, preview, active, outrun>>

\* The sidecar's work for a run whose page has left.
RunAbandoned(s) ==
  /\ phase[s] = "answered" /\ isRun[s] /\ stream[s] # "open"
  /\ phase' = [phase EXCEPT ![s] = "idle"]
  /\ UNCHANGED <<storeVars, saveVars, tabVars, runVars, acts, known, origin,
                 isRun, base, stream>>

(***************************************************************************)
(* collections.json is edited, or removed, outside the app.                *)
(***************************************************************************)
EditOutside(i) ==
  /\ Spend
  /\ WriteFile([file EXCEPT ![i] = NewText])
  /\ known' = known \cup {<<i, NewText>>}
  /\ Races
  /\ UNCHANGED <<memory, tabVars, sendVars, runVars, cache, fetch, queue,
                 flight, mixed, blind>>

RemoveOutside ==
  /\ Spend
  /\ file' = NoList /\ stamp' = NoToken
  /\ Races
  /\ UNCHANGED <<memory, writes, tabVars, sendVars, runVars, known, cache, fetch,
                 queue, flight, mixed, blind>>

UserStep ==
  \/ \E r \in Requests, peek \in BOOLEAN : OpenTab(r, peek)
  \/ \E t \in Tabs : Activate(t) \/ CloseTab(t)
  \/ Edit \/ Save
  \/ \E i \in Items : EditTree(i)
  \/ \E s \in Sends, run \in BOOLEAN : Send(s, run)
  \/ \E s \in Sends : RunTree(s)
  \/ AbortRun

SaveStep ==
  \/ BeginSave \/ Accept \/ Refuse \/ Write \/ WriteFails \/ Respond
  \/ SettleSave
FetchStep == FetchList \/ FetchToken \/ FetchArrives

\* What page and sidecar do for a send without anybody's choice.
Advance(s) ==
  \/ Post(s) \/ StartRun(s) \/ Load(s) \/ Loaded(s) \/ Answer(s)
  \/ WriteBack(s) \/ SendEnds(s) \/ RunCancelled(s) \/ RunAbandoned(s)
  \/ \E status \in {"done", "aborted", "error"} : RunEnds(s, status)

WsNext ==
  \/ UserStep \/ SaveStep \/ FetchStep
  \/ \E s \in Sends : Advance(s) \/ Capture(s) \/ LoadFails(s)
  \/ \E s \in Sends, i \in Items : Import(s, i)
  \/ \E i \in Items : EditOutside(i)
  \/ RemoveOutside

WsSpec == WsInit /\ [][WsNext]_wsVars

(***************************************************************************)
(* Properties                                                              *)
(***************************************************************************)
UpdateType == [item : Items, version : Nat, tab : Tabs \cup {None},
               send : Sends \cup {None}]
FetchType == [at : {"idle", "listed", "answered"}, list : Lists, token : Nat,
              mixed : BOOLEAN]
FlightType == [at : {"idle", "sent", "writing", "written", "answered"},
               update : UpdateType, list : Lists, token : Nat, mixed : BOOLEAN]

StoreTyped ==
  /\ memory \in Lists /\ file \in Lists /\ stamp \in Nat
  /\ writes \in Nat /\ acts \in Nat
  /\ known \subseteq Items \X Nat
SavesTyped ==
  /\ cache \in [list : Lists, token : Nat] /\ fetch \in FetchType
  /\ queue \in Seq(UpdateType) /\ flight \in FlightType
  /\ mixed \in BOOLEAN /\ raced \in BOOLEAN /\ blind \in BOOLEAN
TabsTyped ==
  /\ node \in [Tabs -> Requests \cup {None}] /\ draft \in [Tabs -> Nat]
  /\ dirty \in [Tabs -> BOOLEAN] /\ preview \in [Tabs -> BOOLEAN]
  /\ sending \in [Tabs -> BOOLEAN] /\ outrun \in [Tabs -> BOOLEAN]
  /\ active = None \/ (active \in Tabs /\ Open(active))
SendsTyped ==
  /\ phase \in [Sends -> {"idle", "saving", "ready", "posted", "loading",
                         "calling", "storing", "answered"}]
  /\ origin \in [Sends -> Tabs \cup {None}] /\ isRun \in [Sends -> BOOLEAN]
  /\ base \in [Sends -> Lists]
  /\ stream \in [Sends -> {"none", "open", "aborted"}]
  /\ current \in Sends \cup {None}
  /\ shown \in [run : Sends \cup {None},
               status : {"idle", "running", "done", "aborted", "error"}]

\* The types, and that the editor on screen is an open tab's.
WsTypeOK == StoreTyped /\ SavesTyped /\ TabsTyped /\ SendsTyped

\* A save that the sidecar has accepted differs from the file in the item it is
\* a save of and in nothing else: a whole-store PUT undoes nobody's work
\* (useUpdateCollections).  There are three exceptions: a list that came with
\* another list's stamp or with none (mixed: the GET reads the list before and
\* the stamp after it waits for the linked roots, and the list is the one in
\* memory), a save accepted without a comparison because the page or the file
\* had no token (blind), and a write to the file after the comparison (raced).
SaveKeepsOthers ==
  flight.at = "writing" /\ ~flight.mixed /\ ~blind /\ ~raced =>
    \A i \in Items \ {flight.update.item} : flight.list[i] = file[i]

\* What the token is there for (CollectionRepository.cs:61): no accepted save
\* undoes a change that the page has not seen.  The code does not keep it, for
\* each of the three reasons that SaveKeepsOthers excepts.
NoSaveUndoes ==
  flight.at = "writing" =>
    \A i \in Items \ {flight.update.item} : flight.list[i] = file[i]

\* A tab without the mark of unsaved changes shows a text that the sidecar has
\* or had, so that closing it without a question loses nothing (closeTab).
\* Excepted is a tab whose mark was taken off by a save that did not have its
\* text: it was edited in the meantime, or its request was not in the list
\* (outrun).
CleanMeansStored ==
  \A t \in Tabs :
    Open(t) /\ ~dirty[t] /\ ~outrun[t] => <<node[t], draft[t]>> \in known

\* A tab that says it is sending has a send or a run that will take that back:
\* one of its own, whichever tab is on screen and whatever run came after.
Clearing(s) ==
  \/ phase[s] = "ready"
  \/ IF isRun[s] THEN stream[s] # "none"
     ELSE phase[s] \in {"posted", "loading", "calling", "storing", "answered"}
SendingExplained ==
  \A t \in Tabs : sending[t] => \E s \in Sends : origin[s] = t /\ Clearing(s)

\* One run at a time: a stream that has not been aborted belongs to the run in
\* the drawer, and a drawer that says "running" has a run that will end it.
OneRunShown ==
  /\ \A s \in Sends : stream[s] = "open" => current = s
  /\ shown.status = "running" => current # None
  /\ current # None => shown = Drawer(current, "running")
                       /\ stream[current] # "none"

=============================================================================
