--------------------------- MODULE SharedClients ---------------------------
(***************************************************************************)
(* What a cache of shared clients promises, whatever its threads do: a key *)
(* has one client at a time, a client is shared only while it is the one   *)
(* of its key, and a client that was taken out of use is disposed at most  *)
(* once and never while it is still handed out to new callers.             *)
(***************************************************************************)
CONSTANTS Keys, Clients, NoClient

VARIABLES
    current, \* the client each key is served with
    phase    \* "new", "live", "retired", "disposed" or "gone" (never built)

Init ==
    /\ current = [k \in Keys |-> NoClient]
    /\ phase = [c \in Clients |-> "new"]

\* The first caller that misses starts a client for everybody.
Install(k, c) ==
    /\ current[k] = NoClient /\ phase[c] = "new"
    /\ current' = [current EXCEPT ![k] = c]
    /\ phase' = [phase EXCEPT ![c] = "live"]

\* Eviction: the key is free for a new client, this one is on its way out.
Retire(k) ==
    /\ current[k] # NoClient
    /\ current' = [current EXCEPT ![k] = NoClient]
    /\ phase' = [phase EXCEPT ![current[k]] = "retired"]

\* It could not be built: nothing is left of it, and of nothing else.
Fail(c) ==
    /\ phase[c] \in {"live", "retired"}
    /\ current' = [k \in Keys |-> IF current[k] = c THEN NoClient ELSE current[k]]
    /\ phase' = [phase EXCEPT ![c] = "gone"]

Dispose(c) ==
    /\ phase[c] = "retired"
    /\ phase' = [phase EXCEPT ![c] = "disposed"]
    /\ UNCHANGED current

Next ==
    \/ \E k \in Keys : Retire(k) \/ \E c \in Clients : Install(k, c)
    \/ \E c \in Clients : Fail(c) \/ Dispose(c)

Spec == Init /\ [][Next]_<<current, phase>>
=============================================================================
