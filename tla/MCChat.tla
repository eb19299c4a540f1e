-------------------------------- MODULE MCChat --------------------------------
(***************************************************************************)
(* The two shared parts of the chat server, each with its own callers: the *)
(* handlers of the connections, and the storage they push to.  A behaviour *)
(* is one of one part.                                                     *)
(***************************************************************************)
EXTENDS MessageStorage, ChatServer

CONSTANTS c1, c2, p1, p2, p3, MaxPushes, MaxEvents

VARIABLE part

\* One text of a byte and one of two: a short one leaves a tail in the buffer.
Long == <<2, 3>>
Short == <<1>>
MCTexts == {Long, Short}

\* Who says what, at most once.
Speech == [c \in Conns |-> IF c = c1 THEN {Long} ELSE {Short}]

SaysItsOwn == \A c \in Conns : \A i \in DOMAIN wire[c] : wire[c][i] \in Speech[c]

\* Texts and ends of connections, together: both speak and one ends, or one
\* speaks and both end.
Events == Cardinality({c \in Conns : spoken[c] > 0})
          + Cardinality({c \in Conns : sock[c] \in {"closed", "reset"}})

\* The exploration of the storage ends after MaxPushes finished calls.
Bounded == Len(pushed) + Cardinality({p \in Pushers : step[p] # "idle"}) <= MaxPushes
-----------------------------------------------------------------------------
MCInit == /\ part \in {"server", "storage"}
          /\ StorageInit /\ Init
          \* One initial state for the server.
          /\ part = "server" => \A p, q \in Pushers : msg[p] = msg[q] /\ msg[p] = 1

MCNext == /\ UNCHANGED part
          /\ \/ part = "server" /\ Next /\ UNCHANGED storageVars
                /\ SaysItsOwn' /\ Events' <= MaxEvents
             \/ part = "storage" /\ StorageNext /\ Bounded' /\ UNCHANGED vars

MCFairness == \A c \in Conns : WF_vars(part = "server" /\ Handler(c))

MCSpec == MCInit /\ [][MCNext]_<<part, vars, storageVars>> /\ MCFairness
=============================================================================
