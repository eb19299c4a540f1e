----------------------------- MODULE ChatServer -----------------------------
(***************************************************************************)
(* Chat/Socket/Service/SocketServer.cs: one handler per connection,        *)
(*   HandleConnectedSocketAsync = HandShakeAsync; ListenAsync; unregister, *)
(* started without await by the accept loop and resumed on pool threads.   *)
(* The handlers share the dictionary of registered sockets, one receive    *)
(* _buffer and the MessageStorage, to which they Push in three steps: test *)
(* Count, TryPop, Push.  What the storage promises its callers is module   *)
(* MessageStorage's; here it is what a newcomer is greeted with.           *)
(*                                                                         *)
(* A send only copies into the peer's TCP buffer, and never waits for it;  *)
(* a text the client sent is received in one piece if it fits the buffer.  *)
(* Connecting, and the end of a connection, are the network's actions.     *)
(***************************************************************************)
EXTENDS Integers, Sequences, FiniteSets, SequencesExt

CONSTANTS Conns, Texts, MaxTexts, BufferLen,
          CacheSize   \* 10, the Count at which Push makes room

\* A text fits the buffer, and is never empty.
ASSUME TextsAssumption ==
  /\ BufferLen \in Nat /\ MaxTexts \in Nat
  /\ \A t \in Texts : t \in Seq(Nat) /\ Len(t) \in 1..BufferLen

VARIABLES
  sock,        \* "none", "open", "closed" by the client, or "reset"
  wire,        \* texts sent by the client and not yet received
  spoken,      \* number of texts the client has sent
  registered,  \* _connectedSockets
  pc,          \* where the connection's handler is
  buffer,      \* _buffer
  bytesRec,    \* per handler
  line,        \* the message the handler is sending to all
  todo,        \* connections its SendToAll has yet to visit
  failed,      \* whether a send of this round has failed
  inbox,       \* messages written to each open connection, without the cached ones
  received,    \* history: the text that the last receive of a handler brought
  overwritten, \* history: another receive completed before it was decoded
  silenced,    \* history: zombies when the round started
  storage,     \* _storage.Messages, the newest last
  givenUp,     \* history: messages that Push popped, or refused
  cached       \* history: the messages a newcomer was greeted with

clientVars  == <<sock, wire, spoken>>
roundVars   == <<line, todo, failed, silenced>>
cacheVars   == <<storage, givenUp, cached>>
receiveVars == <<buffer, bytesRec, received, overwritten>>
vars == <<clientVars, registered, pc, receiveVars, roundVars, inbox, cacheVars>>

(* A stored message: its sender and the round that sent it.                *)
StoredMessages == [from: Conns, round: Nat]
Message(c) == [from |-> c, round |-> line[c].round]

Lines == [from: Conns, kind: {"none", "joined", "said", "left"},
          text: Seq(Nat), round: Nat]

TypeOK ==
  /\ sock \in [Conns -> {"none", "open", "closed", "reset"}]
  /\ wire \in [Conns -> Seq(Texts)]
  /\ spoken \in [Conns -> 0..MaxTexts]
  /\ registered \subseteq {c \in Conns : pc[c] \notin {"none", "done"}}
  /\ pc \in [Conns -> {"none", "greet", "send", "pop", "put", "receive", "decode",
                       "unregister", "done", "dead"}]
  /\ buffer \in [1..BufferLen -> Nat]
  /\ bytesRec \in [Conns -> 0..BufferLen]
  /\ line \in [Conns -> Lines]
  /\ todo \in [Conns -> SUBSET Conns]
  /\ \A c \in Conns : c \notin todo[c] /\ (pc[c] # "send" => todo[c] = {})
  /\ failed \in [Conns -> BOOLEAN]
  /\ inbox \in [Conns -> Seq(Lines)]
  /\ received \in [Conns -> Seq(Nat)] /\ overwritten \in [Conns -> BOOLEAN]
  /\ silenced \in [Conns -> SUBSET Conns]
  /\ storage \in Seq(StoredMessages) /\ givenUp \subseteq StoredMessages
  /\ cached \in [Conns -> SUBSET StoredMessages]

Init ==
  /\ sock = [c \in Conns |-> "none"] /\ wire = [c \in Conns |-> << >>]
  /\ spoken = [c \in Conns |-> 0]
  /\ registered = {} /\ pc = [c \in Conns |-> "none"]
  /\ buffer = [i \in 1..BufferLen |-> 0]
  /\ bytesRec = [c \in Conns |-> 0]
  /\ line = [c \in Conns |-> [from |-> c, kind |-> "none", text |-> << >>, round |-> 0]]
  /\ todo = [c \in Conns |-> {}] /\ failed = [c \in Conns |-> FALSE]
  /\ inbox = [c \in Conns |-> << >>]
  /\ received = [c \in Conns |-> << >>] /\ overwritten = [c \in Conns |-> FALSE]
  /\ silenced = [c \in Conns |-> {}]
  /\ storage = << >> /\ givenUp = {}
  /\ cached = [c \in Conns |-> {}]
-----------------------------------------------------------------------------
(* External: SocketClient.StartAsync connects, SendAsync sends a text, and *)
(* StopAsync shuts the socket down; a client that is killed, or that does  *)
(* not read what was sent after it closed, has the connection reset.       *)

Connect(c) ==
  /\ sock[c] = "none"
  /\ sock' = [sock EXCEPT ![c] = "open"]
  /\ UNCHANGED <<wire, spoken, registered, pc, receiveVars, roundVars, inbox, cacheVars>>

ClientSend(c, text) ==
  /\ sock[c] = "open" /\ spoken[c] < MaxTexts
  /\ wire' = [wire EXCEPT ![c] = Append(@, text)]
  /\ spoken' = [spoken EXCEPT ![c] = @ + 1]
  /\ UNCHANGED <<sock, registered, pc, receiveVars, roundVars, inbox, cacheVars>>

ClientStop(c) ==
  /\ sock[c] = "open"
  /\ sock' = [sock EXCEPT ![c] = "closed"]
  /\ UNCHANGED <<wire, spoken, registered, pc, receiveVars, roundVars, inbox, cacheVars>>

Reset(c) ==
  /\ sock[c] \in {"open", "closed"} /\ pc[c] # "none"
  /\ sock' = [sock EXCEPT ![c] = "reset"]
  /\ wire' = [wire EXCEPT ![c] = << >>]
  /\ UNCHANGED <<spoken, registered, pc, receiveVars, roundVars, inbox, cacheVars>>
-----------------------------------------------------------------------------
(* A registered connection whose handler can no longer unregister it.      *)
Zombies == {c \in registered : sock[c] = "reset" /\ pc[c] = "dead"}

(* The start of SendToAll(text, c): the registered connections but c.      *)
StartRound(c, kind, text, targets, fails) ==
  /\ line' = [line EXCEPT ![c] = [from |-> c, kind |-> kind, text |-> text,
                                  round |-> @.round + 1]]
  /\ todo' = [todo EXCEPT ![c] = targets \ {c}]
  /\ failed' = [failed EXCEPT ![c] = fails]
  /\ silenced' = [silenced EXCEPT ![c] = Zombies]

(* The accept loop goes on when the last handler first awaits: after the   *)
(* sends of its handshake have been started.                               *)
Accepting == \A c \in Conns : /\ pc[c] # "greet"
                              /\ ~(pc[c] = "send" /\ line[c].kind = "joined")

(* await AcceptAsync(); _connectedSockets[clientId] = newClient.  A        *)
(* SendToAll that is enumerating the dictionary may or may not see it.     *)
Accept(c) ==
  /\ pc[c] = "none" /\ sock[c] # "none" /\ Accepting
  /\ registered' = registered \cup {c}
  /\ pc' = [pc EXCEPT ![c] = "greet"]
  /\ \E sees \in SUBSET {q \in Conns : pc[q] = "send"} :
       todo' = [q \in Conns |-> IF q \in sees THEN todo[q] \cup {c} ELSE todo[q]]
  /\ UNCHANGED <<clientVars, receiveVars, line, failed, silenced, inbox, cacheVars>>

(* HandShakeAsync: what the storage holds goes to the newcomer, the news of*)
(* it to all others.                                                       *)
HandShake(c) ==
  /\ pc[c] = "greet"
  /\ StartRound(c, "joined", << >>, registered, sock[c] = "reset")
  /\ pc' = [pc EXCEPT ![c] = "send"]
  /\ cached' = [cached EXCEPT ![c] = ToSet(storage)]
  /\ UNCHANGED <<clientVars, registered, receiveVars, inbox, storage, givenUp>>

(* Mutant: only connections that have been greeted are sent to.            *)
VisitGreeted(c, r) ==
  /\ pc[c] = "send" /\ r \in todo[c]
  /\ todo' = [todo EXCEPT ![c] = @ \ {r}]
  /\ failed' = [failed EXCEPT ![c] = @ \/ (r \in registered /\ sock[r] = "reset")]
  /\ inbox' = IF /\ r \in registered /\ sock[r] = "open"
                /\ pc[r] # "greet" /\ ~(pc[r] = "send" /\ line[r].kind = "joined")
              THEN [inbox EXCEPT ![r] = Append(@, line[c])] ELSE inbox
  /\ UNCHANGED <<clientVars, registered, pc, receiveVars, line, silenced, cacheVars>>

(* One iteration of SendToAll: TryGetValue misses a socket that has been   *)
(* removed; a failed send is kept in its task.                             *)
Visit(c, r) ==
  /\ pc[c] = "send" /\ r \in todo[c]
  /\ todo' = [todo EXCEPT ![c] = @ \ {r}]
  /\ failed' = [failed EXCEPT ![c] = @ \/ (r \in registered /\ sock[r] = "reset")]
  /\ inbox' = IF r \in registered /\ sock[r] = "open"
              THEN [inbox EXCEPT ![r] = Append(@, line[c])] ELSE inbox
  /\ UNCHANGED <<clientVars, registered, pc, receiveVars, line, silenced, cacheVars>>

(* _storage.Push(msg) begins with: if (Messages.Count == 10).              *)
FirstOfPush == IF Len(storage) = CacheSize THEN "pop" ELSE "put"

(* Mutant: the sends are not awaited.                                      *)
SendsNotAwaited(c) ==
  /\ pc[c] = "send"
  /\ pc' = [pc EXCEPT ![c] = IF line[c].kind = "left" THEN "done" ELSE FirstOfPush]
  /\ received' = [received EXCEPT ![c] = << >>]
  /\ overwritten' = [overwritten EXCEPT ![c] = FALSE]
  /\ UNCHANGED <<clientVars, registered, buffer, bytesRec, roundVars, inbox, cacheVars>>

(* Mutant: failed sends are ignored.                                       *)
SendsDoneAnyway(c) ==
  /\ pc[c] = "send" /\ todo[c] = {}
  /\ pc' = [pc EXCEPT ![c] = IF line[c].kind = "left" THEN "done" ELSE FirstOfPush]
  /\ received' = [received EXCEPT ![c] = << >>]
  /\ overwritten' = [overwritten EXCEPT ![c] = FALSE]
  /\ UNCHANGED <<clientVars, registered, buffer, bytesRec, roundVars, inbox, cacheVars>>

(* await Task.WhenAll(tasks): if one failed the handler ends there, and    *)
(* nothing has a finally.  One that goes on has nothing to do before Push  *)
(* reads the Count.                                                        *)
SendsDone(c) ==
  /\ pc[c] = "send" /\ todo[c] = {}
  /\ pc' = [pc EXCEPT ![c] = IF failed[c] THEN "dead"
                             ELSE IF line[c].kind = "left" THEN "done" ELSE FirstOfPush]
  /\ received' = [received EXCEPT ![c] = << >>]
  /\ overwritten' = [overwritten EXCEPT ![c] = FALSE]
  /\ UNCHANGED <<clientVars, registered, buffer, bytesRec, roundVars, inbox, cacheVars>>

(* What follows _storage.Push in HandShakeAsync and in ListenAsync's loop. *)
AfterPush(c) == IF line[c].kind = "said" /\ bytesRec[c] = 0
                THEN "unregister" ELSE "receive"

(* Push is over: the handler goes on, its locals go out of scope.          *)
Pushed(c) ==
  /\ pc' = [pc EXCEPT ![c] = AfterPush(c)]
  /\ bytesRec' = [bytesRec EXCEPT ![c] = 0]
  /\ line' = [line EXCEPT ![c].text = << >>]
  /\ UNCHANGED <<clientVars, registered, buffer, received, overwritten, todo,
                 failed, silenced, inbox, cached>>

(* TryPop gives up the newest message, ...                                 *)
Pop(c) ==
  /\ pc[c] = "pop" /\ storage # << >>
  /\ storage' = Front(storage)
  /\ givenUp' = givenUp \cup {Last(storage)}
  /\ pc' = [pc EXCEPT ![c] = "put"]
  /\ UNCHANGED <<clientVars, registered, receiveVars, roundVars, inbox, cached>>

(* ... or finds none: Push returns false, which nobody looks at.           *)
Refuse(c) ==
  /\ pc[c] = "pop" /\ storage = << >>
  /\ givenUp' = givenUp \cup {Message(c)}
  /\ Pushed(c)
  /\ UNCHANGED storage

MakeRoom(c) == IF storage # << >> THEN Pop(c) ELSE Refuse(c)

(* Messages.Push(msg)                                                      *)
Put(c) ==
  /\ pc[c] = "put"
  /\ storage' = Append(storage, Message(c))
  /\ Pushed(c)
  /\ UNCHANGED givenUp

(* ReceiveAsync completes: the bytes are in _buffer before the handler     *)
(* runs again.  No bytes mean the client has closed.                       *)
Receive(c) ==
  /\ pc[c] = "receive" /\ sock[c] # "reset"
  /\ \/ /\ wire[c] # << >>
        /\ wire' = [wire EXCEPT ![c] = Tail(@)]
        /\ received' = [received EXCEPT ![c] = Head(wire[c])]
        /\ bytesRec' = [bytesRec EXCEPT ![c] = Len(Head(wire[c]))]
        /\ buffer' = [i \in 1..BufferLen |->
                        IF i <= bytesRec'[c] THEN Head(wire[c])[i] ELSE buffer[i]]
        /\ overwritten' = [q \in Conns |-> q # c /\ (overwritten[q] \/ pc[q] = "decode")]
     \/ /\ wire[c] = << >> /\ sock[c] = "closed"
        /\ received' = [received EXCEPT ![c] = << >>]
        /\ bytesRec' = [bytesRec EXCEPT ![c] = 0]
        /\ overwritten' = [overwritten EXCEPT ![c] = FALSE]
        /\ UNCHANGED <<wire, buffer>>
  /\ pc' = [pc EXCEPT ![c] = "decode"]
  /\ UNCHANGED <<sock, spoken, registered, roundVars, inbox, cacheVars>>

ReceiveFails(c) ==
  /\ pc[c] = "receive" /\ sock[c] = "reset"
  /\ pc' = [pc EXCEPT ![c] = "dead"]
  /\ UNCHANGED <<clientVars, registered, receiveVars, roundVars, inbox, cacheVars>>

(* Mutant: the whole buffer is decoded.                                    *)
DecodeWhole(c) ==
  /\ pc[c] = "decode"
  /\ StartRound(c, "said", buffer, registered, FALSE)
  /\ pc' = [pc EXCEPT ![c] = "send"]
  /\ UNCHANGED <<clientVars, registered, receiveVars, inbox, cacheVars>>

(* GetString(_buffer, bytesRec), then NotifyOnMsgReceived.                 *)
Decode(c) ==
  /\ pc[c] = "decode"
  /\ StartRound(c, "said", SubSeq(buffer, 1, bytesRec[c]), registered, FALSE)
  /\ pc' = [pc EXCEPT ![c] = "send"]
  /\ UNCHANGED <<clientVars, registered, receiveVars, inbox, cacheVars>>

(* Mutant: TryRemove is given another key.                                 *)
UnregisterOther(c) ==
  /\ pc[c] = "unregister"
  /\ UNCHANGED registered
  /\ StartRound(c, "left", << >>, registered, FALSE)
  /\ pc' = [pc EXCEPT ![c] = "send"]
  /\ UNCHANGED <<clientVars, receiveVars, inbox, cacheVars>>

(* TryRemove(clientId), then NotifyOnMsgReceived.                          *)
Unregister(c) ==
  /\ pc[c] = "unregister"
  /\ registered' = registered \ {c}
  /\ StartRound(c, "left", << >>, registered', FALSE)
  /\ pc' = [pc EXCEPT ![c] = "send"]
  /\ UNCHANGED <<clientVars, receiveVars, inbox, cacheVars>>

Handler(c) ==
  \/ Accept(c) \/ HandShake(c) \/ (\E r \in Conns : Visit(c, r)) \/ SendsDone(c)
  \/ MakeRoom(c) \/ Put(c) \/ Receive(c) \/ ReceiveFails(c) \/ Decode(c) \/ Unregister(c)

Client(c) == \/ Connect(c) \/ ClientStop(c) \/ Reset(c)
             \/ \E text \in Texts : ClientSend(c, text)

Next == \E c \in Conns : Handler(c) \/ Client(c)

Spec == Init /\ [][Next]_vars /\ \A c \in Conns : WF_vars(Handler(c))
-----------------------------------------------------------------------------
(* A connection hears every round of another one, in order and once, from  *)
(* the first it hears on: news, texts and farewell are never skipped.      *)
Heard(r, c) == {i \in DOMAIN inbox[r] : inbox[r][i].from = c}
RoundsContiguous ==
  \A r, c \in Conns : \A i, j \in Heard(r, c) :
    i < j /\ (\A k \in Heard(r, c) : k <= i \/ j <= k) =>
      inbox[r][j].round = inbox[r][i].round + 1

(* The messages of c before its n-th that r, when greeted, was not sent, and*)
(* that the storage had not given up.                                       *)
Missed(r, c, n) == {k \in 1..n - 1 :
                      [from |-> c, round |-> k] \notin cached[r] \cup givenUp}

(* Between the cached messages a newcomer is greeted with and the first it *)
(* hears of another connection at most one of that connection slips        *)
(* through, the one that was being sent and not yet stored when it was     *)
(* greeted; all others it lacks are those the full storage gave up.        *)
NewcomerMissesAtMostOne ==
  \A r, c \in Conns : \A i \in Heard(r, c) :
    (\A k \in Heard(r, c) : i <= k) /\ line[r].round > 0 =>
      Missed(r, c, inbox[r][i].round) \subseteq {inbox[r][i].round - 1}

(* The text a handler broadcasts is the one its client sent, unless        *)
(* another receive completed before it was decoded: they share _buffer.    *)
TextsIntact ==
  \A c \in Conns : pc[c] = "send" /\ line[c].kind = "said" /\ ~overwritten[c] =>
    line[c].text = received[c]

(* A zombie silences the server: no round started while there was one is   *)
(* ever stored or followed by another, every sender ends as it did.        *)
ZombieSilences ==
  \A c \in Conns : silenced[c] # {} => pc[c] \in {"send", "dead"}

(* A connection its client closed is unregistered in the end, unless a     *)
(* reset connection has ended handlers.                                    *)
ClosedIsForgotten ==
  \A c \in Conns : sock[c] = "closed" ~> (\/ pc[c] # "none" /\ c \notin registered
                                          \/ \E z \in Conns : sock[z] = "reset")
=============================================================================
