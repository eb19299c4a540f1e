-------------------------- MODULE ChatServerProofs --------------------------
(***************************************************************************)
(* Proofs about ChatServer for any connections, texts and buffer: the type *)
(* invariant, and the four invariants that the run of MCChat checks.       *)
(***************************************************************************)
EXTENDS ChatServer, SequenceTheorems, TLAPS

(* Before its news a connection has neither sent nor failed, and nothing   *)
(* was sent to it before it was accepted; a farewell is sent by one that is*)
(* no longer registered.                                                   *)
PhasesOK ==
  \A c \in Conns :
    /\ line[c].from = c
    /\ line[c].round = 0 <=> pc[c] \in {"none", "greet"}
    /\ failed[c] => pc[c] \in {"send", "dead"}
    /\ pc[c] = "none" => inbox[c] = << >>
    /\ sock[c] = "none" => pc[c] = "none"
    /\ pc[c] = "send" /\ line[c].kind = "left" => c \notin registered

(* What a handler is about to decode is what it received, unless another   *)
(* receive came between.                                                   *)
DecodedOK ==
  \A c \in Conns : pc[c] = "decode" /\ ~overwritten[c] =>
    SubSeq(buffer, 1, bytesRec[c]) = received[c]

(* Zombies stay zombies, and a round that started beside one has failed or *)
(* is still to visit it.                                                   *)
ZombiesOK ==
  \A c \in Conns : /\ silenced[c] \subseteq Zombies
                   /\ pc[c] = "send" => failed[c] \/ silenced[c] \subseteq todo[c]

(* Nobody hears itself, or a round that has not started.                   *)
HeardOK ==
  \A r, c \in Conns : \A i \in Heard(r, c) :
    r # c /\ inbox[r][i].round <= line[c].round

(* The rounds of c whose message has been given to the storage, which has  *)
(* it or has given it up.                                                  *)
PushedRounds(c) == IF pc[c] \in {"send", "pop", "put", "done"} \/ failed[c]
                   THEN line[c].round - 1 ELSE line[c].round

PushedOK ==
  \A c \in Conns : \A k \in 1..PushedRounds(c) :
    [from |-> c, round |-> k] \in ToSet(storage) \cup givenUp

(* The round of c that r, which can hear it, is to hear next.              *)
Upcoming(r, c) == IF r \in todo[c] THEN line[c].round ELSE line[c].round + 1

Hears(r) == r \in registered /\ sock[r] = "open"

LastHeard ==
  \A r, c \in Conns : \A i \in Heard(r, c) :
    Hears(r) /\ (\A k \in Heard(r, c) : k <= i) =>
      Upcoming(r, c) = inbox[r][i].round + 1

(* One that was greeted, and has heard nothing of c yet, is in time for the*)
(* next round.                                                             *)
FirstToHear ==
  \A r, c \in Conns :
    Hears(r) /\ r # c /\ Heard(r, c) = {} /\ line[r].round > 0 =>
      Missed(r, c, Upcoming(r, c)) \subseteq {Upcoming(r, c) - 1}
-----------------------------------------------------------------------------
(* Type correctness.  The round of a connection is typed together with its *)
(* phase: a stored round is counted from one.                              *)

BaseInv == TypeOK /\ PhasesOK

CacheOK == /\ storage \in Seq(StoredMessages) /\ givenUp \subseteq StoredMessages
           /\ cached \in [Conns -> SUBSET StoredMessages]

(* What the start of a round does to the four variables of a round.        *)
LEMMA StartRoundValues ==
  ASSUME BaseInv, NEW c \in Conns, NEW kind, NEW text, NEW targets, NEW fails,
         StartRound(c, kind, text, targets, fails)
  PROVE  /\ line'[c] = [from |-> c, kind |-> kind, text |-> text,
                        round |-> line[c].round + 1]
         /\ todo'[c] = targets \ {c}
         /\ silenced'[c] = Zombies
         /\ \A q \in Conns \ {c} :
              /\ line'[q] = line[q] /\ todo'[q] = todo[q]
              /\ failed'[q] = failed[q] /\ silenced'[q] = silenced[q]
BY DEF StartRound, BaseInv, TypeOK

LEMMA StartRoundType ==
  ASSUME BaseInv, NEW c \in Conns,
         NEW kind \in {"joined", "said", "left"}, NEW text \in Seq(Nat),
         NEW targets \in SUBSET Conns, NEW fails \in BOOLEAN,
         StartRound(c, kind, text, targets, fails)
  PROVE  /\ line' \in [Conns -> Lines] /\ todo' \in [Conns -> SUBSET Conns]
         /\ failed' \in [Conns -> BOOLEAN] /\ silenced' \in [Conns -> SUBSET Conns]
<1>1. line \in [Conns -> Lines] /\ registered \subseteq Conns BY DEF BaseInv, TypeOK
<1>2. line[c].round + 1 \in Nat BY <1>1 DEF Lines
<1>3. [from |-> c, kind |-> kind, text |-> text, round |-> line[c].round + 1] \in Lines
  BY <1>2 DEF Lines
<1>4. Zombies \subseteq Conns BY <1>1 DEF Zombies
<1>5. line' \in [Conns -> Lines] BY <1>1, <1>3 DEF StartRound
<1> QED BY <1>4, <1>5 DEF StartRound, BaseInv, TypeOK

(* The handler that starts a round goes from one phase after its news, or  *)
(* from the greeting, to the sends.                                        *)
LEMMA StartRoundBase ==
  ASSUME BaseInv, NEW c \in Conns, pc[c] # "send", pc[c] # "none",
         NEW kind \in {"joined", "said", "left"}, NEW text \in Seq(Nat),
         NEW targets \in SUBSET Conns, NEW fails \in BOOLEAN,
         StartRound(c, kind, text, targets, fails),
         pc' = [pc EXCEPT ![c] = "send"],
         registered' \subseteq registered, kind = "left" => c \notin registered',
         CacheOK',
         UNCHANGED <<clientVars, receiveVars, inbox>>
  PROVE  BaseInv'
<1> DEFINE new == [from |-> c, kind |-> kind, text |-> text, round |-> line[c].round + 1]
<1>1. /\ line' \in [Conns -> Lines] /\ todo' \in [Conns -> SUBSET Conns]
      /\ failed' \in [Conns -> BOOLEAN] /\ silenced' \in [Conns -> SUBSET Conns]
  BY StartRoundType
<1>2. /\ line'[c] = new /\ todo'[c] = targets \ {c}
      /\ \A q \in Conns \ {c} : /\ line'[q] = line[q] /\ todo'[q] = todo[q]
                                /\ failed'[q] = failed[q]
  BY StartRoundValues
<1>3. line[c].round \in Nat BY DEF BaseInv, TypeOK, Lines
<1>4. /\ pc' \in [Conns -> {"none", "greet", "send", "pop", "put", "receive", "decode",
                            "unregister", "done", "dead"}]
      /\ pc'[c] = "send"
      /\ \A q \in Conns \ {c} : pc'[q] = pc[q]
  BY DEF BaseInv, TypeOK
<1>5. TypeOK'
  <2>1. registered' \subseteq {q \in Conns : pc'[q] \notin {"none", "done"}}
    BY <1>4 DEF BaseInv, TypeOK
  <2>2. \A q \in Conns : q \notin todo'[q] /\ (pc'[q] # "send" => todo'[q] = {})
    BY <1>2, <1>4 DEF BaseInv, TypeOK
  <2> QED
    BY <1>1, <1>2, <1>4, <2>1, <2>2
    DEF BaseInv, TypeOK, CacheOK, clientVars, receiveVars
<1>6. PhasesOK'
  <2> SUFFICES ASSUME NEW q \in Conns
        PROVE /\ line'[q].from = q
              /\ line'[q].round = 0 <=> pc'[q] \in {"none", "greet"}
              /\ failed'[q] => pc'[q] \in {"send", "dead"}
              /\ pc'[q] = "none" => inbox'[q] = << >>
              /\ sock'[q] = "none" => pc'[q] = "none"
              /\ pc'[q] = "send" /\ line'[q].kind = "left" => q \notin registered'
    BY DEF PhasesOK
  <2>1. CASE q = c
    <3>1. line'[q].from = q /\ line'[q].kind = kind /\ line'[q].round = line[c].round + 1
      BY <1>2, <2>1
    <3>2. sock'[q] = sock[q] BY DEF clientVars
    <3> QED BY <1>3, <1>4, <2>1, <3>1, <3>2 DEF BaseInv, PhasesOK
  <2>2. CASE q # c
    <3>1. /\ line'[q] = line[q] /\ pc'[q] = pc[q] /\ failed'[q] = failed[q]
          /\ inbox'[q] = inbox[q] /\ sock'[q] = sock[q]
      BY <1>1, <1>2, <1>4, <2>2 DEF clientVars
    <3> QED BY <3>1, ZenonT(30) DEF BaseInv, PhasesOK
  <2> QED BY <2>1, <2>2
<1> QED BY <1>5, <1>6 DEF BaseInv
-----------------------------------------------------------------------------
(* The clients' actions.                                                   *)

LEMMA ConnectBase ==
  ASSUME BaseInv, NEW c \in Conns, Connect(c)
  PROVE  BaseInv'
<1>1. /\ sock' \in [Conns -> {"none", "open", "closed", "reset"}]
      /\ sock'[c] = "open" /\ \A q \in Conns \ {c} : sock'[q] = sock[q]
  BY DEF Connect, BaseInv, TypeOK
<1>2. TypeOK' BY <1>1 DEF Connect, BaseInv, TypeOK, receiveVars, roundVars,
                               cacheVars
<1>3. PhasesOK' BY <1>1 DEF Connect, BaseInv, PhasesOK, receiveVars, roundVars
<1> QED BY <1>2, <1>3 DEF BaseInv

LEMMA ClientSendBase ==
  ASSUME BaseInv, NEW c \in Conns, NEW text \in Texts, ClientSend(c, text)
  PROVE  BaseInv'
<1>1. wire \in [Conns -> Seq(Texts)] BY DEF BaseInv, TypeOK
<1>2. Append(wire[c], text) \in Seq(Texts) BY <1>1, AppendProperties
<1>3. wire' \in [Conns -> Seq(Texts)] BY <1>1, <1>2 DEF ClientSend
<1>4. spoken' \in [Conns -> 0..MaxTexts]
  BY TextsAssumption, SMTT(20) DEF ClientSend, BaseInv, TypeOK
<1>5. TypeOK' BY <1>3, <1>4 DEF ClientSend, BaseInv, TypeOK, receiveVars, roundVars,
                               cacheVars
<1>6. PhasesOK' BY DEF ClientSend, BaseInv, PhasesOK, receiveVars, roundVars
<1> QED BY <1>5, <1>6 DEF BaseInv

LEMMA ClientStopBase ==
  ASSUME BaseInv, NEW c \in Conns, ClientStop(c)
  PROVE  BaseInv'
<1>1. /\ sock' \in [Conns -> {"none", "open", "closed", "reset"}]
      /\ sock[c] = "open" /\ \A q \in Conns \ {c} : sock'[q] = sock[q]
      /\ sock'[c] = "closed"
  BY DEF ClientStop, BaseInv, TypeOK
<1>2. TypeOK' BY <1>1 DEF ClientStop, BaseInv, TypeOK, receiveVars, roundVars,
                               cacheVars
<1>3. PhasesOK' BY <1>1 DEF ClientStop, BaseInv, PhasesOK, receiveVars, roundVars
<1> QED BY <1>2, <1>3 DEF BaseInv

LEMMA ResetBase ==
  ASSUME BaseInv, NEW c \in Conns, Reset(c)
  PROVE  BaseInv'
<1>1. /\ sock' \in [Conns -> {"none", "open", "closed", "reset"}]
      /\ sock'[c] = "reset" /\ \A q \in Conns \ {c} : sock'[q] = sock[q]
  BY DEF Reset, BaseInv, TypeOK
<1>2. wire' \in [Conns -> Seq(Texts)] BY EmptySeq DEF Reset, BaseInv, TypeOK
<1>3. TypeOK' BY <1>1, <1>2 DEF Reset, BaseInv, TypeOK, receiveVars, roundVars,
                               cacheVars
<1>4. PhasesOK' BY <1>1 DEF Reset, BaseInv, PhasesOK, receiveVars, roundVars
<1> QED BY <1>3, <1>4 DEF BaseInv
-----------------------------------------------------------------------------
(* The handlers' actions.                                                  *)

LEMMA AcceptBase ==
  ASSUME BaseInv, NEW c \in Conns, Accept(c)
  PROVE  BaseInv'
<1>1. /\ pc[c] = "none" /\ sock[c] # "none"
      /\ registered' = registered \cup {c}
      /\ pc' = [pc EXCEPT ![c] = "greet"]
      /\ UNCHANGED <<clientVars, receiveVars, line, failed, silenced, inbox, cacheVars>>
  BY DEF Accept
<1>2. PICK sees \in SUBSET {q \in Conns : pc[q] = "send"} :
        todo' = [q \in Conns |-> IF q \in sees THEN todo[q] \cup {c} ELSE todo[q]]
  BY DEF Accept
<1>3. /\ todo' \in [Conns -> SUBSET Conns]
      /\ \A q \in Conns : q \notin todo'[q] /\ (pc[q] # "send" => todo'[q] = {})
  BY <1>1, <1>2 DEF BaseInv, TypeOK
<1>4. /\ pc' \in [Conns -> {"none", "greet", "send", "pop", "put", "receive", "decode",
                            "unregister", "done", "dead"}]
      /\ pc'[c] = "greet" /\ \A q \in Conns \ {c} : pc'[q] = pc[q]
  BY <1>1 DEF BaseInv, TypeOK
<1>5. TypeOK'
  <2>1. registered' \subseteq {q \in Conns : pc'[q] \notin {"none", "done"}}
    BY <1>1, <1>4 DEF BaseInv, TypeOK
  <2>2. \A q \in Conns : q \notin todo'[q] /\ (pc'[q] # "send" => todo'[q] = {})
    BY <1>1, <1>3, <1>4
  <2> QED BY <1>1, <1>3, <1>4, <2>1, <2>2
          DEF BaseInv, TypeOK, clientVars, receiveVars, cacheVars
<1>6. PhasesOK'
  <2> SUFFICES ASSUME NEW q \in Conns
        PROVE /\ line'[q].from = q
              /\ line'[q].round = 0 <=> pc'[q] \in {"none", "greet"}
              /\ failed'[q] => pc'[q] \in {"send", "dead"}
              /\ pc'[q] = "none" => inbox'[q] = << >>
              /\ sock'[q] = "none" => pc'[q] = "none"
              /\ pc'[q] = "send" /\ line'[q].kind = "left" => q \notin registered'
    BY DEF PhasesOK
  <2>1. CASE q = c BY <1>1, <1>4, <2>1 DEF BaseInv, PhasesOK, clientVars
  <2>2. CASE q # c BY <1>1, <1>4, <2>2 DEF BaseInv, PhasesOK, clientVars
  <2> QED BY <2>1, <2>2
<1> QED BY <1>5, <1>6 DEF BaseInv

LEMMA HandShakeBase ==
  ASSUME BaseInv, NEW c \in Conns, HandShake(c)
  PROVE  BaseInv'
<1>1. ToSet(storage) \subseteq StoredMessages BY DEF BaseInv, TypeOK, ToSet
<1>2. CacheOK' BY <1>1 DEF HandShake, BaseInv, TypeOK, CacheOK
<1>3. registered \in SUBSET Conns BY DEF BaseInv, TypeOK
<1>4. << >> \in Seq(Nat) OBVIOUS
<1>5. (sock[c] = "reset") \in BOOLEAN OBVIOUS
<1> QED BY <1>2, <1>3, <1>4, <1>5, StartRoundBase DEF HandShake

LEMMA VisitBase ==
  ASSUME BaseInv, NEW c \in Conns, NEW r \in Conns, Visit(c, r)
  PROVE  BaseInv'
<1>1. /\ todo' \in [Conns -> SUBSET Conns]
      /\ \A q \in Conns : q \notin todo'[q] /\ (pc[q] # "send" => todo'[q] = {})
  BY DEF Visit, BaseInv, TypeOK
<1>2. /\ failed' \in [Conns -> BOOLEAN]
      /\ \A q \in Conns \ {c} : failed'[q] = failed[q]
  BY DEF Visit, BaseInv, TypeOK
<1>3. /\ inbox \in [Conns -> Seq(Lines)] /\ line[c] \in Lines BY DEF BaseInv, TypeOK
<1>4. Append(inbox[r], line[c]) \in Seq(Lines) BY <1>3, AppendProperties
<1>5. inbox' \in [Conns -> Seq(Lines)] BY <1>3, <1>4 DEF Visit
<1>6. \A q \in Conns : pc[q] = "none" => inbox'[q] = << >>
  BY <1>3 DEF Visit, BaseInv, TypeOK, PhasesOK
<1>7. pc[c] = "send" BY DEF Visit
<1>8. TypeOK'
  BY <1>1, <1>2, <1>5 DEF Visit, BaseInv, TypeOK, clientVars, receiveVars, cacheVars
<1>9. PhasesOK'
  <2>1. UNCHANGED <<sock, registered, pc, line>> BY DEF Visit, clientVars
  <2> QED BY <1>2, <1>6, <1>7, <2>1 DEF BaseInv, PhasesOK
<1> QED BY <1>8, <1>9 DEF BaseInv

LEMMA SendsDoneBase ==
  ASSUME BaseInv, NEW c \in Conns, SendsDone(c)
  PROVE  BaseInv'
<1> DEFINE phase == IF failed[c] THEN "dead"
                    ELSE IF line[c].kind = "left" THEN "done" ELSE FirstOfPush
<1>1. /\ pc[c] = "send" /\ todo[c] = {}
      /\ pc' = [pc EXCEPT ![c] = phase]
      /\ UNCHANGED <<clientVars, registered, buffer, bytesRec, roundVars, inbox, cacheVars>>
  BY DEF SendsDone
<1>2. phase \in {"dead", "done", "pop", "put"} BY DEF FirstOfPush
<1>3. /\ phase = "done" => c \notin registered
      /\ failed[c] => phase = "dead"
  BY <1>1 DEF FirstOfPush, BaseInv, PhasesOK
<1> HIDE DEF phase
<1>4. /\ pc' \in [Conns -> {"none", "greet", "send", "pop", "put", "receive", "decode",
                            "unregister", "done", "dead"}]
      /\ pc'[c] = phase /\ \A q \in Conns \ {c} : pc'[q] = pc[q]
  BY <1>1, <1>2 DEF BaseInv, TypeOK
<1>5. /\ received' \in [Conns -> Seq(Nat)] /\ overwritten' \in [Conns -> BOOLEAN]
  BY EmptySeq DEF SendsDone, BaseInv, TypeOK
<1>6. TypeOK'
  <2>1. registered' \subseteq {q \in Conns : pc'[q] \notin {"none", "done"}}
    BY <1>1, <1>2, <1>3, <1>4 DEF BaseInv, TypeOK
  <2>2. \A q \in Conns : q \notin todo'[q] /\ (pc'[q] # "send" => todo'[q] = {})
    BY <1>1, <1>4 DEF BaseInv, TypeOK, roundVars
  <2> QED BY <1>1, <1>4, <1>5, <2>1, <2>2
          DEF BaseInv, TypeOK, clientVars, roundVars, cacheVars
<1>7. PhasesOK'
  BY <1>1, <1>2, <1>3, <1>4 DEF BaseInv, PhasesOK, clientVars, roundVars
<1> QED BY <1>6, <1>7 DEF BaseInv

(* The end of a Push, however it came to it.                               *)
LEMMA PushedBase ==
  ASSUME BaseInv, NEW c \in Conns, pc[c] \in {"pop", "put"}, Pushed(c), CacheOK'
  PROVE  /\ BaseInv'
         /\ \A q \in Conns : line'[q].round = line[q].round
         /\ \A q \in Conns \ {c} : line'[q] = line[q]
<1>1. /\ pc[c] \in {"pop", "put"}
      /\ pc' = [pc EXCEPT ![c] = AfterPush(c)]
      /\ bytesRec' = [bytesRec EXCEPT ![c] = 0]
      /\ line' = [line EXCEPT ![c] = [@ EXCEPT !.text = << >>]]
      /\ UNCHANGED <<clientVars, registered, buffer, received, overwritten, todo,
                     failed, silenced, inbox, cached>>
  BY DEF Pushed
<1>2. AfterPush(c) \in {"unregister", "receive"} BY DEF AfterPush
<1>3. /\ pc' \in [Conns -> {"none", "greet", "send", "pop", "put", "receive", "decode",
                            "unregister", "done", "dead"}]
      /\ pc'[c] = AfterPush(c) /\ \A q \in Conns \ {c} : pc'[q] = pc[q]
  BY <1>1, <1>2 DEF BaseInv, TypeOK
<1>4. bytesRec' \in [Conns -> 0..BufferLen] BY <1>1, TextsAssumption DEF BaseInv, TypeOK
<1>5. line \in [Conns -> Lines] /\ line[c] \in Lines BY DEF BaseInv, TypeOK
<1>6. [line[c] EXCEPT !.text = << >>] \in Lines BY <1>5, EmptySeq DEF Lines
<1>7. /\ line' \in [Conns -> Lines]
      /\ line'[c] = [line[c] EXCEPT !.text = << >>]
      /\ \A q \in Conns \ {c} : line'[q] = line[q]
  BY <1>1, <1>5, <1>6
<1>8. line'[c].from = line[c].from /\ line'[c].round = line[c].round
  BY <1>5, <1>7 DEF Lines
<1>9. TypeOK'
  <2>1. registered' \subseteq {q \in Conns : pc'[q] \notin {"none", "done"}}
    BY <1>1, <1>2, <1>3 DEF BaseInv, TypeOK
  <2>2. \A q \in Conns : q \notin todo'[q] /\ (pc'[q] # "send" => todo'[q] = {})
    BY <1>1, <1>3 DEF BaseInv, TypeOK
  <2> QED BY <1>1, <1>3, <1>4, <1>7, <2>1, <2>2
          DEF BaseInv, TypeOK, CacheOK, clientVars
<1>10. PhasesOK'
  <2> SUFFICES ASSUME NEW q \in Conns
        PROVE /\ line'[q].from = q
              /\ line'[q].round = 0 <=> pc'[q] \in {"none", "greet"}
              /\ failed'[q] => pc'[q] \in {"send", "dead"}
              /\ pc'[q] = "none" => inbox'[q] = << >>
              /\ sock'[q] = "none" => pc'[q] = "none"
              /\ pc'[q] = "send" /\ line'[q].kind = "left" => q \notin registered'
    BY DEF PhasesOK
  <2>1. CASE q = c BY <1>1, <1>2, <1>3, <1>8, <2>1 DEF BaseInv, PhasesOK, clientVars
  <2>2. CASE q # c BY <1>1, <1>3, <1>7, <2>2 DEF BaseInv, PhasesOK, clientVars
  <2> QED BY <2>1, <2>2
<1> QED BY <1>7, <1>8, <1>9, <1>10 DEF BaseInv

LEMMA PopBase ==
  ASSUME BaseInv, NEW c \in Conns, Pop(c)
  PROVE  /\ BaseInv'
         /\ ToSet(storage) \cup givenUp \subseteq ToSet(storage') \cup givenUp'
<1>1. /\ pc[c] = "pop" /\ pc' = [pc EXCEPT ![c] = "put"]
      /\ storage # << >> /\ storage' = Front(storage)
      /\ givenUp' = givenUp \cup {Last(storage)}
      /\ UNCHANGED <<clientVars, registered, receiveVars, roundVars, inbox, cached>>
  BY DEF Pop
<1>2. storage \in Seq(StoredMessages) BY DEF BaseInv, TypeOK
<1>3. PICK n \in Nat : n = Len(storage) /\ DOMAIN storage = 1..n
  BY <1>2, LenProperties
<1>4. n # 0 BY <1>1, <1>2, <1>3, EmptySeq
<1>5. \A i \in 1..n - 1 : storage[i] \in StoredMessages BY <1>2, <1>3
<1>6. /\ storage' \in Seq(StoredMessages) /\ Len(storage') = n - 1
      /\ \A i \in 1..n - 1 : storage'[i] = storage[i]
  <2>1. storage' = SubSeq(storage, 1, n - 1) BY <1>1, <1>3 DEF Front
  <2> QED BY <1>3, <1>4, <1>5, <2>1, SubSeqProperties
<1>7. Last(storage) \in StoredMessages /\ Last(storage) = storage[n]
  BY <1>2, <1>3, <1>4 DEF Last
<1>8. DOMAIN storage' = 1..n - 1 BY <1>3, <1>4, <1>6, LenProperties
<1>9. ToSet(storage) \cup givenUp \subseteq ToSet(storage') \cup givenUp'
  <2> SUFFICES ASSUME NEW i \in 1..n PROVE storage[i] \in ToSet(storage') \cup givenUp'
    BY <1>1, <1>3 DEF ToSet
  <2>1. CASE i = n BY <1>1, <1>7, <2>1
  <2>2. CASE i # n
    <3>1. i \in 1..n - 1 BY <1>3, <2>2
    <3> QED BY <1>6, <1>8, <3>1 DEF ToSet
  <2> QED BY <2>1, <2>2
<1>10. /\ pc' \in [Conns -> {"none", "greet", "send", "pop", "put", "receive", "decode",
                             "unregister", "done", "dead"}]
       /\ pc'[c] = "put" /\ \A q \in Conns \ {c} : pc'[q] = pc[q]
  BY <1>1 DEF BaseInv, TypeOK
<1>11. TypeOK'
  <2>1. registered' \subseteq {q \in Conns : pc'[q] \notin {"none", "done"}}
    BY <1>1, <1>10 DEF BaseInv, TypeOK
  <2>2. \A q \in Conns : q \notin todo'[q] /\ (pc'[q] # "send" => todo'[q] = {})
    BY <1>1, <1>10 DEF BaseInv, TypeOK, roundVars
  <2>3. givenUp' \subseteq StoredMessages BY <1>1, <1>7 DEF BaseInv, TypeOK
  <2> QED BY <1>1, <1>6, <1>10, <2>1, <2>2, <2>3
          DEF BaseInv, TypeOK, clientVars, receiveVars, roundVars
<1>12. PhasesOK' BY <1>1, <1>10 DEF BaseInv, PhasesOK, clientVars, roundVars
<1> QED BY <1>9, <1>11, <1>12 DEF BaseInv

LEMMA MessageType ==
  ASSUME BaseInv, NEW c \in Conns
  PROVE  Message(c) \in StoredMessages
BY DEF BaseInv, TypeOK, Lines, Message, StoredMessages

LEMMA RefuseBase ==
  ASSUME BaseInv, NEW c \in Conns, Refuse(c)
  PROVE  BaseInv'
<1>1. CacheOK'
  BY MessageType DEF Refuse, Pushed, BaseInv, TypeOK, CacheOK
<1> QED BY <1>1, PushedBase DEF Refuse

LEMMA PutBase ==
  ASSUME BaseInv, NEW c \in Conns, Put(c)
  PROVE  /\ BaseInv'
         /\ ToSet(storage') = ToSet(storage) \cup {Message(c)}
<1>1. storage \in Seq(StoredMessages) /\ Message(c) \in StoredMessages
  BY MessageType DEF BaseInv, TypeOK
<1>2. PICK n \in Nat : n = Len(storage) /\ DOMAIN storage = 1..n
  BY <1>1, LenProperties
<1>3. /\ storage' \in Seq(StoredMessages) /\ Len(storage') = n + 1
      /\ \A i \in 1..n : storage'[i] = storage[i]
      /\ storage'[n + 1] = Message(c)
  BY <1>1, <1>2, AppendProperties DEF Put
<1>4. DOMAIN storage' = 1..n + 1 BY <1>3, LenProperties
<1>5. ToSet(storage') = ToSet(storage) \cup {Message(c)}
  <2>1. \A i : i \in 1..n + 1 <=> i \in 1..n \/ i = n + 1 BY <1>2
  <2> HIDE DEF Message
  <2> QED BY <1>2, <1>3, <1>4, <2>1 DEF ToSet
<1>6. CacheOK' BY <1>3 DEF Put, Pushed, BaseInv, TypeOK, CacheOK
<1> QED BY <1>5, <1>6, PushedBase DEF Put

(* A handler that receives goes on to decode, or ends: the phases of the   *)
(* others, and whatever is sent, stay as they are.                         *)
LEMMA ListeningBase ==
  ASSUME BaseInv, NEW c \in Conns, pc[c] = "receive",
         NEW phase \in {"decode", "dead"}, pc' = [pc EXCEPT ![c] = phase],
         UNCHANGED <<sock, spoken, registered, roundVars, inbox, cacheVars>>,
         wire' \in [Conns -> Seq(Texts)], buffer' \in [1..BufferLen -> Nat],
         bytesRec' \in [Conns -> 0..BufferLen],
         received' \in [Conns -> Seq(Nat)], overwritten' \in [Conns -> BOOLEAN]
  PROVE  BaseInv'
<1>1. /\ pc' \in [Conns -> {"none", "greet", "send", "pop", "put", "receive", "decode",
                            "unregister", "done", "dead"}]
      /\ pc'[c] = phase /\ \A q \in Conns \ {c} : pc'[q] = pc[q]
  BY DEF BaseInv, TypeOK
<1>2. TypeOK'
  <2>1. registered' \subseteq {q \in Conns : pc'[q] \notin {"none", "done"}}
    BY <1>1 DEF BaseInv, TypeOK
  <2>2. \A q \in Conns : q \notin todo'[q] /\ (pc'[q] # "send" => todo'[q] = {})
    BY <1>1 DEF BaseInv, TypeOK, roundVars
  <2> QED BY <1>1, <2>1, <2>2 DEF BaseInv, TypeOK, roundVars, cacheVars
<1>3. PhasesOK' BY <1>1 DEF BaseInv, PhasesOK, roundVars
<1> QED BY <1>2, <1>3 DEF BaseInv

(* A text copied to the start of the buffer is read back from there.       *)
LEMMA CopiedText ==
  ASSUME NEW size \in Nat, NEW text \in Seq(Nat), Len(text) \in 1..size,
         NEW new \in [1..size -> Nat], \A i \in 1..Len(text) : new[i] = text[i]
  PROVE  SubSeq(new, 1, Len(text)) = text
<1>1. PICK n \in Nat : n = Len(text) /\ 1 <= n /\ n <= size OBVIOUS
<1>2. \A i \in 1..n : new[i] = text[i] /\ new[i] \in Nat
  <2> TAKE i \in 1..n
  <2>1. i \in 1..size BY <1>1
  <2> QED BY <1>1, <2>1
<1> DEFINE read == SubSeq(new, 1, n)
<1>3. /\ read \in Seq(Nat)
      /\ Len(read) = IF 1 <= n THEN n - 1 + 1 ELSE 0
      /\ \A i \in 1..n - 1 + 1 : read[i] = new[1 + i - 1]
  BY <1>1, <1>2, SubSeqProperties
<1> HIDE DEF read
<1>4. Len(read) = n BY <1>1, <1>3
<1>5. \A i \in 1..n : read[i] = text[i]
  <2> TAKE i \in 1..n
  <2>1. i \in 1..n - 1 + 1 /\ 1 + i - 1 = i BY <1>1
  <2> QED BY <1>2, <1>3, <2>1
<1>6. read = text BY <1>1, <1>3, <1>4, <1>5, SeqEqual
<1> QED BY <1>1, <1>6 DEF read

(* What a receive that brings a text leaves in the buffer.                 *)
LEMMA ReceivedText ==
  ASSUME BaseInv, NEW c \in Conns, wire[c] # << >>,
         wire' = [wire EXCEPT ![c] = Tail(@)],
         received' = [received EXCEPT ![c] = Head(wire[c])],
         bytesRec' = [bytesRec EXCEPT ![c] = Len(Head(wire[c]))],
         buffer' = [i \in 1..BufferLen |->
                      IF i <= bytesRec'[c] THEN Head(wire[c])[i] ELSE buffer[i]]
  PROVE  /\ wire' \in [Conns -> Seq(Texts)] /\ buffer' \in [1..BufferLen -> Nat]
         /\ bytesRec' \in [Conns -> 0..BufferLen] /\ received' \in [Conns -> Seq(Nat)]
         /\ SubSeq(buffer', 1, bytesRec'[c]) = received'[c]
<1> DEFINE text == Head(wire[c])
<1>1. wire \in [Conns -> Seq(Texts)] /\ wire[c] \in Seq(Texts) BY DEF BaseInv, TypeOK
<1>2. text \in Texts /\ Tail(wire[c]) \in Seq(Texts) BY <1>1, HeadTailProperties
<1>3. text \in Seq(Nat) /\ Len(text) \in 1..BufferLen /\ BufferLen \in Nat
  BY <1>2, TextsAssumption
<1>4. wire' \in [Conns -> Seq(Texts)] BY <1>1, <1>2
<1> HIDE DEF text
<1>5. /\ received' \in [Conns -> Seq(Nat)] /\ received'[c] = text
      /\ bytesRec' \in [Conns -> 0..BufferLen] /\ bytesRec'[c] = Len(text)
  <2>1. Len(text) \in 0..BufferLen BY <1>3
  <2> QED BY <1>3, <2>1 DEF BaseInv, TypeOK, text
<1>6. buffer' = [i \in 1..BufferLen |-> IF i <= Len(text) THEN text[i] ELSE buffer[i]]
  BY <1>5 DEF text
<1>7. buffer' \in [1..BufferLen -> Nat] /\ SubSeq(buffer', 1, Len(text)) = text
  <2>1. buffer \in [1..BufferLen -> Nat] BY DEF BaseInv, TypeOK
  <2>2. PICK n \in Nat : n = Len(text) /\ 1 <= n /\ n <= BufferLen BY <1>3
  <2>3. \A i \in 1..n : text[i] \in Nat BY <1>3, <2>2
  <2>4. \A i \in 1..BufferLen : i <= n => i \in 1..n BY <1>3, <2>2
  <2>5. buffer' = [i \in 1..BufferLen |-> IF i <= n THEN text[i] ELSE buffer[i]]
    BY <1>6, <2>2
  <2>6. buffer' \in [1..BufferLen -> Nat] BY <2>1, <2>3, <2>4, <2>5
  <2>7. \A i \in 1..Len(text) : buffer'[i] = text[i]
    <3> TAKE i \in 1..Len(text)
    <3>1. i \in 1..BufferLen /\ i <= n BY <1>3, <2>2
    <3> QED BY <2>5, <3>1
  <2>8. SubSeq(buffer', 1, Len(text)) = text
    BY <1>3, <2>6, <2>7, CopiedText
  <2> QED BY <2>6, <2>8
<1> QED BY <1>4, <1>5, <1>7

LEMMA ReceiveBase ==
  ASSUME BaseInv, NEW c \in Conns, Receive(c)
  PROVE  BaseInv'
<1>1. /\ pc[c] = "receive" /\ pc' = [pc EXCEPT ![c] = "decode"]
      /\ UNCHANGED <<sock, spoken, registered, roundVars, inbox, cacheVars>>
  BY DEF Receive
<1>2. CASE wire[c] # << >>
  <2>1. /\ wire' = [wire EXCEPT ![c] = Tail(@)]
        /\ received' = [received EXCEPT ![c] = Head(wire[c])]
        /\ bytesRec' = [bytesRec EXCEPT ![c] = Len(Head(wire[c]))]
        /\ buffer' = [i \in 1..BufferLen |->
                        IF i <= bytesRec'[c] THEN Head(wire[c])[i] ELSE buffer[i]]
        /\ overwritten' = [q \in Conns |-> q # c /\ (overwritten[q] \/ pc[q] = "decode")]
    BY <1>2 DEF Receive
  <2>2. overwritten' \in [Conns -> BOOLEAN] BY <2>1
  <2>3. /\ wire' \in [Conns -> Seq(Texts)] /\ buffer' \in [1..BufferLen -> Nat]
        /\ bytesRec' \in [Conns -> 0..BufferLen] /\ received' \in [Conns -> Seq(Nat)]
    BY <1>2, <2>1, ReceivedText
  <2> QED BY <1>1, <2>2, <2>3, ListeningBase
<1>3. CASE wire[c] = << >>
  <2>1. /\ received' = [received EXCEPT ![c] = << >>]
        /\ bytesRec' = [bytesRec EXCEPT ![c] = 0]
        /\ overwritten' = [overwritten EXCEPT ![c] = FALSE]
        /\ UNCHANGED <<wire, buffer>>
    BY <1>3 DEF Receive
  <2>2. /\ wire' \in [Conns -> Seq(Texts)] /\ buffer' \in [1..BufferLen -> Nat]
        /\ bytesRec' \in [Conns -> 0..BufferLen] /\ received' \in [Conns -> Seq(Nat)]
        /\ overwritten' \in [Conns -> BOOLEAN]
    BY <2>1, TextsAssumption, EmptySeq, SMTT(20) DEF BaseInv, TypeOK
  <2> QED BY <1>1, <2>2, ListeningBase
<1> QED BY <1>2, <1>3

LEMMA ReceiveFailsBase ==
  ASSUME BaseInv, NEW c \in Conns, ReceiveFails(c)
  PROVE  BaseInv'
<1>1. /\ wire' \in [Conns -> Seq(Texts)] /\ buffer' \in [1..BufferLen -> Nat]
      /\ bytesRec' \in [Conns -> 0..BufferLen] /\ received' \in [Conns -> Seq(Nat)]
      /\ overwritten' \in [Conns -> BOOLEAN]
  BY DEF ReceiveFails, BaseInv, TypeOK, clientVars, receiveVars
<1>2. /\ pc[c] = "receive" /\ pc' = [pc EXCEPT ![c] = "dead"]
      /\ UNCHANGED <<sock, spoken, registered, roundVars, inbox, cacheVars>>
  BY DEF ReceiveFails, clientVars
<1> QED BY <1>1, <1>2, ListeningBase

LEMMA DecodedType ==
  ASSUME BaseInv, NEW c \in Conns
  PROVE  SubSeq(buffer, 1, bytesRec[c]) \in Seq(Nat)
<1>1. bytesRec[c] \in 0..BufferLen /\ buffer \in [1..BufferLen -> Nat] /\ BufferLen \in Nat
  BY TextsAssumption DEF BaseInv, TypeOK
<1>2. \A i \in 1..bytesRec[c] : buffer[i] \in Nat BY <1>1
<1>3. bytesRec[c] \in Int /\ 1 \in Int BY <1>1
<1> QED BY <1>2, <1>3, SubSeqProperties

LEMMA DecodeBase ==
  ASSUME BaseInv, NEW c \in Conns, Decode(c)
  PROVE  BaseInv'
<1>1. CacheOK' BY DEF Decode, cacheVars, BaseInv, TypeOK, CacheOK
<1>2. registered \in SUBSET Conns BY DEF BaseInv, TypeOK
<1>3. FALSE \in BOOLEAN OBVIOUS
<1> QED BY <1>1, <1>2, <1>3, DecodedType, StartRoundBase DEF Decode

LEMMA UnregisterBase ==
  ASSUME BaseInv, NEW c \in Conns, Unregister(c)
  PROVE  BaseInv'
<1>1. CacheOK' BY DEF Unregister, cacheVars, BaseInv, TypeOK, CacheOK
<1>2. /\ registered' \in SUBSET Conns /\ registered' \subseteq registered
      /\ c \notin registered'
  BY DEF Unregister, BaseInv, TypeOK
<1>3. FALSE \in BOOLEAN /\ << >> \in Seq(Nat) OBVIOUS
<1> QED BY <1>1, <1>2, <1>3, StartRoundBase DEF Unregister

LEMMA InitBase == Init => BaseInv
<1> SUFFICES ASSUME Init PROVE BaseInv OBVIOUS
<1>1. \A c \in Conns :
        [from |-> c, kind |-> "none", text |-> << >>, round |-> 0] \in Lines
  BY EmptySeq DEF Lines
<1>2. line \in [Conns -> Lines] BY <1>1 DEF Init
<1>3. inbox \in [Conns -> Seq(Lines)] BY EmptySeq DEF Init
<1>4. wire \in [Conns -> Seq(Texts)] /\ received \in [Conns -> Seq(Nat)]
  BY EmptySeq DEF Init
<1>5. TypeOK BY <1>2, <1>3, <1>4, TextsAssumption DEF Init, TypeOK
<1>6. PhasesOK BY DEF Init, PhasesOK
<1> QED BY <1>5, <1>6 DEF BaseInv

LEMMA StepBase == BaseInv /\ [Next]_vars => BaseInv'
<1> SUFFICES ASSUME BaseInv, [Next]_vars PROVE BaseInv' OBVIOUS
<1>1. ASSUME NEW c \in Conns, Client(c) PROVE BaseInv'
  BY <1>1, ConnectBase, ClientSendBase, ClientStopBase, ResetBase DEF Client
<1>2. ASSUME NEW c \in Conns, Handler(c) PROVE BaseInv'
  BY <1>2, AcceptBase, HandShakeBase, VisitBase, SendsDoneBase, PopBase,
     RefuseBase, PutBase,     ReceiveBase, ReceiveFailsBase, DecodeBase, UnregisterBase DEF Handler, MakeRoom
<1>3. CASE UNCHANGED vars
  BY <1>3 DEF vars, clientVars, receiveVars, roundVars, cacheVars, BaseInv, TypeOK, PhasesOK
<1> QED BY <1>1, <1>2, <1>3 DEF Next

(* Every variable keeps its type, whatever joins, talks, leaves or is      *)
(* reset: only handlers under way are registered, and only those that send *)
(* have somebody left to visit.                                            *)
THEOREM ServerTypeCorrect == Spec => []TypeOK
<1>1. Spec => []BaseInv BY InitBase, StepBase, PTL DEF Spec
<1>2. BaseInv => TypeOK BY DEF BaseInv
<1> QED BY <1>1, <1>2, PTL
-----------------------------------------------------------------------------
(* The shared buffer.                                                      *)

TextInv == BaseInv /\ DecodedOK /\ TextsIntact

(* One connection at a time: what the two invariants say of it.            *)
TextKept(c) ==
  /\ pc[c] = "decode" /\ ~overwritten[c] => SubSeq(buffer, 1, bytesRec[c]) = received[c]
  /\ pc[c] = "send" /\ line[c].kind = "said" /\ ~overwritten[c] =>
       line[c].text = received[c]

LEMMA TextKeptIsInv == DecodedOK /\ TextsIntact <=> \A c \in Conns : TextKept(c)
BY DEF DecodedOK, TextsIntact, TextKept

(* A connection whose phase, line and receive are left alone.              *)
LEMMA TextUntouched ==
  ASSUME NEW c \in Conns, TextKept(c), pc'[c] = pc[c], line'[c] = line[c],
         buffer' = buffer, bytesRec'[c] = bytesRec[c], received'[c] = received[c],
         overwritten'[c] = overwritten[c]
  PROVE  TextKept(c)'
BY DEF TextKept

LEMMA StartRoundTexts ==
  ASSUME TextInv, NEW c \in Conns, NEW kind, NEW text, NEW targets, NEW fails,
         StartRound(c, kind, text, targets, fails),
         kind = "said" /\ ~overwritten[c] => text = received[c],
         pc' = [pc EXCEPT ![c] = "send"], UNCHANGED receiveVars
  PROVE  \A q \in Conns : TextKept(q)'
<1>1. /\ line'[c] = [from |-> c, kind |-> kind, text |-> text, round |-> line[c].round + 1]
      /\ \A q \in Conns \ {c} : line'[q] = line[q]
  BY StartRoundValues DEF TextInv
<1>2. pc'[c] = "send" /\ \A q \in Conns \ {c} : pc'[q] = pc[q]
  BY DEF TextInv, BaseInv, TypeOK
<1>3. \A q \in Conns : TextKept(q) BY TextKeptIsInv DEF TextInv
<1>4. TextKept(c)'
  <2>1. line'[c].kind = kind /\ line'[c].text = text BY <1>1
  <2> QED BY <1>2, <2>1 DEF TextKept, receiveVars
<1>5. \A q \in Conns \ {c} : TextKept(q)'
  BY <1>1, <1>2, <1>3, TextUntouched DEF receiveVars
<1> QED BY <1>4, <1>5

LEMMA ReceiveTexts ==
  ASSUME TextInv, NEW c \in Conns, Receive(c)
  PROVE  \A q \in Conns : TextKept(q)'
<1>1. /\ pc[c] = "receive" /\ pc' = [pc EXCEPT ![c] = "decode"]
      /\ UNCHANGED line
  BY DEF Receive, roundVars
<1>2. pc'[c] = "decode" /\ \A q \in Conns \ {c} : pc'[q] = pc[q]
  BY <1>1 DEF TextInv, BaseInv, TypeOK
<1>3. \A q \in Conns : TextKept(q) BY TextKeptIsInv DEF TextInv
<1>4. received \in [Conns -> Seq(Nat)] /\ bytesRec \in [Conns -> 0..BufferLen]
      /\ overwritten \in [Conns -> BOOLEAN]
  BY DEF TextInv, BaseInv, TypeOK
<1>5. CASE wire[c] # << >>
  <2>1. /\ wire' = [wire EXCEPT ![c] = Tail(@)]
        /\ received' = [received EXCEPT ![c] = Head(wire[c])]
        /\ bytesRec' = [bytesRec EXCEPT ![c] = Len(Head(wire[c]))]
        /\ buffer' = [i \in 1..BufferLen |->
                        IF i <= bytesRec'[c] THEN Head(wire[c])[i] ELSE buffer[i]]
        /\ overwritten' = [q \in Conns |-> q # c /\ (overwritten[q] \/ pc[q] = "decode")]
    BY <1>5 DEF Receive
  <2>2. SubSeq(buffer', 1, bytesRec'[c]) = received'[c]
    BY <1>5, <2>1, ReceivedText DEF TextInv
  <2>3. TextKept(c)' BY <1>2, <2>2 DEF TextKept
  <2>4. ASSUME NEW q \in Conns \ {c} PROVE TextKept(q)'
    <3>1. /\ received'[q] = received[q] /\ pc'[q] = pc[q] /\ line'[q] = line[q]
          /\ overwritten'[q] = (overwritten[q] \/ pc[q] = "decode")
      BY <1>1, <1>2, <1>4, <2>1
    <3>2. TextKept(q) BY <1>3
    <3> QED BY <3>1, <3>2 DEF TextKept
  <2> QED BY <2>3, <2>4
<1>6. CASE wire[c] = << >>
  <2>1. /\ received' = [received EXCEPT ![c] = << >>]
        /\ bytesRec' = [bytesRec EXCEPT ![c] = 0]
        /\ overwritten' = [overwritten EXCEPT ![c] = FALSE]
        /\ buffer' = buffer
    BY <1>6 DEF Receive
  <2>2. received'[c] = << >> /\ bytesRec'[c] = 0 BY <1>4, <2>1
  <2>3. SubSeq(buffer', 1, 0) = << >> BY SubSeqEmpty
  <2>4. TextKept(c)' BY <1>2, <2>2, <2>3 DEF TextKept
  <2>5. \A q \in Conns \ {c} : TextKept(q)'
    BY <1>1, <1>2, <1>3, <1>4, <2>1, TextUntouched
  <2> QED BY <2>4, <2>5
<1> QED BY <1>5, <1>6

LEMMA StepTexts ==
  ASSUME TextInv, [Next]_vars
  PROVE  \A q \in Conns : TextKept(q)'
<1>0. /\ \A q \in Conns : TextKept(q)
      /\ pc \in [Conns -> {"none", "greet", "send", "pop", "put", "receive", "decode",
                           "unregister", "done", "dead"}]
      /\ bytesRec \in [Conns -> 0..BufferLen] /\ received \in [Conns -> Seq(Nat)]
      /\ overwritten \in [Conns -> BOOLEAN]
  BY TextKeptIsInv DEF TextInv, BaseInv, TypeOK
<1> DEFINE Quiet == UNCHANGED <<pc, line, receiveVars>>
<1>1. Quiet => \A q \in Conns : TextKept(q)'
  BY <1>0, TextUntouched DEF receiveVars
<1>2. ASSUME NEW c \in Conns, Client(c) PROVE Quiet
  BY <1>2 DEF Client, Connect, ClientSend, ClientStop, Reset, roundVars
<1>3. ASSUME NEW c \in Conns, NEW r \in Conns, Visit(c, r) PROVE Quiet
  BY <1>3 DEF Visit
<1>4. ASSUME NEW c \in Conns,
             NEW phase \in {"greet", "pop", "put", "receive", "unregister",
                           "done", "dead"},
             pc' = [pc EXCEPT ![c] = phase], buffer' = buffer,
             \A q \in Conns \ {c} : /\ line'[q] = line[q] /\ bytesRec'[q] = bytesRec[q]
                                    /\ received'[q] = received[q]
                                    /\ overwritten'[q] = overwritten[q]
      PROVE \A q \in Conns : TextKept(q)'
  <2>1. pc'[c] = phase /\ \A q \in Conns \ {c} : pc'[q] = pc[q] BY <1>0, <1>4
  <2>2. TextKept(c)' BY <1>4, <2>1 DEF TextKept
  <2>3. \A q \in Conns \ {c} : TextKept(q)' BY <1>0, <1>4, <2>1, TextUntouched
  <2> QED BY <2>2, <2>3
<1>5. ASSUME NEW c \in Conns, Accept(c) PROVE \A q \in Conns : TextKept(q)'
  <2>1. pc' = [pc EXCEPT ![c] = "greet"] /\ UNCHANGED <<line, receiveVars>>
    BY <1>5 DEF Accept
  <2> QED BY <1>4, <2>1 DEF receiveVars
<1>6. ASSUME NEW c \in Conns, SendsDone(c) PROVE \A q \in Conns : TextKept(q)'
  <2>1. PICK phase \in {"pop", "put", "done", "dead"} : pc' = [pc EXCEPT ![c] = phase]
    BY <1>6 DEF SendsDone, FirstOfPush
  <2>2. \A q \in Conns \ {c} : /\ line'[q] = line[q] /\ bytesRec'[q] = bytesRec[q]
                                /\ received'[q] = received[q]
                                /\ overwritten'[q] = overwritten[q]
    BY <1>0, <1>6 DEF SendsDone, roundVars
  <2>3. buffer' = buffer BY <1>6 DEF SendsDone
  <2> QED BY <1>4, <2>1, <2>2, <2>3
<1>7. ASSUME NEW c \in Conns, Pop(c) \/ Refuse(c) \/ Put(c)
      PROVE \A q \in Conns : TextKept(q)'
  <2>1. PICK phase \in {"put", "receive", "unregister"} : pc' = [pc EXCEPT ![c] = phase]
    BY <1>7 DEF Pop, Refuse, Put, Pushed, AfterPush
  <2>2. \A q \in Conns \ {c} : line'[q] = line[q] /\ bytesRec'[q] = bytesRec[q]
    BY <1>0, <1>7 DEF Pop, Refuse, Put, Pushed, receiveVars, roundVars, TextInv, BaseInv, TypeOK
  <2>3. UNCHANGED <<buffer, received, overwritten>>
    BY <1>7 DEF Pop, Refuse, Put, Pushed, receiveVars
  <2> QED BY <1>4, <2>1, <2>2, <2>3
<1>8. ASSUME NEW c \in Conns, ReceiveFails(c) PROVE \A q \in Conns : TextKept(q)'
  <2>1. pc' = [pc EXCEPT ![c] = "dead"] /\ UNCHANGED <<line, receiveVars>>
    BY <1>8 DEF ReceiveFails, roundVars
  <2> QED BY <1>4, <2>1 DEF receiveVars
<1>9. ASSUME NEW c \in Conns, HandShake(c) PROVE \A q \in Conns : TextKept(q)'
  BY <1>9, StartRoundTexts DEF HandShake
<1>10. ASSUME NEW c \in Conns, Decode(c) PROVE \A q \in Conns : TextKept(q)'
  <2>1. ~overwritten[c] => SubSeq(buffer, 1, bytesRec[c]) = received[c]
    BY <1>0, <1>10 DEF Decode, TextKept
  <2> QED BY <1>10, <2>1, StartRoundTexts DEF Decode
<1>11. ASSUME NEW c \in Conns, Unregister(c) PROVE \A q \in Conns : TextKept(q)'
  BY <1>11, StartRoundTexts DEF Unregister
<1>12. CASE UNCHANGED vars BY <1>1, <1>12 DEF vars, roundVars
<1> HIDE DEF Quiet
<1> QED BY <1>1, <1>2, <1>3, <1>5, <1>6, <1>7, <1>8, <1>9, <1>10, <1>11, <1>12,
           ReceiveTexts DEF Next, Handler, MakeRoom

(* SocketServer.ListenAsync: what a handler decodes and broadcasts is the  *)
(* text its client sent, whatever the buffer held before and however long  *)
(* texts are, as long as no other receive completed in between.            *)
THEOREM TextsStayIntact == Spec => []TextsIntact
<1>1. Init => TextInv
  <2> SUFFICES ASSUME Init PROVE TextInv OBVIOUS
  <2>1. DecodedOK /\ TextsIntact BY DEF Init, DecodedOK, TextsIntact
  <2> QED BY <2>1, InitBase DEF TextInv
<1>2. TextInv /\ [Next]_vars => TextInv'
  <2> SUFFICES ASSUME TextInv, [Next]_vars PROVE TextInv' OBVIOUS
  <2>1. BaseInv' BY StepBase DEF TextInv
  <2>2. \A q \in Conns : TextKept(q)' BY StepTexts
  <2>3. DecodedOK' /\ TextsIntact' BY <2>2 DEF DecodedOK, TextsIntact, TextKept
  <2> QED BY <2>1, <2>3 DEF TextInv
<1>3. TextInv => TextsIntact BY DEF TextInv
<1> QED BY <1>1, <1>2, <1>3, PTL DEF Spec
-----------------------------------------------------------------------------
(* Zombies.                                                                *)

ZombieInv == BaseInv /\ ZombiesOK /\ ZombieSilences

(* One connection at a time, as for the texts.                             *)
ZombieKept(c) ==
  /\ silenced[c] \subseteq Zombies
  /\ pc[c] = "send" => failed[c] \/ silenced[c] \subseteq todo[c]
  /\ silenced[c] # {} => pc[c] \in {"send", "dead"}

LEMMA ZombieKeptIsInv == ZombiesOK /\ ZombieSilences <=> \A c \in Conns : ZombieKept(c)
BY DEF ZombiesOK, ZombieSilences, ZombieKept

(* A zombie has no handler that could unregister it, and its socket stays  *)
(* reset.                                                                  *)
LEMMA ZombiesStay ==
  ASSUME BaseInv, [Next]_vars
  PROVE  Zombies \subseteq Zombies'
<1> SUFFICES ASSUME NEW z \in Zombies PROVE z \in Zombies' OBVIOUS
<1>1. z \in Conns /\ z \in registered /\ sock[z] = "reset" /\ pc[z] = "dead"
  BY DEF Zombies, BaseInv, TypeOK
<1>2. /\ sock \in [Conns -> {"none", "open", "closed", "reset"}]
      /\ pc \in [Conns -> {"none", "greet", "send", "pop", "put", "receive", "decode",
                           "unregister", "done", "dead"}]
  BY DEF BaseInv, TypeOK
<1> DEFINE Stays == z \in registered' /\ sock'[z] = "reset" /\ pc'[z] = "dead"
<1>3. ASSUME NEW c \in Conns, Client(c) PROVE Stays
  BY <1>1, <1>2, <1>3 DEF Client, Connect, ClientSend, ClientStop, Reset
<1>4. ASSUME NEW c \in Conns, Accept(c) PROVE Stays
  BY <1>1, <1>2, <1>4 DEF Accept, clientVars
<1>5. ASSUME NEW c \in Conns, HandShake(c) PROVE Stays
  BY <1>1, <1>2, <1>5 DEF HandShake, clientVars
<1>6. ASSUME NEW c \in Conns, NEW r \in Conns, Visit(c, r) PROVE Stays
  BY <1>1, <1>6 DEF Visit, clientVars
<1>7. ASSUME NEW c \in Conns, SendsDone(c) PROVE Stays
  BY <1>1, <1>2, <1>7 DEF SendsDone, clientVars
<1>8. ASSUME NEW c \in Conns, Pop(c) \/ Refuse(c) \/ Put(c) PROVE Stays
  BY <1>1, <1>2, <1>8 DEF Pop, Refuse, Put, Pushed, clientVars
<1>9. ASSUME NEW c \in Conns, Receive(c) \/ ReceiveFails(c) PROVE Stays
  BY <1>1, <1>2, <1>9 DEF Receive, ReceiveFails, clientVars
<1>10. ASSUME NEW c \in Conns, Decode(c) \/ Unregister(c) PROVE Stays
  BY <1>1, <1>2, <1>10 DEF Decode, Unregister, clientVars
<1>11. ASSUME UNCHANGED vars PROVE Stays BY <1>1, <1>11 DEF vars, clientVars
<1> HIDE DEF Stays
<1>12. Stays
  BY <1>3, <1>4, <1>5, <1>6, <1>7, <1>8, <1>9, <1>10, <1>11 DEF Next, Handler, MakeRoom
<1> QED BY <1>12 DEF Zombies, Stays

LEMMA ZombieUntouched ==
  ASSUME NEW c \in Conns, ZombieKept(c), Zombies \subseteq Zombies',
         pc'[c] = pc[c], silenced'[c] = silenced[c], failed'[c] = failed[c],
         todo[c] \subseteq todo'[c]
  PROVE  ZombieKept(c)'
BY DEF ZombieKept

(* A round that starts is to visit every zombie there is.                  *)
LEMMA StartRoundZombies ==
  ASSUME ZombieInv, NEW c \in Conns, NEW kind, NEW text, NEW targets, NEW fails,
         StartRound(c, kind, text, targets, fails), pc[c] # "dead",
         registered \ {c} \subseteq targets,
         pc' = [pc EXCEPT ![c] = "send"], Zombies \subseteq Zombies'
  PROVE  \A q \in Conns : ZombieKept(q)'
<1>1. /\ todo'[c] = targets \ {c} /\ silenced'[c] = Zombies
      /\ \A q \in Conns \ {c} : /\ todo'[q] = todo[q] /\ failed'[q] = failed[q]
                                /\ silenced'[q] = silenced[q]
  BY StartRoundValues, ZenonT(30) DEF ZombieInv
<1>2. pc'[c] = "send" /\ \A q \in Conns \ {c} : pc'[q] = pc[q]
  BY DEF ZombieInv, BaseInv, TypeOK
<1>3. Zombies \subseteq targets \ {c} BY DEF Zombies, ZombieInv, BaseInv, TypeOK
<1>4. ZombieKept(c)' BY <1>1, <1>2, <1>3 DEF ZombieKept
<1>5. \A q \in Conns : ZombieKept(q) BY ZombieKeptIsInv DEF ZombieInv
<1>6. \A q \in Conns \ {c} : ZombieKept(q)' BY <1>1, <1>2, <1>5, ZombieUntouched
<1> QED BY <1>4, <1>6

(* A handler that was not sending when it took a step has met no zombie;   *)
(* neither has one whose sends were done without a failure.                *)
LEMMA LeaveZombies ==
  ASSUME ZombieInv, NEW c \in Conns, NEW phase, phase # "send",
         silenced[c] = {} \/ phase = "dead",
         pc' = [pc EXCEPT ![c] = phase], silenced' = silenced,
         Zombies \subseteq Zombies',
         \A q \in Conns \ {c} : failed'[q] = failed[q] /\ todo[q] \subseteq todo'[q]
  PROVE  \A q \in Conns : ZombieKept(q)'
<1>1. pc'[c] = phase /\ \A q \in Conns \ {c} : pc'[q] = pc[q]
  BY DEF ZombieInv, BaseInv, TypeOK
<1>2. \A q \in Conns : ZombieKept(q) BY ZombieKeptIsInv DEF ZombieInv
<1>3. ZombieKept(c)' BY <1>1, <1>2 DEF ZombieKept
<1>4. \A q \in Conns \ {c} : ZombieKept(q)' BY <1>1, <1>2, ZombieUntouched
<1> QED BY <1>3, <1>4

LEMMA StepZombies ==
  ASSUME ZombieInv, [Next]_vars
  PROVE  \A q \in Conns : ZombieKept(q)'
<1>0. /\ Zombies \subseteq Zombies'
      /\ \A q \in Conns : ZombieKept(q)
  BY ZombiesStay, ZombieKeptIsInv DEF ZombieInv
<1>1. \A q \in Conns : pc[q] \notin {"send", "dead"} => silenced[q] = {}
  BY <1>0 DEF ZombieKept
<1> DEFINE Quiet == UNCHANGED <<pc, roundVars>>
<1>2. Quiet => \A q \in Conns : ZombieKept(q)'
  BY <1>0, ZombieUntouched DEF roundVars
<1>3. ASSUME NEW c \in Conns, Client(c) PROVE Quiet
  BY <1>3 DEF Client, Connect, ClientSend, ClientStop, Reset
<1>4. ASSUME NEW c \in Conns, NEW r \in Conns, Visit(c, r)
      PROVE \A q \in Conns : ZombieKept(q)'
  <2>1. /\ UNCHANGED <<pc, silenced>>
        /\ \A q \in Conns \ {c} : todo'[q] = todo[q] /\ failed'[q] = failed[q]
        /\ todo'[c] = todo[c] \ {r}
        /\ failed[c] => failed'[c]
        /\ r \in registered /\ sock[r] = "reset" => failed'[c]
    BY <1>4 DEF Visit, ZombieInv, BaseInv, TypeOK
  <2>2. r \in silenced[c] => failed'[c] BY <1>0, <2>1 DEF ZombieKept, Zombies
  <2>3. ZombieKept(c)' BY <1>0, <2>1, <2>2 DEF ZombieKept
  <2>4. \A q \in Conns \ {c} : ZombieKept(q)' BY <1>0, <2>1, ZombieUntouched
  <2> QED BY <2>3, <2>4
<1>5. ASSUME NEW c \in Conns, Accept(c) PROVE \A q \in Conns : ZombieKept(q)'
  <2>1. \A q \in Conns : todo[q] \subseteq todo'[q] BY <1>5 DEF Accept
  <2>2. /\ pc[c] = "none" /\ pc' = [pc EXCEPT ![c] = "greet"]
        /\ UNCHANGED <<failed, silenced>>
    BY <1>5 DEF Accept
  <2> QED BY <1>0, <1>1, <2>1, <2>2, LeaveZombies
<1>6. ASSUME NEW c \in Conns, SendsDone(c) PROVE \A q \in Conns : ZombieKept(q)'
  <2> DEFINE phase == IF failed[c] THEN "dead"
                      ELSE IF line[c].kind = "left" THEN "done" ELSE FirstOfPush
  <2>1. /\ pc[c] = "send" /\ todo[c] = {} /\ pc' = [pc EXCEPT ![c] = phase]
        /\ UNCHANGED <<todo, failed, silenced>>
    BY <1>6 DEF SendsDone, roundVars
  <2>2. silenced[c] = {} \/ phase = "dead" BY <1>0, <2>1 DEF ZombieKept
  <2>3. phase # "send" BY DEF FirstOfPush
  <2> HIDE DEF phase
  <2> QED BY <1>0, <2>1, <2>2, <2>3, LeaveZombies
<1>7. ASSUME NEW c \in Conns, Pop(c) \/ Refuse(c) \/ Put(c)
      PROVE \A q \in Conns : ZombieKept(q)'
  <2>1. PICK phase : phase # "send" /\ pc' = [pc EXCEPT ![c] = phase]
    BY <1>7 DEF Pop, Refuse, Put, Pushed, AfterPush
  <2>2. pc[c] \in {"pop", "put"} /\ UNCHANGED <<todo, failed, silenced>>
    BY <1>7 DEF Pop, Refuse, Put, Pushed, roundVars
  <2> QED BY <1>0, <1>1, <2>1, <2>2, LeaveZombies
<1>8. ASSUME NEW c \in Conns, Receive(c) PROVE \A q \in Conns : ZombieKept(q)'
  <2>1. /\ pc[c] = "receive" /\ pc' = [pc EXCEPT ![c] = "decode"]
        /\ UNCHANGED <<todo, failed, silenced>>
    BY <1>8 DEF Receive, roundVars
  <2> QED BY <1>0, <1>1, <2>1, LeaveZombies
<1>9. ASSUME NEW c \in Conns, ReceiveFails(c) PROVE \A q \in Conns : ZombieKept(q)'
  <2>1. /\ pc[c] = "receive" /\ pc' = [pc EXCEPT ![c] = "dead"]
        /\ UNCHANGED <<todo, failed, silenced>>
    BY <1>9 DEF ReceiveFails, roundVars
  <2> QED BY <1>0, <1>1, <2>1, LeaveZombies
<1>10. ASSUME NEW c \in Conns, HandShake(c) PROVE \A q \in Conns : ZombieKept(q)'
  BY <1>0, <1>10, StartRoundZombies DEF HandShake
<1>11. ASSUME NEW c \in Conns, Decode(c) PROVE \A q \in Conns : ZombieKept(q)'
  BY <1>0, <1>11, StartRoundZombies DEF Decode
<1>12. ASSUME NEW c \in Conns, Unregister(c) PROVE \A q \in Conns : ZombieKept(q)'
  <2>1. registered \ {c} \subseteq registered' BY <1>12 DEF Unregister
  <2> QED BY <1>0, <1>12, <2>1, StartRoundZombies DEF Unregister
<1>13. CASE UNCHANGED vars BY <1>2, <1>13 DEF vars
<1> HIDE DEF Quiet
<1> QED BY <1>2, <1>3, <1>4, <1>5, <1>6, <1>7, <1>8, <1>9, <1>10, <1>11, <1>12,
           <1>13 DEF Next, Handler, MakeRoom

(* SocketServer.SendToAll: once a reset connection is left registered with *)
(* nobody to remove it, every handler whose round starts after that fails  *)
(* in it, for any number of connections: it stores nothing and ends.       *)
THEOREM ZombiesSilence == Spec => []ZombieSilences
<1>1. Init => ZombieInv
  <2> SUFFICES ASSUME Init PROVE ZombieInv OBVIOUS
  <2>1. ZombiesOK /\ ZombieSilences BY DEF Init, ZombiesOK, ZombieSilences
  <2> QED BY <2>1, InitBase DEF ZombieInv
<1>2. ZombieInv /\ [Next]_vars => ZombieInv'
  <2> SUFFICES ASSUME ZombieInv, [Next]_vars PROVE ZombieInv' OBVIOUS
  <2>1. BaseInv' BY StepBase DEF ZombieInv
  <2>2. \A q \in Conns : ZombieKept(q)' BY StepZombies
  <2>3. ZombiesOK' /\ ZombieSilences' BY <2>2 DEF ZombiesOK, ZombieSilences, ZombieKept
  <2> QED BY <2>1, <2>3 DEF ZombieInv
<1>3. ZombieInv => ZombieSilences BY DEF ZombieInv
<1> QED BY <1>1, <1>2, <1>3, PTL DEF Spec
-----------------------------------------------------------------------------
(* What connections hear of each other.                                    *)

HearingInv == /\ BaseInv /\ PushedOK
              /\ HeardOK /\ LastHeard /\ FirstToHear
              /\ RoundsContiguous /\ NewcomerMissesAtMostOne

(* One pair at a time: r hears of c.                                       *)
PairKept(r, c) ==
  /\ \A i \in Heard(r, c) : r # c /\ inbox[r][i].round <= line[c].round
  /\ \A i \in Heard(r, c) :
       Hears(r) /\ (\A k \in Heard(r, c) : k <= i) =>
         Upcoming(r, c) = inbox[r][i].round + 1
  /\ Hears(r) /\ r # c /\ Heard(r, c) = {} /\ line[r].round > 0 =>
       Missed(r, c, Upcoming(r, c)) \subseteq {Upcoming(r, c) - 1}
  /\ \A i, j \in Heard(r, c) :
       i < j /\ (\A k \in Heard(r, c) : k <= i \/ j <= k) =>
         inbox[r][j].round = inbox[r][i].round + 1
  /\ \A i \in Heard(r, c) :
       (\A k \in Heard(r, c) : i <= k) /\ line[r].round > 0 =>
         Missed(r, c, inbox[r][i].round) \subseteq {inbox[r][i].round - 1}

LEMMA PairKeptIsInv ==
  HeardOK /\ LastHeard /\ FirstToHear /\ RoundsContiguous /\ NewcomerMissesAtMostOne
    <=> \A r, c \in Conns : PairKept(r, c)
<1> DEFINE Joint == /\ HeardOK /\ LastHeard /\ FirstToHear
                    /\ RoundsContiguous /\ NewcomerMissesAtMostOne
<1>1. ASSUME Joint, NEW r \in Conns, NEW c \in Conns PROVE PairKept(r, c)
  BY <1>1 DEF HeardOK, LastHeard, FirstToHear, RoundsContiguous,
              NewcomerMissesAtMostOne, PairKept
<1>2. ASSUME \A r, c \in Conns : PairKept(r, c) PROVE Joint
  <2>1. HeardOK /\ LastHeard /\ FirstToHear BY <1>2 DEF HeardOK, LastHeard, FirstToHear, PairKept
  <2>2. RoundsContiguous BY <1>2 DEF RoundsContiguous, PairKept
  <2>3. NewcomerMissesAtMostOne BY <1>2 DEF NewcomerMissesAtMostOne, PairKept
  <2> QED BY <2>1, <2>2, <2>3
<1> QED BY <1>1, <1>2

LEMMA RoundTypes ==
  ASSUME BaseInv
  PROVE  /\ \A c \in Conns : line[c] \in Lines /\ line[c].round \in Nat
         /\ \A r \in Conns : /\ inbox[r] \in Seq(Lines)
                             /\ \A i \in DOMAIN inbox[r] : inbox[r][i].round \in Nat
         /\ \A r, c \in Conns : Upcoming(r, c) \in Nat
<1>1. \A c \in Conns : line[c] \in Lines /\ line[c].round \in Nat
  BY DEF BaseInv, TypeOK, Lines
<1>2. ASSUME NEW r \in Conns
      PROVE  /\ inbox[r] \in Seq(Lines)
             /\ \A i \in DOMAIN inbox[r] : inbox[r][i].round \in Nat
  <2>1. inbox[r] \in Seq(Lines) BY DEF BaseInv, TypeOK
  <2>2. \A i \in DOMAIN inbox[r] : inbox[r][i] \in Lines BY <2>1
  <2> QED BY <2>1, <2>2 DEF Lines
<1>3. \A r, c \in Conns : Upcoming(r, c) \in Nat BY <1>1 DEF Upcoming
<1> QED BY <1>1, <1>2, <1>3

(* A pair to which nothing happens, or of which r can no longer hear.      *)
LEMMA PairUntouched ==
  ASSUME NEW r \in Conns, NEW c \in Conns, PairKept(r, c), BaseInv, BaseInv',
         Heard(r, c)' = Heard(r, c),
         \A i \in Heard(r, c) : inbox'[r][i].round = inbox[r][i].round,
         Hears(r)' => Hears(r) /\ (r # c => Upcoming(r, c)' = Upcoming(r, c)),
         line[c].round <= line'[c].round,
         line'[r].round > 0 => line[r].round > 0,
         cached'[r] = cached[r], givenUp \subseteq givenUp'
  PROVE  PairKept(r, c)'
<1>1. \A i \in Heard(r, c) : inbox[r][i].round \in Nat BY RoundTypes DEF Heard
<1>2. line[c].round \in Nat /\ line'[c].round \in Nat
  BY DEF BaseInv, TypeOK, Lines
<1>3. \A i \in Heard(r, c)' : r # c /\ inbox'[r][i].round <= line'[c].round
  BY <1>1, <1>2 DEF PairKept
<1>4. \A i \in Heard(r, c)' :
        Hears(r)' /\ (\A k \in Heard(r, c)' : k <= i) =>
          Upcoming(r, c)' = inbox'[r][i].round + 1
  BY <1>1 DEF PairKept
<1>5. Hears(r)' /\ r # c /\ Heard(r, c)' = {} /\ line'[r].round > 0 =>
        Missed(r, c, Upcoming(r, c))' \subseteq {Upcoming(r, c)' - 1}
  BY DEF PairKept, Missed
<1>6. \A i, j \in Heard(r, c)' :
        i < j /\ (\A k \in Heard(r, c)' : k <= i \/ j <= k) =>
          inbox'[r][j].round = inbox'[r][i].round + 1
  BY DEF PairKept
<1>7. \A i \in Heard(r, c)' :
        (\A k \in Heard(r, c)' : i <= k) /\ line'[r].round > 0 =>
          Missed(r, c, inbox[r][i].round)' \subseteq {inbox'[r][i].round - 1}
  BY DEF PairKept, Missed
<1> QED BY <1>3, <1>4, <1>5, <1>6, <1>7 DEF PairKept

(* Steps that neither send nor start a round, and bring nobody in.         *)
LEMMA QuietHearing ==
  ASSUME HearingInv, BaseInv', UNCHANGED <<inbox, todo, cached, registered>>,
         givenUp \subseteq givenUp',
         \A q \in Conns : line'[q].round = line[q].round,
         \A q \in registered : sock'[q] = "open" => sock[q] = "open"
  PROVE  \A r, q \in Conns : PairKept(r, q)'
<1> SUFFICES ASSUME NEW r \in Conns, NEW q \in Conns PROVE PairKept(r, q)' OBVIOUS
<1>1. PairKept(r, q) BY PairKeptIsInv DEF HearingInv
<1>2. Heard(r, q)' = Heard(r, q) BY DEF Heard
<1>3. Hears(r)' => Hears(r) BY DEF Hears
<1>4. Upcoming(r, q)' = Upcoming(r, q) BY DEF Upcoming
<1>5. line[q].round \in Nat BY RoundTypes DEF HearingInv
<1> QED BY <1>1, <1>2, <1>3, <1>4, <1>5, PairUntouched DEF HearingInv

LEMMA AcceptHearing ==
  ASSUME HearingInv, BaseInv', NEW c \in Conns, Accept(c)
  PROVE  \A r, q \in Conns : PairKept(r, q)'
<1>1. /\ pc[c] = "none" /\ registered' = registered \cup {c}
      /\ UNCHANGED <<clientVars, line, inbox, cached, givenUp>>
  BY DEF Accept, cacheVars
<1>2. PICK sees \in SUBSET {q \in Conns : pc[q] = "send"} :
        todo' = [q \in Conns |-> IF q \in sees THEN todo[q] \cup {c} ELSE todo[q]]
  BY DEF Accept
<1>3. inbox[c] = << >> /\ line[c].round = 0
  BY <1>1 DEF HearingInv, BaseInv, PhasesOK
<1> SUFFICES ASSUME NEW r \in Conns, NEW q \in Conns PROVE PairKept(r, q)' OBVIOUS
<1>4. PairKept(r, q) BY PairKeptIsInv DEF HearingInv
<1>5. CASE r = c
  <2>1. Heard(r, q)' = {} BY <1>1, <1>3, <1>5 DEF Heard
  <2>2. ~(line'[r].round > 0) BY <1>1, <1>3, <1>5
  <2> QED BY <2>1, <2>2 DEF PairKept
<1>6. CASE r # c
  <2>1. Hears(r)' => Hears(r) BY <1>1, <1>6 DEF Hears, clientVars
  <2>2. Upcoming(r, q)' = Upcoming(r, q) BY <1>1, <1>2, <1>6 DEF Upcoming
  <2>3. Heard(r, q)' = Heard(r, q) BY <1>1 DEF Heard
  <2>4. line[q].round \in Nat BY RoundTypes DEF HearingInv
  <2> QED BY <1>1, <1>4, <2>1, <2>2, <2>3, <2>4, PairUntouched DEF HearingInv
<1> QED BY <1>5, <1>6

(* A round that starts is, for whoever is to be visited, the one that was  *)
(* upcoming.                                                               *)
LEMMA StartRoundPairs ==
  ASSUME HearingInv, BaseInv', NEW c \in Conns,
         NEW kind, NEW text, NEW targets, NEW fails,
         StartRound(c, kind, text, targets, fails), pc[c] # "send",
         registered' \subseteq targets, registered' \subseteq registered,
         UNCHANGED <<clientVars, inbox>>,
         NEW r \in Conns, NEW q \in Conns,
         line'[r].round > 0 => line[r].round > 0, cached'[r] = cached[r],
         givenUp' = givenUp
  PROVE  PairKept(r, q)'
<1>1. /\ line'[c] = [from |-> c, kind |-> kind, text |-> text, round |-> line[c].round + 1]
      /\ todo'[c] = targets \ {c}
      /\ \A p \in Conns \ {c} : line'[p] = line[p] /\ todo'[p] = todo[p]
  BY StartRoundValues DEF HearingInv
<1>2. line'[c].round = line[c].round + 1 BY <1>1
<1>3. todo[c] = {} BY DEF HearingInv, BaseInv, TypeOK
<1>4. PairKept(r, q) BY PairKeptIsInv DEF HearingInv
<1>5. Heard(r, q)' = Heard(r, q) BY DEF Heard
<1>6. line[q].round \in Nat /\ line[c].round \in Nat BY RoundTypes DEF HearingInv
<1>7. line[q].round <= line'[q].round BY <1>1, <1>2, <1>6
<1>8. Hears(r)' => Hears(r) /\ r \in targets BY DEF Hears, clientVars
<1>9. ASSUME Hears(r)', r # q PROVE Upcoming(r, q)' = Upcoming(r, q)
  <2>1. CASE q = c BY <1>1, <1>2, <1>3, <1>8, <1>9, <2>1 DEF Upcoming
  <2>2. CASE q # c BY <1>1, <2>2 DEF Upcoming
  <2> QED BY <2>1, <2>2
<1>10. \A i \in Heard(r, q) : inbox'[r][i].round = inbox[r][i].round OBVIOUS
<1> QED BY <1>4, <1>5, <1>7, <1>8, <1>9, <1>10, PairUntouched DEF HearingInv

LEMMA SpokenHearing ==
  ASSUME HearingInv, BaseInv', NEW c \in Conns, Decode(c) \/ Unregister(c)
  PROVE  \A r, q \in Conns : PairKept(r, q)'
<1> SUFFICES ASSUME NEW r \in Conns, NEW q \in Conns PROVE PairKept(r, q)' OBVIOUS
<1>1. PICK kind, text, targets, fails :
        /\ StartRound(c, kind, text, targets, fails)
        /\ registered' \subseteq targets /\ registered' \subseteq registered
  BY DEF Decode, Unregister
<1>2. pc[c] # "send" /\ pc[c] \notin {"none", "greet"} BY DEF Decode, Unregister
<1>3. UNCHANGED <<clientVars, inbox, cached, givenUp>>
  BY DEF Decode, Unregister, cacheVars
<1>4. line'[r].round > 0 => line[r].round > 0
  <2>1. line[c].round # 0 BY <1>2 DEF HearingInv, BaseInv, PhasesOK
  <2>2. line[c].round \in Nat BY RoundTypes DEF HearingInv
  <2>3. r # c => line'[r] = line[r] BY <1>1, StartRoundValues DEF HearingInv
  <2> QED BY <2>1, <2>2, <2>3
<1> QED BY <1>1, <1>2, <1>3, <1>4, StartRoundPairs

(* When c is greeted it is in time for all but what is being sent, and not *)
(* yet pushed: at most one round of each other connection.                 *)
LEMMA GreetedInTime ==
  ASSUME HearingInv, NEW r \in Conns, NEW q \in Conns, cached'[r] = ToSet(storage),
         givenUp' = givenUp, NEW n \in Nat, n <= line[q].round + 1
  PROVE  Missed(r, q, n)' \subseteq {n - 1}
<1>1. PushedRounds(q) \in Nat /\ n <= PushedRounds(q) + 2
  <2>1. line[q].round \in Nat BY RoundTypes DEF HearingInv
  <2>2. (pc[q] \in {"send", "pop", "put", "done"} \/ failed[q]) => line[q].round # 0
    BY DEF HearingInv, BaseInv, PhasesOK
  <2> QED BY <2>1, <2>2 DEF PushedRounds
<1> SUFFICES ASSUME NEW k \in 1..n - 1,
                    [from |-> q, round |-> k] \notin ToSet(storage) \cup givenUp
      PROVE k = n - 1
  BY DEF Missed
<1>2. k \notin 1..PushedRounds(q) BY DEF HearingInv, PushedOK
<1> QED BY <1>1, <1>2

LEMMA HandShakeHearing ==
  ASSUME HearingInv, BaseInv', NEW c \in Conns, HandShake(c)
  PROVE  \A r, q \in Conns : PairKept(r, q)'
<1> SUFFICES ASSUME NEW r \in Conns, NEW q \in Conns PROVE PairKept(r, q)' OBVIOUS
<1>1. /\ StartRound(c, "joined", << >>, registered, sock[c] = "reset")
      /\ pc[c] = "greet"
      /\ cached' = [cached EXCEPT ![c] = ToSet(storage)]
      /\ UNCHANGED <<clientVars, registered, receiveVars, inbox, storage, givenUp>>
  BY DEF HandShake
<1>2. \A p \in Conns \ {c} : line'[p] = line[p] /\ todo'[p] = todo[p]
  BY <1>1, StartRoundValues DEF HearingInv
<1>3. cached \in [Conns -> SUBSET StoredMessages] BY DEF HearingInv, BaseInv, TypeOK
<1>4. CASE r # c
  <2>1. line'[r] = line[r] /\ cached'[r] = cached[r] BY <1>1, <1>2, <1>3, <1>4
  <2> QED BY <1>1, <2>1, StartRoundPairs
<1>5. CASE r = c /\ q # c
  <2>1. PairKept(r, q) BY PairKeptIsInv DEF HearingInv
  <2>2. cached'[r] = ToSet(storage) BY <1>1, <1>3, <1>5
  <2>3. line[q].round \in Nat BY RoundTypes DEF HearingInv
  <2>4. \A i \in Heard(r, q) : inbox[r][i].round \in Nat
    BY RoundTypes DEF HearingInv, Heard
  <2>5. /\ Heard(r, q)' = Heard(r, q) /\ inbox' = inbox /\ line'[q] = line[q]
        /\ Hears(r)' = Hears(r) /\ Upcoming(r, q)' = Upcoming(r, q)
    BY <1>1, <1>2, <1>5 DEF Heard, Hears, Upcoming, clientVars
  <2>6. Upcoming(r, q) <= line[q].round + 1 BY <2>3 DEF Upcoming
  <2>7. \A i \in Heard(r, q)' : r # q /\ inbox'[r][i].round <= line'[q].round
    BY <2>1, <2>5 DEF PairKept
  <2>8. \A i \in Heard(r, q)' :
          Hears(r)' /\ (\A k \in Heard(r, q)' : k <= i) =>
            Upcoming(r, q)' = inbox'[r][i].round + 1
    BY <2>1, <2>5 DEF PairKept
  <2>9. Missed(r, q, Upcoming(r, q))' \subseteq {Upcoming(r, q)' - 1}
    <3>1. Upcoming(r, q) \in Nat BY RoundTypes DEF HearingInv
    <3>2. \A n \in Nat : n <= line[q].round + 1 => Missed(r, q, n)' \subseteq {n - 1}
      BY <1>1, <2>2, GreetedInTime
    <3> QED BY <2>5, <2>6, <3>1, <3>2 DEF Missed
  <2>10. \A i, j \in Heard(r, q)' :
           i < j /\ (\A k \in Heard(r, q)' : k <= i \/ j <= k) =>
             inbox'[r][j].round = inbox'[r][i].round + 1
    BY <2>1, <2>5 DEF PairKept
  <2>11. \A i \in Heard(r, q)' :
           Missed(r, q, inbox[r][i].round)' \subseteq {inbox'[r][i].round - 1}
    <3> SUFFICES ASSUME NEW i \in Heard(r, q)
          PROVE Missed(r, q, inbox[r][i].round)' \subseteq {inbox[r][i].round - 1}
      BY <2>5
    <3>1. /\ inbox[r][i].round \in Nat /\ inbox[r][i].round <= line[q].round + 1
      BY <2>1, <2>3, <2>4 DEF PairKept
    <3>2. \A n \in Nat : n <= line[q].round + 1 => Missed(r, q, n)' \subseteq {n - 1}
      BY <1>1, <2>2, GreetedInTime
    <3> QED BY <2>5, <3>1, <3>2 DEF Missed
  <2> QED BY <2>7, <2>8, <2>9, <2>10, <2>11 DEF PairKept
<1>6. CASE r = c /\ q = c
  <2>1. PairKept(r, q) BY PairKeptIsInv DEF HearingInv
  <2>2. Heard(r, q) = {} BY <1>6, <2>1 DEF PairKept
  <2>3. Heard(r, q)' = {} BY <1>1, <2>2 DEF Heard
  <2> QED BY <1>6, <2>3 DEF PairKept
<1> QED BY <1>4, <1>5, <1>6

(* What r has heard of c after one more line: the new one, behind the old. *)
LEMMA HeardAppended ==
  ASSUME BaseInv, NEW c \in Conns, NEW r \in Conns, NEW q \in Conns,
         inbox'[r] = Append(inbox[r], line[c])
  PROVE  \E last \in Nat :
           /\ q = c => Heard(r, q)' = Heard(r, q) \cup {last}
           /\ q # c => Heard(r, q)' = Heard(r, q)
           /\ inbox'[r][last] = line[c]
           /\ \A i \in Heard(r, q) : /\ i \in Nat /\ i < last
                                     /\ inbox'[r][i] = inbox[r][i]
<1> DEFINE last == Len(inbox[r]) + 1
<1>1. inbox[r] \in Seq(Lines) /\ line[c] \in Lines BY RoundTypes
<1>2. inbox'[r] = Append(inbox[r], line[c]) OBVIOUS
<1>3. Len(inbox[r]) \in Nat /\ DOMAIN inbox[r] = 1..Len(inbox[r])
  BY <1>1, LenProperties
<1>4. /\ inbox'[r] \in Seq(Lines) /\ Len(inbox'[r]) = last
      /\ \A i \in 1..Len(inbox[r]) : inbox'[r][i] = inbox[r][i]
      /\ inbox'[r][last] = line[c]
  BY <1>1, <1>2, AppendProperties
<1>5. DOMAIN inbox'[r] = 1..last BY <1>4, LenProperties
<1>6. line[c].from = c BY DEF BaseInv, PhasesOK
<1>7. Heard(r, q)' = {i \in 1..last : inbox'[r][i].from = q} BY <1>5 DEF Heard
<1>8. Heard(r, q) = {i \in 1..Len(inbox[r]) : inbox[r][i].from = q} BY <1>3 DEF Heard
<1>9. \A i : i \in 1..last <=> i \in 1..Len(inbox[r]) \/ i = last BY <1>3
<1>10. last \notin 1..Len(inbox[r]) BY <1>3
<1>11. \A i \in Heard(r, q) : i \in Nat /\ i < last /\ inbox'[r][i] = inbox[r][i]
  BY <1>3, <1>4, <1>8
<1>12. Heard(r, q)' = IF q = c THEN Heard(r, q) \cup {last} ELSE Heard(r, q)
  <2> HIDE DEF last
  <2> QED BY <1>4, <1>6, <1>7, <1>8, <1>9, <1>10
<1>13. last \in Nat BY <1>3
<1>14. inbox'[r][last] = line[c] BY <1>4
<1> HIDE DEF last
<1> QED BY <1>11, <1>12, <1>13, <1>14

(* A visit: what r was to hear next of c is what it hears.                 *)
LEMMA VisitHearing ==
  ASSUME HearingInv, BaseInv', NEW c \in Conns, NEW r \in Conns, Visit(c, r)
  PROVE  \A s, q \in Conns : PairKept(s, q)'
<1> SUFFICES ASSUME NEW s \in Conns, NEW q \in Conns PROVE PairKept(s, q)' OBVIOUS
<1>1. /\ r \in todo[c] /\ r # c
      /\ UNCHANGED <<clientVars, registered, line, cached, givenUp>>
      /\ todo'[c] = todo[c] \ {r} /\ \A p \in Conns \ {c} : todo'[p] = todo[p]
  BY DEF Visit, cacheVars, HearingInv, BaseInv, TypeOK
<1>2. PairKept(s, q) BY PairKeptIsInv DEF HearingInv
<1>3. Hears(s)' <=> Hears(s) BY <1>1 DEF Hears, clientVars
<1>4. line[q].round \in Nat BY RoundTypes DEF HearingInv
<1>5. CASE ~Hears(r) \/ s # r
  <2>1. inbox'[s] = inbox[s] BY <1>5 DEF Visit, Hears, HearingInv, BaseInv, TypeOK
  <2>2. Heard(s, q)' = Heard(s, q) BY <2>1 DEF Heard
  <2>3. Hears(s)' => Upcoming(s, q)' = Upcoming(s, q)
    BY <1>1, <1>3, <1>5 DEF Upcoming
  <2> QED BY <1>1, <1>2, <1>3, <1>4, <2>1, <2>2, <2>3, PairUntouched DEF HearingInv
<1>6. CASE Hears(r) /\ s = r
  <2>1. inbox'[r] = Append(inbox[r], line[c])
    BY <1>6 DEF Visit, Hears, HearingInv, BaseInv, TypeOK
  <2>2. PICK last \in Nat :
          /\ q = c => Heard(r, q)' = Heard(r, q) \cup {last}
          /\ q # c => Heard(r, q)' = Heard(r, q)
          /\ inbox'[r][last] = line[c]
          /\ \A i \in Heard(r, q) : /\ i \in Nat /\ i < last
                                    /\ inbox'[r][i] = inbox[r][i]
    BY <2>1, HeardAppended, ZenonT(30) DEF HearingInv
  <2>3. CASE q # c
    <3>1. Upcoming(r, q)' = Upcoming(r, q) BY <1>1, <2>3 DEF Upcoming
    <3> QED BY <1>1, <1>2, <1>3, <1>4, <1>6, <2>2, <2>3, <3>1, PairUntouched
            DEF HearingInv
  <2>4. CASE q = c
    <3> DEFINE old == Heard(r, c)
               round == line[c].round
    <3>1. /\ Heard(r, c)' = old \cup {last} /\ inbox'[r][last].round = round
          /\ \A i \in old : /\ i \in Nat /\ i < last
                            /\ inbox'[r][i].round = inbox[r][i].round
      BY <2>2, <2>4
    <3>2. Upcoming(r, c) = round /\ Upcoming(r, c)' = round + 1 /\ line' = line
      BY <1>1 DEF Upcoming
    <3>3. PairKept(r, c) BY <1>2, <1>6, <2>4
    <3>4. round \in Nat /\ \A i \in old : inbox[r][i].round \in Nat
      BY RoundTypes DEF HearingInv, Heard
    <3>5. \A i \in Heard(r, c)' : r # c /\ inbox'[r][i].round <= line'[c].round
      BY <1>1, <3>1, <3>2, <3>3, <3>4 DEF PairKept
    <3>6. \A i \in Heard(r, c)' :
            (\A k \in Heard(r, c)' : k <= i) => Upcoming(r, c)' = inbox'[r][i].round + 1
      BY <3>1, <3>2
    <3>7. \A i, j \in Heard(r, c)' :
            i < j /\ (\A k \in Heard(r, c)' : k <= i \/ j <= k) =>
              inbox'[r][j].round = inbox'[r][i].round + 1
      <4> SUFFICES ASSUME NEW i \in old \cup {last}, NEW j \in old \cup {last}, i < j,
                          \A k \in old \cup {last} : k <= i \/ j <= k
            PROVE inbox'[r][j].round = inbox'[r][i].round + 1
        BY <3>1
      <4>1. i \in old BY <3>1
      <4>2. CASE j = last
        <5>1. \A k \in old : k <= i BY <3>1, <4>1, <4>2
        <5>2. Upcoming(r, c) = inbox[r][i].round + 1
          BY <1>6, <3>3, <4>1, <5>1 DEF PairKept
        <5> QED BY <3>1, <3>2, <4>1, <4>2, <5>2
      <4>3. CASE j # last
        <5>1. inbox[r][j].round = inbox[r][i].round + 1
          BY <3>3, <4>1, <4>3 DEF PairKept
        <5> QED BY <3>1, <4>1, <4>3, <5>1
      <4> QED BY <4>2, <4>3
    <3>8. \A i \in Heard(r, c)' :
            (\A k \in Heard(r, c)' : i <= k) /\ line'[r].round > 0 =>
              Missed(r, c, inbox[r][i].round)' \subseteq {inbox'[r][i].round - 1}
      <4> SUFFICES ASSUME NEW i \in old \cup {last}, \A k \in old \cup {last} : i <= k,
                          line[r].round > 0
            PROVE Missed(r, c, inbox'[r][i].round) \subseteq {inbox'[r][i].round - 1}
        BY <1>1, <3>1, <3>2 DEF Missed
      <4>1. CASE old = {}
        BY <1>1, <1>6, <3>1, <3>2, <3>3, <4>1 DEF PairKept
      <4>2. CASE old # {}
        <5>1. i \in old BY <3>1, <4>2
        <5>2. Missed(r, c, inbox[r][i].round) \subseteq {inbox[r][i].round - 1}
          BY <3>3, <5>1 DEF PairKept
        <5> QED BY <3>1, <5>1, <5>2
      <4> QED BY <4>1, <4>2
    <3>9. Heard(r, c)' # {} BY <3>1
    <3>10. PairKept(r, c)' BY <3>5, <3>6, <3>7, <3>8, <3>9 DEF PairKept
    <3> QED BY <1>6, <2>4, <3>10
  <2> QED BY <2>3, <2>4
<1> QED BY <1>5, <1>6

(* A Push ends without touching the rounds.                                *)
LEMMA PushRounds ==
  ASSUME BaseInv, NEW c \in Conns, Pop(c) \/ Refuse(c) \/ Put(c)
  PROVE  \A q \in Conns : line'[q].round = line[q].round
<1>1. line \in [Conns -> Lines] BY DEF BaseInv, TypeOK
<1>2. line' = line \/ line' = [line EXCEPT ![c] = [@ EXCEPT !.text = << >>]]
  BY DEF Pop, Refuse, Put, Pushed, roundVars
<1> QED BY <1>1, <1>2 DEF Lines

(* What is given to the storage stays there, or is given up.               *)
LEMMA PushedUntouched ==
  ASSUME PushedOK, ToSet(storage) \cup givenUp \subseteq ToSet(storage') \cup givenUp',
         \A q \in Conns : PushedRounds(q)' = PushedRounds(q)
  PROVE  PushedOK'
BY DEF PushedOK

LEMMA MessagePushed ==
  ASSUME BaseInv, PushedOK, NEW c \in Conns, Refuse(c) \/ Put(c)
  PROVE  PushedOK'
<1>1. ToSet(storage) \cup givenUp \cup {Message(c)} \subseteq ToSet(storage') \cup givenUp'
  <2>1. CASE Refuse(c) BY <2>1 DEF Refuse
  <2>2. CASE Put(c) BY <2>2, PutBase DEF Put
  <2> QED BY <2>1, <2>2
<1>2. /\ pc[c] \in {"pop", "put"} /\ pc' = [pc EXCEPT ![c] = AfterPush(c)]
      /\ failed' = failed
  BY DEF Refuse, Put, Pushed
<1>3. /\ \A q \in Conns : line'[q].round = line[q].round
      /\ line[c].round \in Nat
  BY PushRounds DEF BaseInv, TypeOK, Lines
<1>4. \A q \in Conns \ {c} : PushedRounds(q)' = PushedRounds(q)
  BY <1>2, <1>3 DEF PushedRounds, BaseInv, TypeOK
<1>5. PushedRounds(c) = line[c].round - 1 /\ PushedRounds(c)' \in {line[c].round - 1, line[c].round}
  BY <1>2, <1>3 DEF PushedRounds
<1> SUFFICES ASSUME NEW q \in Conns, NEW k \in 1..PushedRounds(q)'
      PROVE [from |-> q, round |-> k] \in ToSet(storage') \cup givenUp'
  BY DEF PushedOK
<1>6. CASE k \in 1..PushedRounds(q) BY <1>1, <1>6 DEF PushedOK
<1>7. CASE k \notin 1..PushedRounds(q)
  <2>1. q = c BY <1>4, <1>7
  <2>2. k = line[c].round BY <1>3, <1>5, <1>7, <2>1
  <2> QED BY <1>1, <2>1, <2>2 DEF Message
<1> QED BY <1>6, <1>7

LEMMA StepPushed ==
  ASSUME BaseInv, PushedOK, [Next]_vars
  PROVE  PushedOK'
<1>0. /\ pc \in [Conns -> {"none", "greet", "send", "pop", "put", "receive", "decode",
                            "unregister", "done", "dead"}]
      /\ failed \in [Conns -> BOOLEAN]
      /\ \A q \in Conns : line[q].round \in Nat
  BY DEF BaseInv, TypeOK, Lines
<1> DEFINE Quiet == /\ UNCHANGED <<storage, givenUp>>
                    /\ \A q \in Conns : PushedRounds(q)' = PushedRounds(q)
<1>1. Quiet => PushedOK' BY PushedUntouched
<1>2. ASSUME NEW c \in Conns, Client(c) PROVE Quiet
  BY <1>2 DEF Client, Connect, ClientSend, ClientStop, Reset, roundVars, cacheVars,
              PushedRounds
<1>3. ASSUME NEW c \in Conns, Accept(c) PROVE Quiet
  <2>1. UNCHANGED <<storage, givenUp, line, failed>> /\ pc[c] = "none"
        /\ pc' = [pc EXCEPT ![c] = "greet"]
    BY <1>3 DEF Accept, cacheVars
  <2> QED BY <1>0, <2>1 DEF PushedRounds
<1>4. ASSUME NEW c \in Conns, NEW r \in Conns, Visit(c, r) PROVE Quiet
  <2>1. /\ UNCHANGED <<storage, givenUp, line, pc>> /\ pc[c] = "send"
        /\ \A q \in Conns \ {c} : failed'[q] = failed[q]
    BY <1>0, <1>4 DEF Visit, cacheVars
  <2> QED BY <2>1 DEF PushedRounds
<1>5. ASSUME NEW c \in Conns, SendsDone(c) PROVE Quiet
  <2>1. /\ UNCHANGED <<storage, givenUp, line, failed>> /\ pc[c] = "send"
        /\ \A q \in Conns \ {c} : pc'[q] = pc[q]
        /\ pc'[c] \in {"pop", "put", "done"} \/ failed[c]
    BY <1>0, <1>5 DEF SendsDone, FirstOfPush, roundVars, cacheVars
  <2> QED BY <2>1 DEF PushedRounds
<1>6. ASSUME NEW c \in Conns, Pop(c) PROVE PushedOK'
  <2>1. pc[c] = "pop" /\ pc' = [pc EXCEPT ![c] = "put"] /\ UNCHANGED <<line, failed>>
    BY <1>6 DEF Pop, roundVars
  <2>2. \A q \in Conns : PushedRounds(q)' = PushedRounds(q)
    BY <1>0, <2>1 DEF PushedRounds
  <2> QED BY <1>6, <2>2, PopBase, PushedUntouched
<1>7. ASSUME NEW c \in Conns, Receive(c) \/ ReceiveFails(c) PROVE Quiet
  <2>1. /\ UNCHANGED <<storage, givenUp, line, failed>> /\ pc[c] = "receive"
        /\ \A q \in Conns \ {c} : pc'[q] = pc[q]
        /\ pc'[c] \in {"decode", "dead"}
    BY <1>0, <1>7 DEF Receive, ReceiveFails, roundVars, cacheVars
  <2> QED BY <2>1 DEF PushedRounds
<1>8. ASSUME NEW c \in Conns, HandShake(c) \/ Decode(c) \/ Unregister(c) PROVE Quiet
  <2>1. PICK kind, text, targets, fails :
          StartRound(c, kind, text, targets, fails)
    BY <1>8 DEF HandShake, Decode, Unregister
  <2>2. /\ line'[c] = [from |-> c, kind |-> kind, text |-> text,
                       round |-> line[c].round + 1]
        /\ \A q \in Conns \ {c} : line'[q] = line[q] /\ failed'[q] = failed[q]
    BY <2>1, StartRoundValues
  <2>3. /\ UNCHANGED <<storage, givenUp>> /\ pc[c] \in {"greet", "decode", "unregister"}
        /\ pc' = [pc EXCEPT ![c] = "send"]
    BY <1>8 DEF HandShake, Decode, Unregister, cacheVars
  <2>4. ~failed[c] BY <2>3, <1>8 DEF BaseInv, PhasesOK
  <2> QED BY <1>0, <2>2, <2>3, <2>4 DEF PushedRounds
<1>9. ASSUME UNCHANGED vars PROVE Quiet
  BY <1>9 DEF vars, roundVars, cacheVars, PushedRounds
<1> HIDE DEF Quiet
<1> QED BY <1>1, <1>2, <1>3, <1>4, <1>5, <1>6, <1>7, <1>8, <1>9, MessagePushed
        DEF Next, Handler, MakeRoom

LEMMA StepHearing ==
  ASSUME HearingInv, BaseInv', [Next]_vars
  PROVE  \A r, q \in Conns : PairKept(r, q)'
<1>0. /\ sock \in [Conns -> {"none", "open", "closed", "reset"}]
      /\ registered \subseteq Conns
      /\ \A q \in registered : sock[q] # "none"
  BY DEF HearingInv, BaseInv, TypeOK, PhasesOK
<1> DEFINE Quiet == /\ UNCHANGED <<inbox, todo, cached, registered>>
                    /\ givenUp \subseteq givenUp'
                    /\ \A q \in Conns : line'[q].round = line[q].round
                    /\ \A q \in registered : sock'[q] = "open" => sock[q] = "open"
<1>1. Quiet => \A r, q \in Conns : PairKept(r, q)' BY QuietHearing
<1>2. ASSUME NEW c \in Conns, Client(c) PROVE Quiet
  BY <1>0, <1>2
  DEF Client, Connect, ClientSend, ClientStop, Reset, roundVars, cacheVars
<1>3. ASSUME NEW c \in Conns, SendsDone(c) \/ Receive(c) \/ ReceiveFails(c) PROVE Quiet
  BY <1>3 DEF SendsDone, Receive, ReceiveFails, roundVars, clientVars, cacheVars
<1>4. ASSUME NEW c \in Conns, Pop(c) \/ Refuse(c) \/ Put(c) PROVE Quiet
  <2>1. \A q \in Conns : line'[q].round = line[q].round
    BY <1>4, PushRounds DEF HearingInv
  <2> QED BY <1>4, <2>1 DEF Pop, Refuse, Put, Pushed, clientVars, roundVars
<1>5. ASSUME UNCHANGED vars PROVE Quiet
  BY <1>5 DEF vars, clientVars, roundVars, cacheVars
<1> HIDE DEF Quiet
<1> QED BY <1>1, <1>2, <1>3, <1>4, <1>5, AcceptHearing, HandShakeHearing,
           VisitHearing, SpokenHearing DEF Next, Handler, MakeRoom

LEMMA HearingInvariant == Spec => []HearingInv
<1>1. Init => HearingInv
  <2> SUFFICES ASSUME Init PROVE HearingInv OBVIOUS
  <2>1. \A r, c \in Conns : Heard(r, c) = {} BY DEF Init, Heard
  <2>2. \A r \in Conns : ~Hears(r) BY DEF Init, Hears
  <2>3. \A r, c \in Conns : PairKept(r, c) BY <2>1, <2>2 DEF PairKept
  <2>4. \A c \in Conns : 1..PushedRounds(c) = {} BY DEF Init, PushedRounds
  <2> QED BY <2>3, <2>4, PairKeptIsInv, InitBase DEF HearingInv, PushedOK
<1>2. HearingInv /\ [Next]_vars => HearingInv'
  <2> SUFFICES ASSUME HearingInv, [Next]_vars PROVE HearingInv' OBVIOUS
  <2>1. BaseInv' BY StepBase DEF HearingInv
  <2>2. \A r, c \in Conns : PairKept(r, c)' BY <2>1, StepHearing
  <2>3. HeardOK' /\ LastHeard' /\ FirstToHear' /\ RoundsContiguous'
        /\ NewcomerMissesAtMostOne'
    BY <2>2 DEF HeardOK, LastHeard, FirstToHear, RoundsContiguous,
                NewcomerMissesAtMostOne, PairKept
  <2>4. PushedOK' BY StepPushed DEF HearingInv
  <2> QED BY <2>1, <2>3, <2>4 DEF HearingInv
<1> QED BY <1>1, <1>2, PTL DEF Spec

(* SocketServer.SendToAll: with any number of handlers sending at once, and*)
(* connections that join and are removed while they do, whoever hears of a *)
(* connection hears its rounds one after the other, none twice, none left  *)
(* out.                                                                    *)
THEOREM RoundsAreContiguous == Spec => []RoundsContiguous
<1>1. HearingInv => RoundsContiguous BY DEF HearingInv
<1> QED BY <1>1, HearingInvariant, PTL

(* SocketServer.HandShakeAsync and MessageStorage.Push: of the messages    *)
(* sent before the first that a newcomer hears of a connection, the cached *)
(* ones it is greeted with lack at most the one before that; any other is  *)
(* one that Push has given up, for a storage of any size and any number of *)
(* connections that push at once.                                          *)
THEOREM NewcomersMissAtMostOne == Spec => []NewcomerMissesAtMostOne
<1>1. HearingInv => NewcomerMissesAtMostOne BY DEF HearingInv
<1> QED BY <1>1, HearingInvariant, PTL
=============================================================================
