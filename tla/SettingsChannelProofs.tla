----------------------- MODULE SettingsChannelProofs -----------------------
(***************************************************************************)
(* Timeouts and reports of SettingsChannel, for any number of clients and  *)
(* any number of broadcasts, reports and restarts of the server.           *)
(***************************************************************************)
EXTENDS SettingsChannel, SequenceTheorems, TLAPS

IsTimeout(m) == m.kind = "NewTimeout"

(* The commands a client has still to handle, in its queue q, and the      *)
(* timeout tm it has: the timeouts come in order, none older than tm, none *)
(* newer than the last one broadcast.                                      *)
Ordered(q, tm, last) ==
  /\ \A i \in 1..Len(q) : IsTimeout(q[i]) => tm <= q[i].value /\ q[i].value <= last
  /\ \A i, j \in 1..Len(q) :
       i < j /\ IsTimeout(q[i]) /\ IsTimeout(q[j]) => q[i].value <= q[j].value

(* With q handled the timeout is the last one broadcast.                   *)
Reaches(q, tm, last) ==
  \/ tm = last /\ \A i \in 1..Len(q) : ~IsTimeout(q[i])
  \/ \E i \in 1..Len(q) : /\ IsTimeout(q[i]) /\ q[i].value = last
                          /\ \A j \in 1..Len(q) : j > i => ~IsTimeout(q[j])

(* A question that asks for a timeout is in q behind that timeout, unless  *)
(* the client has it; and only a client with its handler is asked for one. *)
Answerable(q, c, tm, hooked) ==
  \A i \in 1..Len(q) :
    ~IsTimeout(q[i]) =>
      \/ q[i].least[c] <= tm
      \/ hooked /\ \E j \in 1..Len(q) : /\ j < i /\ IsTimeout(q[j])
                                        /\ q[i].least[c] <= q[j].value

CommandsOK ==
  \A c \in Clients : /\ Ordered(inbox[c], timeout[c], latest)
                     /\ Answerable(inbox[c], c, timeout[c], Hooked(c))
                     /\ c \in due => /\ Hooked(c)
                                     /\ Reaches(inbox[c], timeout[c], latest)

Fresh(r) == r.timeout >= r.least

(* A report is older than the settings of its client; of the dispatcher's  *)
(* reports the one under way is the newest.                                *)
PendingOK ==
  \A c \in Clients, t \in Threads :
    report[c][t] # Nothing =>
      /\ report[c][t].from = c /\ report[c][t].by = t
      /\ Fresh(report[c][t]) /\ report[c][t].timeout <= timeout[c]

QueueOK ==
  /\ \A i \in 1..Len(queue) :
       LET r == queue[i]
           p == report[r.from]["dispatcher"]
       IN /\ Fresh(r) /\ r.timeout <= timeout[r.from]
          /\ r.by = "dispatcher" /\ p # Nothing => r.timeout <= p.timeout
  /\ \A i, j \in 1..Len(queue) :
       /\ i < j /\ queue[i].from = queue[j].from
       /\ queue[i].by = "dispatcher" /\ queue[j].by = "dispatcher"
       => queue[i].timeout <= queue[j].timeout

PrintedOK == \A c \in Clients : printed[c] # Nothing => Fresh(printed[c])

ChannelInv == TypeOK /\ CommandsOK /\ PendingOK /\ QueueOK /\ PrintedOK
-----------------------------------------------------------------------------
(* Queues.                                                                 *)
LEMMA TailFacts ==
  ASSUME NEW S, NEW s \in Seq(S), s # << >>
  PROVE  /\ Len(s) \in Nat \ {0} /\ Head(s) = s[1] /\ Head(s) \in S
         /\ Tail(s) \in Seq(S) /\ Len(Tail(s)) = Len(s) - 1
         /\ \A i \in 1..Len(s) - 1 : Tail(s)[i] = s[i + 1]
<1>1. Len(s) \in Nat \ {0} /\ s[1] \in S BY EmptySeq
<1> QED BY <1>1, HeadTailProperties

LEMMA AppendFacts ==
  ASSUME NEW S, NEW s \in Seq(S), NEW e \in S
  PROVE  /\ Len(s) \in Nat /\ Append(s, e) \in Seq(S)
         /\ Len(Append(s, e)) = Len(s) + 1
         /\ \A i \in 1..Len(s) : Append(s, e)[i] = s[i]
         /\ Append(s, e)[Len(s) + 1] = e
         /\ \A i \in 1..Len(s) + 1 : i \in 1..Len(s) \/ i = Len(s) + 1
BY AppendProperties

LEMMA CommandFacts ==
  ASSUME NEW m \in Command
  PROVE  /\ IsTimeout(m) => m.value \in Nat
         /\ ~IsTimeout(m) => m.kind = "UpdateStatus" /\ m.least \in [Clients -> Nat]
BY DEF Command, IsTimeout

(* The head of a queue is handled.                                         *)
LEMMA OrderedTail ==
  ASSUME NEW q \in Seq(Command), q # << >>, NEW tm \in Nat, NEW last \in Nat,
         Ordered(q, tm, last)
  PROVE  /\ Ordered(Tail(q), tm, last)
         /\ IsTimeout(Head(q)) => /\ Ordered(Tail(q), Head(q).value, last)
                                  /\ Head(q).value \in Nat
                                  /\ tm <= Head(q).value /\ Head(q).value <= last
<1> DEFINE t == Tail(q)
<1>1. /\ Len(q) \in Nat \ {0} /\ Head(q) = q[1] /\ Head(q) \in Command
      /\ Len(t) = Len(q) - 1 /\ \A i \in 1..Len(q) - 1 : t[i] = q[i + 1]
  BY TailFacts
<1> HIDE DEF t
<1>2. \A i \in 1..Len(t) : i + 1 \in 1..Len(q) /\ 1 < i + 1 /\ t[i] = q[i + 1]
  BY <1>1
<1>3. \A i, j \in 1..Len(t) : i < j => i + 1 < j + 1
  BY <1>1
<1>4. Ordered(t, tm, last) BY <1>2, <1>3 DEF Ordered
<1>5. 1 \in 1..Len(q) BY <1>1
<1>6. ASSUME IsTimeout(Head(q))
      PROVE  /\ Ordered(t, Head(q).value, last) /\ Head(q).value \in Nat
             /\ tm <= Head(q).value /\ Head(q).value <= last
  <2>1. Head(q).value \in Nat BY <1>1, <1>6, CommandFacts
  <2>2. tm <= Head(q).value /\ Head(q).value <= last BY <1>1, <1>5, <1>6 DEF Ordered
  <2>3. \A i \in 1..Len(t) : IsTimeout(t[i]) => Head(q).value <= t[i].value
    BY <1>1, <1>2, <1>5, <1>6 DEF Ordered
  <2> QED BY <1>4, <2>1, <2>2, <2>3 DEF Ordered
<1> QED BY <1>4, <1>6 DEF t

LEMMA ReachesTail ==
  ASSUME NEW q \in Seq(Command), q # << >>, NEW tm \in Nat, NEW last \in Nat,
         Reaches(q, tm, last)
  PROVE  IF IsTimeout(Head(q)) THEN Reaches(Tail(q), Head(q).value, last)
         ELSE Reaches(Tail(q), tm, last)
<1> DEFINE t == Tail(q)
<1>1. /\ Len(q) \in Nat \ {0} /\ Head(q) = q[1]
      /\ Len(t) = Len(q) - 1 /\ \A i \in 1..Len(q) - 1 : t[i] = q[i + 1]
  BY TailFacts
<1> HIDE DEF t
<1>2. /\ \A i \in 1..Len(t) : i + 1 \in 1..Len(q) /\ t[i] = q[i + 1]
      /\ 1 \in 1..Len(q)
  BY <1>1
<1>3. CASE tm = last /\ \A i \in 1..Len(q) : ~IsTimeout(q[i])
  <2>1. ~IsTimeout(Head(q)) /\ \A i \in 1..Len(t) : ~IsTimeout(t[i])
    BY <1>1, <1>2, <1>3
  <2> QED BY <1>3, <2>1 DEF Reaches, t
<1>4. ASSUME NEW k \in 1..Len(q), IsTimeout(q[k]), q[k].value = last,
             \A j \in 1..Len(q) : j > k => ~IsTimeout(q[j])
      PROVE  IF IsTimeout(Head(q)) THEN Reaches(t, Head(q).value, last)
             ELSE Reaches(t, tm, last)
  <2>1. CASE k = 1
    <3>1. \A i \in 1..Len(t) : ~IsTimeout(t[i])
      <4>1. \A i \in 1..Len(t) : i + 1 > 1 BY <1>1
      <4> QED BY <1>2, <1>4, <2>1, <4>1
    <3> QED BY <1>1, <1>4, <2>1, <3>1 DEF Reaches
  <2>2. CASE k # 1
    <3>1. k - 1 \in 1..Len(t) /\ t[k - 1] = q[k] BY <1>1, <2>2
    <3>2. \A j \in 1..Len(t) : j > k - 1 => j + 1 > k BY <1>1
    <3>3. \A j \in 1..Len(t) : j > k - 1 => ~IsTimeout(t[j]) BY <1>2, <1>4, <3>2
    <3>4. \A x : Reaches(t, x, last) BY <1>4, <3>1, <3>3 DEF Reaches
    <3> QED BY <3>4
  <2> QED BY <2>1, <2>2
<1> QED BY <1>3, <1>4 DEF Reaches, t

LEMMA AnswerableTail ==
  ASSUME NEW q \in Seq(Command), q # << >>, NEW tm \in Nat, NEW last \in Nat,
         NEW c \in Clients, NEW hooked \in BOOLEAN,
         Ordered(q, tm, last), Answerable(q, c, tm, hooked)
  PROVE  /\ ~hooked \/ ~IsTimeout(Head(q)) => Answerable(Tail(q), c, tm, hooked)
         /\ hooked /\ IsTimeout(Head(q)) =>
              Answerable(Tail(q), c, Head(q).value, hooked)
         /\ ~IsTimeout(Head(q)) => Head(q).least[c] <= tm
<1> DEFINE t == Tail(q)
<1>1. /\ Len(q) \in Nat \ {0} /\ Head(q) = q[1] /\ Head(q) \in Command
      /\ Len(t) = Len(q) - 1 /\ \A i \in 1..Len(q) - 1 : t[i] = q[i + 1]
      /\ \A i \in 1..Len(q) : q[i] \in Command
  BY TailFacts
<1> HIDE DEF t
<1>2. /\ \A i \in 1..Len(t) : i + 1 \in 1..Len(q) /\ t[i] = q[i + 1]
      /\ 1 \in 1..Len(q)
  BY <1>1
<1>3. ~IsTimeout(Head(q)) => Head(q).least[c] <= tm
  <2>1. ~\E j \in 1..Len(q) : j < 1 OBVIOUS
  <2> QED BY <1>1, <1>2, <2>1 DEF Answerable
<1>4. ASSUME NEW i \in 1..Len(t), ~IsTimeout(t[i])
      PROVE  \/ t[i].least[c] <= tm
             \/ hooked /\ IsTimeout(Head(q)) /\ t[i].least[c] <= Head(q).value
             \/ hooked /\ \E j \in 1..Len(t) : /\ j < i /\ IsTimeout(t[j])
                                               /\ t[i].least[c] <= t[j].value
  <2>1. CASE q[i + 1].least[c] <= tm BY <1>2, <2>1
  <2>2. ASSUME hooked, NEW j \in 1..Len(q), j < i + 1, IsTimeout(q[j]),
               q[i + 1].least[c] <= q[j].value
        PROVE  \/ IsTimeout(Head(q)) /\ t[i].least[c] <= Head(q).value
               \/ \E x \in 1..Len(t) : /\ x < i /\ IsTimeout(t[x])
                                       /\ t[i].least[c] <= t[x].value
    <3>1. CASE j = 1 BY <1>1, <1>2, <2>2, <3>1
    <3>2. CASE j # 1
      <4>1. j - 1 \in 1..Len(t) /\ j - 1 < i /\ t[j - 1] = q[j]
        BY <1>1, <2>2, <3>2
      <4> QED BY <1>2, <2>2, <4>1
    <3> QED BY <3>1, <3>2
  <2> QED BY <1>2, <1>4, <2>1, <2>2 DEF Answerable
<1>5. ~hooked \/ ~IsTimeout(Head(q)) => Answerable(t, c, tm, hooked)
  BY <1>4 DEF Answerable
<1>6. ASSUME hooked, IsTimeout(Head(q))
      PROVE  Answerable(t, c, Head(q).value, hooked)
  <2>1. Head(q).value \in Nat /\ tm <= Head(q).value
    BY <1>6, OrderedTail
  <2>2. \A i \in 1..Len(t) : ~IsTimeout(t[i]) => t[i].least[c] \in Nat
    <3>1. \A i \in 1..Len(t) : t[i] \in Command BY <1>1, <1>2
    <3> QED BY <3>1, CommandFacts
  <2>3. \A i \in 1..Len(t) : ~IsTimeout(t[i]) /\ t[i].least[c] <= tm
                             => t[i].least[c] <= Head(q).value
    BY <2>1, <2>2
  <2> QED BY <1>4, <2>3 DEF Answerable
<1> QED BY <1>3, <1>5, <1>6 DEF t

(* A command is broadcast.                                                 *)
LEMMA OrderedAppend ==
  ASSUME NEW q \in Seq(Command), NEW tm \in Nat, NEW last \in Nat, NEW newest \in Nat,
         NEW m \in Command, Ordered(q, tm, last), tm <= last, last <= newest,
         IsTimeout(m) => m.value = newest
  PROVE  Ordered(Append(q, m), tm, newest)
<1> DEFINE t == Append(q, m)
<1>1. /\ Len(q) \in Nat /\ Len(t) = Len(q) + 1
      /\ \A i \in 1..Len(q) : t[i] = q[i]
      /\ t[Len(q) + 1] = m
      /\ \A i \in 1..Len(q) + 1 : i \in 1..Len(q) \/ i = Len(q) + 1
      /\ \A i \in 1..Len(q) : q[i] \in Command
  BY AppendFacts
<1> HIDE DEF t
<1>2. \A i \in 1..Len(q) : IsTimeout(q[i]) => q[i].value \in Nat
  BY <1>1, CommandFacts
<1>3. \A i \in 1..Len(q) : IsTimeout(q[i]) => tm <= q[i].value /\ q[i].value <= newest
  BY <1>2 DEF Ordered
<1>4. \A i \in 1..Len(t) : IsTimeout(t[i]) => tm <= t[i].value /\ t[i].value <= newest
  BY <1>1, <1>3
<1>5. ASSUME NEW i \in 1..Len(t), NEW j \in 1..Len(t), i < j,
             IsTimeout(t[i]), IsTimeout(t[j])
      PROVE  t[i].value <= t[j].value
  <2>1. i \in 1..Len(q) BY <1>1, <1>5
  <2>2. CASE j \in 1..Len(q) BY <1>1, <1>5, <2>1, <2>2 DEF Ordered
  <2>3. CASE j = Len(q) + 1 BY <1>1, <1>3, <1>5, <2>1, <2>3
  <2> QED BY <1>1, <2>2, <2>3
<1> QED BY <1>4, <1>5 DEF Ordered, t

LEMMA ReachesAppend ==
  ASSUME NEW q \in Seq(Command), NEW tm \in Nat, NEW last \in Nat, NEW m \in Command
  PROVE  /\ IsTimeout(m) => Reaches(Append(q, m), tm, m.value)
         /\ ~IsTimeout(m) /\ Reaches(q, tm, last) => Reaches(Append(q, m), tm, last)
<1> DEFINE t == Append(q, m)
<1>1. /\ Len(q) \in Nat /\ Len(t) = Len(q) + 1
      /\ \A i \in 1..Len(q) : t[i] = q[i]
      /\ t[Len(q) + 1] = m
      /\ \A i \in 1..Len(q) + 1 : i \in 1..Len(q) \/ i = Len(q) + 1
  BY AppendFacts
<1> HIDE DEF t
<1>2. Len(q) + 1 \in 1..Len(t) /\ \A j \in 1..Len(t) : ~(j > Len(q) + 1) BY <1>1
<1>3. IsTimeout(m) => Reaches(t, tm, m.value) BY <1>1, <1>2 DEF Reaches
<1>4. ASSUME ~IsTimeout(m), Reaches(q, tm, last) PROVE Reaches(t, tm, last)
  <2>1. CASE tm = last /\ \A i \in 1..Len(q) : ~IsTimeout(q[i])
    BY <1>1, <1>4, <2>1 DEF Reaches
  <2>2. ASSUME NEW k \in 1..Len(q), IsTimeout(q[k]), q[k].value = last,
               \A j \in 1..Len(q) : j > k => ~IsTimeout(q[j])
        PROVE  Reaches(t, tm, last)
    <3>1. k \in 1..Len(t) BY <1>1
    <3>2. \A j \in 1..Len(t) : j > k => ~IsTimeout(t[j]) BY <1>1, <1>4, <2>2
    <3> QED BY <1>1, <2>2, <3>1, <3>2 DEF Reaches
  <2> QED BY <1>4, <2>1, <2>2 DEF Reaches
<1> QED BY <1>3, <1>4 DEF t

LEMMA AnswerableAppend ==
  ASSUME NEW q \in Seq(Command), NEW tm \in Nat, NEW m \in Command,
         NEW c \in Clients, NEW hooked \in BOOLEAN,
         Answerable(q, c, tm, hooked),
         IsTimeout(m) \/ m.least[c] = 0 \/ (hooked /\ Reaches(q, tm, m.least[c]))
  PROVE  Answerable(Append(q, m), c, tm, hooked)
<1> DEFINE t == Append(q, m)
<1>1. /\ Len(q) \in Nat /\ Len(t) = Len(q) + 1
      /\ \A i \in 1..Len(q) : t[i] = q[i]
      /\ t[Len(q) + 1] = m
      /\ \A i \in 1..Len(q) + 1 : i \in 1..Len(q) \/ i = Len(q) + 1
  BY AppendFacts
<1> HIDE DEF t
<1>2. ~IsTimeout(m) => m.least[c] \in Nat BY CommandFacts
<1>3. ASSUME ~IsTimeout(m), ~(m.least[c] <= tm)
      PROVE  hooked /\ \E j \in 1..Len(q) : /\ IsTimeout(q[j])
                                            /\ m.least[c] <= q[j].value
  <2>1. hooked /\ Reaches(q, tm, m.least[c]) BY <1>2, <1>3
  <2>2. PICK j \in 1..Len(q) : IsTimeout(q[j]) /\ q[j].value = m.least[c]
    BY <1>2, <1>3, <2>1 DEF Reaches
  <2> QED BY <1>2, <1>3, <2>1, <2>2
<1>4. ASSUME NEW i \in 1..Len(t), ~IsTimeout(t[i])
      PROVE  \/ t[i].least[c] <= tm
             \/ hooked /\ \E j \in 1..Len(t) : /\ j < i /\ IsTimeout(t[j])
                                               /\ t[i].least[c] <= t[j].value
  <2>1. 1..Len(q) \subseteq 1..Len(t) BY <1>1
  <2>2. CASE i \in 1..Len(q) BY <1>1, <1>4, <2>1, <2>2 DEF Answerable
  <2>3. CASE i = Len(q) + 1
    <3>1. \A j \in 1..Len(q) : j < i BY <1>1, <2>3
    <3> QED BY <1>1, <1>3, <1>4, <2>1, <2>3, <3>1
  <2> QED BY <1>1, <2>2, <2>3
<1> QED BY <1>4 DEF Answerable, t

(* A client that sets its handler loses no answer.                         *)
LEMMA AnswerableHooked ==
  ASSUME NEW q, NEW c, NEW tm, NEW hooked \in BOOLEAN, NEW hooked2 \in BOOLEAN,
         Answerable(q, c, tm, hooked), hooked => hooked2
  PROVE  Answerable(q, c, tm, hooked2)
BY DEF Answerable

LEMMA ReportFacts ==
  ASSUME NEW r \in Report
  PROVE  r.from \in Clients /\ r.by \in Threads /\ r.timeout \in Nat /\ r.least \in Nat
BY DEF Report

LEMMA MsgFacts ==
  ASSUME TypeOK, NEW c \in Clients, NEW t \in Threads, NEW least \in Nat
  PROVE  /\ Msg(c, t, least) \in Report
         /\ Msg(c, t, least).from = c /\ Msg(c, t, least).by = t
         /\ Msg(c, t, least).timeout = timeout[c]
         /\ Msg(c, t, least).least = least
<1>1. timeout[c] \in Nat
  <2>1. timeout[c] \in 0..latest /\ latest \in Nat BY DEF TypeOK
  <2> QED BY <2>1
<1>2. (client[c] = "ready") \in BOOLEAN OBVIOUS
<1> QED BY <1>1, <1>2 DEF Msg, Report
-----------------------------------------------------------------------------
(* Every step keeps the invariant.                                         *)
LEMMA ChannelInit == Init => ChannelInv
<1> SUFFICES ASSUME Init PROVE ChannelInv OBVIOUS
<1>1. /\ \A c \in Clients : /\ client[c] = "down" /\ timeout[c] = 0
                            /\ inbox[c] = << >> /\ printed[c] = Nothing
                            /\ \A t \in Threads : report[c][t] = Nothing
      /\ queue = << >> /\ latest = 0 /\ due = {}
  BY DEF Init
<1>2. \A S : << >> \in Seq(S) OBVIOUS
<1>3. TypeOK BY <1>2 DEF Init, TypeOK
<1>4. 1..Len(<< >>) = {} OBVIOUS
<1>5. CommandsOK BY <1>1, <1>4 DEF CommandsOK, Ordered, Answerable
<1>6. PendingOK BY <1>1 DEF PendingOK
<1>7. QueueOK BY <1>1, <1>4 DEF QueueOK
<1>8. PrintedOK BY <1>1 DEF PrintedOK
<1> QED BY <1>3, <1>5, <1>6, <1>7, <1>8 DEF ChannelInv

LEMMA ClientOK ==
  ASSUME ChannelInv, NEW c \in Clients, ClientMain(c) PROVE ChannelInv'
<1> USE DEF ChannelInv
<1>1. PICK to \in {"bound", "hooked", "ticking", "ready"} :
        /\ client' = [client EXCEPT ![c] = to]
        /\ client[c] \in {"hooked", "ticking"} => to \in {"ticking", "ready"}
        /\ client[c] # "ready"
        /\ UNCHANGED <<timeout, report, reports, serverVars, inbox, queue>>
  BY DEF ClientMain, ClientStep
<1>2. TypeOK' BY <1>1 DEF TypeOK, serverVars
<1>3. \A d \in Clients : Hooked(d) => Hooked(d)'
  BY <1>1 DEF TypeOK, Hooked
<1>4. CommandsOK'
  <2>1. \A d \in Clients : Answerable(inbox[d], d, timeout[d], Hooked(d)')
    <3>1. \A d \in Clients : Hooked(d) \in BOOLEAN /\ Hooked(d)' \in BOOLEAN
      BY DEF Hooked
    <3> QED BY <1>3, <3>1, AnswerableHooked DEF CommandsOK
  <2> QED BY <1>1, <1>3, <2>1 DEF CommandsOK, serverVars
<1>5. PendingOK' /\ QueueOK' /\ PrintedOK'
  BY <1>1 DEF PendingOK, QueueOK, PrintedOK, serverVars
<1> QED BY <1>2, <1>4, <1>5

(* The two threads of a client build reports, and nothing else changes.    *)
LEMMA BuildOK ==
  ASSUME TypeOK, PendingOK, QueueOK, NEW c \in Clients, NEW t \in Threads,
         NEW least \in Nat, least <= timeout[c],
         report' = [report EXCEPT ![c][t] = Msg(c, t, least)],
         UNCHANGED <<timeout, queue>>
  PROVE  /\ report' \in [Clients -> [Threads -> Report \cup {Nothing}]]
         /\ PendingOK' /\ QueueOK'
<1> DEFINE r == Msg(c, t, least)
<1>1. /\ r \in Report /\ r.from = c /\ r.by = t /\ r.timeout = timeout[c]
      /\ r.least = least
  BY MsgFacts
<1> HIDE DEF r
<1>2. report' = [report EXCEPT ![c][t] = r] BY DEF r
<1>3. report \in [Clients -> [Threads -> Report \cup {Nothing}]] BY DEF TypeOK
<1>4. report' \in [Clients -> [Threads -> Report \cup {Nothing}]]
  BY <1>1, <1>2, <1>3
<1>5. /\ report'[c][t] = r
      /\ \A d \in Clients, u \in Threads :
           d # c \/ u # t => report'[d][u] = report[d][u]
  BY <1>2, <1>3
<1>6. timeout[c] \in Nat
  <2>1. timeout[c] \in 0..latest /\ latest \in Nat BY DEF TypeOK
  <2> QED BY <2>1
<1>7. PendingOK'
  <2> SUFFICES ASSUME NEW d \in Clients, NEW u \in Threads, report'[d][u] # Nothing
               PROVE  /\ report'[d][u].from = d /\ report'[d][u].by = u
                      /\ Fresh(report'[d][u]) /\ report'[d][u].timeout <= timeout'[d]
    BY DEF PendingOK, Fresh
  <2>1. CASE d = c /\ u = t BY <1>1, <1>5, <1>6, <2>1 DEF Fresh
  <2>2. CASE d # c \/ u # t BY <1>5, <2>2 DEF PendingOK
  <2> QED BY <2>1, <2>2
<1>8. QueueOK'
  <2>1. \A i \in 1..Len(queue) :
          LET q == queue[i]
              p == report'[q.from]["dispatcher"]
          IN /\ Fresh(q) /\ q.timeout <= timeout[q.from]
             /\ q.by = "dispatcher" /\ p # Nothing => q.timeout <= p.timeout
    <3> SUFFICES ASSUME NEW i \in 1..Len(queue)
                 PROVE  /\ Fresh(queue[i]) /\ queue[i].timeout <= timeout[queue[i].from]
                        /\ queue[i].by = "dispatcher"
                             /\ report'[queue[i].from]["dispatcher"] # Nothing
                           => queue[i].timeout <= report'[queue[i].from]["dispatcher"].timeout
      OBVIOUS
    <3>1. queue[i].from \in Clients
      <4>1. queue[i] \in Report BY DEF TypeOK
      <4> QED BY <4>1, ReportFacts
    <3>2. "dispatcher" \in Threads BY DEF Threads
    <3>3. CASE queue[i].from = c /\ t = "dispatcher"
      BY <1>1, <1>5, <3>3 DEF QueueOK
    <3>4. CASE ~(queue[i].from = c /\ t = "dispatcher")
      <4>1. report'[queue[i].from]["dispatcher"] = report[queue[i].from]["dispatcher"]
        BY <1>5, <3>1, <3>2, <3>4
      <4> QED BY <4>1 DEF QueueOK
    <3> QED BY <3>3, <3>4
  <2> QED BY <2>1 DEF QueueOK, Fresh
<1> QED BY <1>4, <1>7, <1>8

(* A command reaches its handler, or nobody.                               *)
LEMMA DispatchOK ==
  ASSUME ChannelInv, NEW c \in Clients, Dispatch(c) PROVE ChannelInv'
<1> USE DEF ChannelInv
<1> DEFINE q == inbox[c]
           m == Head(q)
<1>0. /\ client[c] # "down" /\ q # << >> /\ report[c]["dispatcher"] = Nothing
      /\ inbox' = [inbox EXCEPT ![c] = Tail(q)]
      /\ \/ /\ ~Hooked(c)
            /\ UNCHANGED <<timeout, report>>
         \/ /\ Hooked(c) /\ IsTimeout(m)
            /\ timeout' = [timeout EXCEPT ![c] = m.value]
            /\ UNCHANGED report
         \/ /\ Hooked(c) /\ m.kind = "UpdateStatus"
            /\ report' = [report EXCEPT ![c]["dispatcher"] =
                                          Msg(c, "dispatcher", m.least[c])]
            /\ UNCHANGED timeout
      /\ UNCHANGED <<client, reports, serverVars, queue>>
  BY DEF Dispatch, IsTimeout
<1>1. /\ inbox \in [Clients -> Seq(Command)] /\ q \in Seq(Command) /\ latest \in Nat
      /\ timeout \in [Clients -> 0..latest]
  BY DEF TypeOK
<1>2. timeout[c] \in Nat /\ timeout[c] <= latest
  <2>1. timeout[c] \in 0..latest BY <1>1
  <2> QED BY <1>1, <2>1
<1>3. m \in Command /\ Tail(q) \in Seq(Command) BY <1>0, <1>1, TailFacts
<1>4. /\ Ordered(q, timeout[c], latest)
      /\ Answerable(q, c, timeout[c], Hooked(c))
      /\ c \in due => Hooked(c) /\ Reaches(q, timeout[c], latest)
  BY DEF CommandsOK
<1>5. Hooked(c) \in BOOLEAN /\ \A d \in Clients : Hooked(d)' = Hooked(d)
  BY <1>0 DEF Hooked
<1>6. /\ Ordered(Tail(q), timeout[c], latest)
      /\ IsTimeout(m) => /\ Ordered(Tail(q), m.value, latest) /\ m.value \in Nat
                         /\ timeout[c] <= m.value /\ m.value <= latest
  BY <1>0, <1>1, <1>2, <1>4, OrderedTail
<1>7. c \in due => IF IsTimeout(m) THEN Reaches(Tail(q), m.value, latest)
                   ELSE Reaches(Tail(q), timeout[c], latest)
  BY <1>0, <1>1, <1>2, <1>4, ReachesTail
<1>8. /\ ~Hooked(c) \/ ~IsTimeout(m) => Answerable(Tail(q), c, timeout[c], Hooked(c))
      /\ Hooked(c) /\ IsTimeout(m) => Answerable(Tail(q), c, m.value, Hooked(c))
      /\ ~IsTimeout(m) => m.least[c] <= timeout[c]
  BY <1>0, <1>1, <1>2, <1>4, <1>5, AnswerableTail
<1>9. /\ inbox' \in [Clients -> Seq(Command)] /\ inbox'[c] = Tail(q)
      /\ \A d \in Clients : d # c => inbox'[d] = inbox[d]
  BY <1>0, <1>1, <1>3
<1> HIDE DEF q, m
<1>10. ASSUME timeout' \in [Clients -> 0..latest],
              \A d \in Clients : d # c => timeout'[d] = timeout[d],
              Ordered(Tail(q), timeout'[c], latest),
              Answerable(Tail(q), c, timeout'[c], Hooked(c)),
              c \in due => Reaches(Tail(q), timeout'[c], latest)
       PROVE  CommandsOK'
  <2> SUFFICES ASSUME NEW d \in Clients
               PROVE  /\ Ordered(inbox'[d], timeout'[d], latest)
                      /\ Answerable(inbox'[d], d, timeout'[d], Hooked(d))
                      /\ d \in due => /\ Hooked(d)
                                      /\ Reaches(inbox'[d], timeout'[d], latest)
    BY <1>0, <1>5 DEF CommandsOK, serverVars
  <2>1. CASE d = c BY <1>4, <1>9, <1>10, <2>1
  <2>2. CASE d # c BY <1>9, <1>10, <2>2 DEF CommandsOK
  <2> QED BY <2>1, <2>2
<1>11. PrintedOK' BY <1>0 DEF PrintedOK, serverVars
<1>12. ASSUME ~Hooked(c), UNCHANGED <<timeout, report>> PROVE ChannelInv'
  <2>1. TypeOK' BY <1>0, <1>9, <1>12 DEF TypeOK, serverVars
  <2>2. c \notin due BY <1>4, <1>12
  <2>3. CommandsOK' BY <1>1, <1>6, <1>8, <1>10, <1>12, <2>2
  <2>4. PendingOK' /\ QueueOK' BY <1>0, <1>12 DEF PendingOK, QueueOK
  <2> QED BY <1>11, <2>1, <2>3, <2>4
<1>13. ASSUME Hooked(c), IsTimeout(m), timeout' = [timeout EXCEPT ![c] = m.value],
              UNCHANGED report
       PROVE  ChannelInv'
  <2>1. /\ timeout' \in [Clients -> 0..latest] /\ timeout'[c] = m.value
        /\ \A d \in Clients : d # c => timeout'[d] = timeout[d]
    <3>1. m.value \in 0..latest BY <1>1, <1>6, <1>13
    <3> QED BY <1>1, <1>13, <3>1
  <2>2. TypeOK' BY <1>0, <1>9, <1>13, <2>1 DEF TypeOK, serverVars
  <2>3. CommandsOK' BY <1>6, <1>7, <1>8, <1>10, <1>13, <2>1
  <2>4. \A d \in Clients, x \in Nat : x <= timeout[d] => x <= timeout'[d]
    <3>1. m.value \in Nat /\ timeout[c] <= m.value BY <1>6, <1>13
    <3> QED BY <1>2, <2>1, <3>1
  <2>5. PendingOK'
    <3>1. \A d \in Clients, t \in Threads :
            report[d][t] # Nothing => report[d][t].timeout \in Nat
      <4>1. \A d \in Clients, t \in Threads : report[d][t] \in Report \cup {Nothing}
        BY DEF TypeOK
      <4> QED BY <4>1, ReportFacts
    <3> QED BY <1>13, <2>4, <3>1 DEF PendingOK
  <2>6. QueueOK'
    <3>1. \A i \in 1..Len(queue) : queue[i].from \in Clients /\ queue[i].timeout \in Nat
      <4>1. \A i \in 1..Len(queue) : queue[i] \in Report BY DEF TypeOK
      <4> QED BY <4>1, ReportFacts
    <3> QED BY <1>0, <1>13, <2>4, <3>1 DEF QueueOK
  <2> QED BY <1>11, <2>2, <2>3, <2>5, <2>6
<1>14. ASSUME Hooked(c), m.kind = "UpdateStatus", UNCHANGED timeout,
              report' = [report EXCEPT ![c]["dispatcher"] =
                                         Msg(c, "dispatcher", m.least[c])]
       PROVE  ChannelInv'
  <2>1. ~IsTimeout(m) BY <1>14 DEF IsTimeout
  <2>2. m.least[c] \in Nat /\ m.least[c] <= timeout[c]
    BY <1>3, <1>8, <2>1, CommandFacts
  <2>3. /\ report' \in [Clients -> [Threads -> Report \cup {Nothing}]]
        /\ PendingOK' /\ QueueOK'
    BY <1>0, <1>14, <2>2, BuildOK DEF Threads
  <2>4. TypeOK' BY <1>0, <1>9, <1>14, <2>3 DEF TypeOK, serverVars
  <2>5. CommandsOK' BY <1>1, <1>6, <1>7, <1>8, <1>10, <1>14, <2>1
  <2> QED BY <1>11, <2>3, <2>4, <2>5
<1> QED BY <1>0, <1>12, <1>13, <1>14

LEMMA TimerOK ==
  ASSUME ChannelInv, NEW c \in Clients, ReportByTimer(c) PROVE ChannelInv'
<1> USE DEF ChannelInv
<1>1. /\ reports' = [reports EXCEPT ![c] = @ + 1]
      /\ report' = [report EXCEPT ![c]["timer"] = Msg(c, "timer", 0)]
      /\ UNCHANGED <<client, timeout, serverVars, inbox, queue>>
  BY DEF ReportByTimer
<1>2. 0 <= timeout[c]
  <2>1. timeout[c] \in 0..latest /\ latest \in Nat BY DEF TypeOK
  <2> QED BY <2>1
<1>3. /\ report' \in [Clients -> [Threads -> Report \cup {Nothing}]]
      /\ PendingOK' /\ QueueOK'
  BY <1>1, <1>2, BuildOK DEF Threads
<1>4. reports' \in [Clients -> Nat] BY <1>1 DEF TypeOK
<1>5. TypeOK' BY <1>1, <1>3, <1>4 DEF TypeOK, serverVars
<1>6. CommandsOK' BY <1>1 DEF CommandsOK, Hooked, serverVars
<1>7. PrintedOK' BY <1>1 DEF PrintedOK, serverVars
<1> QED BY <1>3, <1>5, <1>6, <1>7

(* A report is published, and queued if the server is there.               *)
LEMMA SendOK ==
  ASSUME ChannelInv, NEW c \in Clients, NEW t \in Threads, SendMsg(c, t)
  PROVE  ChannelInv'
<1> USE DEF ChannelInv
<1> DEFINE r == report[c][t]
<1>1. /\ r # Nothing /\ report' = [report EXCEPT ![c][t] = Nothing]
      /\ queue' = queue \/ queue' = Append(queue, r)
      /\ UNCHANGED <<client, timeout, reports, serverVars, inbox>>
  BY DEF SendMsg
<1>2. report \in [Clients -> [Threads -> Report \cup {Nothing}]] /\ queue \in Seq(Report)
  BY DEF TypeOK
<1>3. r \in Report BY <1>1, <1>2
<1>4. /\ report' \in [Clients -> [Threads -> Report \cup {Nothing}]]
      /\ \A d \in Clients, u \in Threads :
           report'[d][u] = report[d][u] \/ report'[d][u] = Nothing
      /\ report'[c][t] = Nothing
  BY <1>1, <1>2
<1>5. r.from = c /\ r.by = t /\ Fresh(r) /\ r.timeout <= timeout[c]
  BY <1>1 DEF PendingOK
<1> HIDE DEF r
<1>6. CommandsOK' BY <1>1 DEF CommandsOK, Hooked, serverVars
<1>7. PrintedOK' BY <1>1 DEF PrintedOK, serverVars
<1>8. PendingOK' BY <1>1, <1>4 DEF PendingOK, Fresh
<1>9. /\ \A i \in 1..Len(queue) : queue[i] \in Report /\ queue[i].from \in Clients
      /\ "dispatcher" \in Threads
  <2>1. \A i \in 1..Len(queue) : queue[i] \in Report BY <1>2
  <2> QED BY <2>1, ReportFacts DEF Threads
<1>10. \A i \in 1..Len(queue) :
         LET x == queue[i]
             p == report'[x.from]["dispatcher"]
         IN /\ Fresh(x) /\ x.timeout <= timeout[x.from]
            /\ x.by = "dispatcher" /\ p # Nothing => x.timeout <= p.timeout
  BY <1>4, <1>9 DEF QueueOK
<1>11. CASE queue' = queue
  <2>1. QueueOK' BY <1>1, <1>10, <1>11 DEF QueueOK, Fresh
  <2>2. TypeOK' BY <1>1, <1>4, <1>11 DEF TypeOK, serverVars
  <2> QED BY <1>6, <1>7, <1>8, <2>1, <2>2
<1>12. CASE queue' = Append(queue, r)
  <2>1. /\ Len(queue) \in Nat /\ queue' \in Seq(Report) /\ Len(queue') = Len(queue) + 1
        /\ \A i \in 1..Len(queue) : queue'[i] = queue[i]
        /\ queue'[Len(queue) + 1] = r
        /\ \A i \in 1..Len(queue') : i \in 1..Len(queue) \/ i = Len(queue) + 1
    BY <1>2, <1>3, <1>12, AppendFacts
  <2>2. TypeOK' BY <1>1, <1>4, <2>1 DEF TypeOK, serverVars
  <2>3. r.by = "dispatcher" => report'[r.from]["dispatcher"] = Nothing
    BY <1>4, <1>5
  <2>4. \A i \in 1..Len(queue') :
          LET x == queue'[i]
              p == report'[x.from]["dispatcher"]
          IN /\ Fresh(x) /\ x.timeout <= timeout[x.from]
             /\ x.by = "dispatcher" /\ p # Nothing => x.timeout <= p.timeout
    BY <1>5, <1>10, <2>1, <2>3
  <2>5. ASSUME NEW i \in 1..Len(queue'), NEW j \in 1..Len(queue'), i < j,
               queue'[i].from = queue'[j].from,
               queue'[i].by = "dispatcher", queue'[j].by = "dispatcher"
        PROVE  queue'[i].timeout <= queue'[j].timeout
    <3>1. i \in 1..Len(queue) BY <2>1, <2>5
    <3>2. CASE j \in 1..Len(queue) BY <2>1, <2>5, <3>1, <3>2 DEF QueueOK
    <3>3. CASE j = Len(queue) + 1
      <4>1. queue[i].from = c /\ t = "dispatcher" BY <1>5, <2>1, <2>5, <3>1, <3>3
      <4>2. report[c]["dispatcher"] = r BY <4>1 DEF r
      <4>3. queue[i].timeout <= r.timeout
        BY <1>1, <2>1, <2>5, <3>1, <4>1, <4>2 DEF QueueOK, r
      <4> QED BY <2>1, <3>1, <3>3, <4>3
    <3> QED BY <2>1, <3>2, <3>3
  <2>6. QueueOK' BY <1>1, <2>4, <2>5 DEF QueueOK, Fresh
  <2> QED BY <1>6, <1>7, <1>8, <2>2, <2>6
<1> QED BY <1>1, <1>11, <1>12

(* The server, but for its broadcasts: its queue is drained or dropped.    *)
LEMMA ServerOK ==
  ASSUME ChannelInv, ServerMain \/ OnServerRecieve \/ ServerExit PROVE ChannelInv'
<1> USE DEF ChannelInv
<1>1. UNCHANGED <<clientVars, inbox, latest, asks, due>>
  BY DEF ServerMain, OnServerRecieve, ServerExit
<1>2. CommandsOK' BY <1>1 DEF CommandsOK, Hooked, clientVars
<1>3. PendingOK' BY <1>1 DEF PendingOK, clientVars
<1>4. queue \in Seq(Report) /\ printed \in [Clients -> Report \cup {Nothing}]
  BY DEF TypeOK
<1>5. CASE ServerMain
  <2>1. TypeOK' BY <1>1, <1>5 DEF ServerMain, TypeOK, clientVars
  <2>2. QueueOK' /\ PrintedOK'
    BY <1>1, <1>5 DEF ServerMain, QueueOK, PrintedOK, clientVars
  <2> QED BY <1>2, <1>3, <2>1, <2>2
<1>6. CASE ServerExit
  <2>1. queue' = << >> /\ server' = "down" /\ UNCHANGED <<runs, printed>>
    BY <1>6 DEF ServerExit
  <2>2. queue' \in Seq(Report) /\ 1..Len(queue') = {} BY <2>1
  <2>3. TypeOK' BY <1>1, <2>1, <2>2 DEF TypeOK, clientVars
  <2>4. QueueOK' /\ PrintedOK' BY <2>1, <2>2 DEF QueueOK, PrintedOK
  <2> QED BY <1>2, <1>3, <2>3, <2>4
<1>7. CASE OnServerRecieve
  <2> DEFINE h == Head(queue)
  <2>1. /\ queue # << >> /\ queue' = Tail(queue) /\ UNCHANGED <<server, runs>>
        /\ printed' = printed \/ printed' = [printed EXCEPT ![h.from] = h]
    BY <1>7 DEF OnServerRecieve
  <2>2. /\ Len(queue) \in Nat \ {0} /\ h = queue[1] /\ h \in Report
        /\ queue' \in Seq(Report) /\ Len(queue') = Len(queue) - 1
        /\ \A i \in 1..Len(queue) - 1 : queue'[i] = queue[i + 1]
    BY <1>4, <2>1, TailFacts
  <2> HIDE DEF h
  <2>3. /\ \A i \in 1..Len(queue') : i + 1 \in 1..Len(queue) /\ queue'[i] = queue[i + 1]
        /\ \A i, j \in 1..Len(queue') : i < j => i + 1 < j + 1
        /\ 1 \in 1..Len(queue)
    BY <2>2
  <2>4. Fresh(h) BY <2>2, <2>3 DEF QueueOK
  <2>5. h.from \in Clients BY <2>2, ReportFacts
  <2>6. printed' \in [Clients -> Report \cup {Nothing}] BY <1>4, <2>1, <2>2
  <2>7. PrintedOK' BY <1>4, <2>1, <2>4, <2>5 DEF PrintedOK, Fresh
  <2>8. QueueOK' BY <1>1, <2>3 DEF QueueOK, clientVars
  <2>9. TypeOK' BY <1>1, <2>1, <2>2, <2>6 DEF TypeOK, clientVars
  <2> QED BY <1>2, <1>3, <2>7, <2>8, <2>9
<1> QED BY <1>5, <1>6, <1>7

(* A broadcast reaches every queue that exists.                            *)
LEMMA BroadcastFacts ==
  ASSUME TypeOK, NEW m \in Command, Broadcast(m)
  PROVE  /\ inbox' \in [Clients -> Seq(Command)]
         /\ \A c \in Clients :
              /\ Hooked(c) => inbox'[c] = Append(inbox[c], m)
              /\ inbox'[c] = inbox[c] \/ inbox'[c] = Append(inbox[c], m)
<1>1. inbox \in [Clients -> Seq(Command)] BY DEF TypeOK
<1>2. \A c \in Clients : inbox[c] \in Seq(Command) /\ Append(inbox[c], m) \in Seq(Command)
  BY <1>1
<1>3. inbox' \in [Clients -> Seq(Command)] BY <1>2 DEF Broadcast
<1>4. \A c \in Clients : Hooked(c) => client[c] # "down" BY DEF Hooked
<1> QED BY <1>3, <1>4 DEF Broadcast

LEMMA TimeoutTypes ==
  ASSUME TypeOK, NEW c \in Clients
  PROVE  /\ inbox[c] \in Seq(Command) /\ timeout[c] \in Nat /\ timeout[c] <= latest
         /\ latest \in Nat /\ Hooked(c) \in BOOLEAN
<1>1. timeout[c] \in 0..latest /\ latest \in Nat /\ inbox[c] \in Seq(Command)
  BY DEF TypeOK
<1> QED BY <1>1 DEF Hooked

LEMMA AskOK ==
  ASSUME ChannelInv, SendUpdateStatus PROVE ChannelInv'
<1> USE DEF ChannelInv
<1> DEFINE f == [c \in Clients |-> IF c \in due THEN latest ELSE 0]
           m == [kind |-> "UpdateStatus", least |-> f]
<1>1. /\ asks' = asks + 1 /\ Broadcast(m)
      /\ UNCHANGED <<clientVars, server, runs, queue, latest, due, printed>>
  BY DEF SendUpdateStatus
<1>2. latest \in Nat /\ asks \in Nat BY DEF TypeOK
<1>3. f \in [Clients -> Nat] BY <1>2
<1>4. m \in Command /\ ~IsTimeout(m) /\ m.least = f BY <1>3 DEF Command, IsTimeout
<1>5. \A c \in Clients : m.least[c] = IF c \in due THEN latest ELSE 0 BY <1>4
<1> HIDE DEF m, f
<1>6. /\ inbox' \in [Clients -> Seq(Command)]
      /\ \A c \in Clients :
           inbox'[c] = inbox[c] \/ inbox'[c] = Append(inbox[c], m)
  BY <1>1, <1>4, BroadcastFacts
<1>7. TypeOK' BY <1>1, <1>2, <1>6 DEF TypeOK, clientVars
<1>8. CommandsOK'
  <2> SUFFICES ASSUME NEW c \in Clients
               PROVE  /\ Ordered(inbox'[c], timeout[c], latest)
                      /\ Answerable(inbox'[c], c, timeout[c], Hooked(c))
                      /\ c \in due => /\ Hooked(c)
                                      /\ Reaches(inbox'[c], timeout[c], latest)
    BY <1>1 DEF CommandsOK, Hooked, clientVars
  <2>1. /\ Ordered(inbox[c], timeout[c], latest)
        /\ Answerable(inbox[c], c, timeout[c], Hooked(c))
        /\ c \in due => Hooked(c) /\ Reaches(inbox[c], timeout[c], latest)
    BY DEF CommandsOK
  <2>2. CASE inbox'[c] = inbox[c] BY <2>1, <2>2
  <2>3. CASE inbox'[c] = Append(inbox[c], m)
    <3>1. Ordered(Append(inbox[c], m), timeout[c], latest)
      BY <1>2, <1>4, <2>1, TimeoutTypes, OrderedAppend
    <3>2. Answerable(Append(inbox[c], m), c, timeout[c], Hooked(c))
      BY <1>2, <1>4, <1>5, <2>1, TimeoutTypes, AnswerableAppend
    <3>3. c \in due => Reaches(Append(inbox[c], m), timeout[c], latest)
      BY <1>2, <1>4, <2>1, TimeoutTypes, ReachesAppend
    <3> QED BY <2>1, <2>3, <3>1, <3>2, <3>3
  <2> QED BY <1>6, <2>2, <2>3
<1>9. PendingOK' /\ QueueOK' /\ PrintedOK'
  BY <1>1 DEF PendingOK, QueueOK, PrintedOK, clientVars
<1> QED BY <1>7, <1>8, <1>9

LEMMA NewTimeoutOK ==
  ASSUME ChannelInv, SendNewTimeout PROVE ChannelInv'
<1> USE DEF ChannelInv
<1> DEFINE m == [kind |-> "NewTimeout", value |-> latest + 1]
<1>1. /\ latest' = latest + 1 /\ Broadcast(m) /\ due' = {c \in Clients : Hooked(c)}
      /\ UNCHANGED <<clientVars, server, runs, queue, asks, printed>>
  BY DEF SendNewTimeout
<1>2. latest \in Nat /\ timeout \in [Clients -> 0..latest] BY DEF TypeOK
<1>3. m \in Command /\ IsTimeout(m) /\ m.value = latest + 1
  BY <1>2 DEF Command, IsTimeout
<1> HIDE DEF m
<1>4. /\ inbox' \in [Clients -> Seq(Command)]
      /\ \A c \in Clients :
           /\ Hooked(c) => inbox'[c] = Append(inbox[c], m)
           /\ inbox'[c] = inbox[c] \/ inbox'[c] = Append(inbox[c], m)
  BY <1>1, <1>3, BroadcastFacts
<1>5. TypeOK'
  <2>1. 0..latest \subseteq 0..latest' /\ latest' \in Nat BY <1>1, <1>2
  <2>2. timeout' \in [Clients -> 0..latest'] BY <1>1, <1>2, <2>1 DEF clientVars
  <2> QED BY <1>1, <1>4, <2>1, <2>2 DEF TypeOK, clientVars
<1>6. CommandsOK'
  <2> SUFFICES ASSUME NEW c \in Clients
               PROVE  /\ Ordered(inbox'[c], timeout[c], latest + 1)
                      /\ Answerable(inbox'[c], c, timeout[c], Hooked(c))
                      /\ Hooked(c) => Reaches(inbox'[c], timeout[c], latest + 1)
    BY <1>1 DEF CommandsOK, Hooked, clientVars
  <2>1. /\ Ordered(inbox[c], timeout[c], latest)
        /\ Answerable(inbox[c], c, timeout[c], Hooked(c))
    BY DEF CommandsOK
  <2>2. CASE inbox'[c] = Append(inbox[c], m)
    <3>1. Ordered(Append(inbox[c], m), timeout[c], latest + 1)
      BY <1>2, <1>3, <2>1, TimeoutTypes, OrderedAppend
    <3>2. Answerable(Append(inbox[c], m), c, timeout[c], Hooked(c))
      BY <1>3, <2>1, TimeoutTypes, AnswerableAppend
    <3>3. Reaches(Append(inbox[c], m), timeout[c], latest + 1)
      BY <1>2, <1>3, TimeoutTypes, ReachesAppend
    <3> QED BY <2>2, <3>1, <3>2, <3>3
  <2>3. CASE inbox'[c] = inbox[c] /\ ~Hooked(c)
    <3>1. Ordered(inbox[c], timeout[c], latest + 1)
      <4>1. \A i \in 1..Len(inbox[c]) :
              IsTimeout(inbox[c][i]) => inbox[c][i].value \in Nat
        <5>1. \A i \in 1..Len(inbox[c]) : inbox[c][i] \in Command BY TimeoutTypes
        <5> QED BY <5>1, CommandFacts
      <4> QED BY <1>2, <2>1, <4>1 DEF Ordered
    <3> QED BY <2>1, <2>3, <3>1
  <2> QED BY <1>4, <2>2, <2>3
<1>7. PendingOK' /\ QueueOK' /\ PrintedOK'
  BY <1>1 DEF PendingOK, QueueOK, PrintedOK, clientVars
<1> QED BY <1>5, <1>6, <1>7

LEMMA ChannelNext == ChannelInv /\ [Next]_vars => ChannelInv'
<1> SUFFICES ASSUME ChannelInv, [Next]_vars PROVE ChannelInv' OBVIOUS
<1>1. ASSUME NEW c \in Clients, ClientMain(c) PROVE ChannelInv'
  BY <1>1, ClientOK
<1>2. ASSUME NEW c \in Clients, Dispatch(c) PROVE ChannelInv'
  BY <1>2, DispatchOK
<1>3. ASSUME NEW c \in Clients, ReportByTimer(c) PROVE ChannelInv'
  BY <1>3, TimerOK
<1>4. ASSUME NEW c \in Clients, NEW t \in Threads, SendMsg(c, t) PROVE ChannelInv'
  BY <1>4, SendOK
<1>5. CASE ServerMain \/ OnServerRecieve \/ ServerExit BY <1>5, ServerOK
<1>6. CASE SendUpdateStatus BY <1>6, AskOK
<1>7. CASE SendNewTimeout BY <1>7, NewTimeoutOK
<1>8. CASE UNCHANGED vars
  BY <1>8 DEF vars, clientVars, serverVars, ChannelInv, TypeOK, CommandsOK, Hooked,
              PendingOK, QueueOK, PrintedOK
<1> QED BY <1>1, <1>2, <1>3, <1>4, <1>5, <1>6, <1>7, <1>8 DEF Next

LEMMA ChannelAlways == Spec => []ChannelInv
  BY ChannelInit, ChannelNext, PTL DEF Spec
-----------------------------------------------------------------------------
(* Every variable keeps its type: no client has a timeout that was not     *)
(* broadcast.                                                              *)
THEOREM ChannelTypeCorrect == Spec => []TypeOK
<1>1. ChannelInv => TypeOK BY DEF ChannelInv
<1> QED BY ChannelAlways, <1>1, PTL

(* Every answer reports a timeout no older than the last one broadcast     *)
(* before the question, and a client's answers arrive in order.            *)
THEOREM AnswersAreFresh == Spec => []AnswersFresh
<1>1. ChannelInv => AnswersFresh
  <2> SUFFICES ASSUME ChannelInv PROVE AnswersFresh OBVIOUS
  <2>1. DOMAIN queue = 1..Len(queue) BY DEF ChannelInv, TypeOK
  <2>2. "dispatcher" \in Threads BY DEF Threads
  <2> QED BY <2>1, <2>2
          DEF ChannelInv, PendingOK, QueueOK, PrintedOK, Fresh, AnswersFresh
<1> QED BY ChannelAlways, <1>1, PTL

(* Every client that had its handler at the last broadcast has, or will    *)
(* have when its queue is drained, the last timeout.                       *)
THEOREM TimeoutsDoConverge == Spec => []TimeoutsConverge
<1>1. ChannelInv => TimeoutsConverge
  <2> SUFFICES ASSUME ChannelInv, NEW c \in due PROVE Settled(c) = latest
    BY DEF TimeoutsConverge
  <2>0. c \in Clients BY DEF ChannelInv, TypeOK
  <2> DEFINE q == inbox[c]
             T == {i \in DOMAIN q : q[i].kind = "NewTimeout"}
  <2>1. Reaches(q, timeout[c], latest) BY <2>0 DEF ChannelInv, CommandsOK
  <2>2. DOMAIN q = 1..Len(q) /\ Len(q) \in Nat BY <2>0 DEF ChannelInv, TypeOK
  <2>3. Settled(c) = IF T = {} THEN timeout[c]
                     ELSE q[CHOOSE i \in T : \A j \in T : j <= i].value
    BY DEF Settled
  <2> HIDE DEF q
  <2>4. CASE timeout[c] = latest /\ \A i \in 1..Len(q) : ~IsTimeout(q[i])
    <3>1. T = {} BY <2>2, <2>4 DEF IsTimeout
    <3> QED BY <2>3, <2>4, <3>1
  <2>5. ASSUME NEW k \in 1..Len(q), IsTimeout(q[k]), q[k].value = latest,
               \A j \in 1..Len(q) : j > k => ~IsTimeout(q[j])
        PROVE  Settled(c) = latest
    <3>1. k \in T /\ \A j \in T : j <= k BY <2>2, <2>5 DEF IsTimeout
    <3> DEFINE x == CHOOSE i \in T : \A j \in T : j <= i
    <3>2. x \in T /\ \A j \in T : j <= x BY <3>1
    <3>3. T \subseteq 1..Len(q) BY <2>2
    <3> HIDE DEF x, T
    <3>4. x = k BY <2>2, <3>1, <3>2, <3>3
    <3>5. T # {} BY <3>1
    <3> QED BY <2>3, <2>5, <3>4, <3>5 DEF x
  <2> QED BY <2>1, <2>4, <2>5 DEF Reaches
<1> QED BY ChannelAlways, <1>1, PTL
=============================================================================
