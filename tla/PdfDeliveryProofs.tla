------------------------- MODULE PdfDeliveryProofs -------------------------
(***************************************************************************)
(* What becomes of documents on their way from the client to a file of the *)
(* server, for any documents of any length and any number of server runs.  *)
(***************************************************************************)
EXTENDS PdfDelivery, FiniteSetTheorems, SequenceTheorems, TLAPS

(* A document that is in the queue, with a writer or in a file was sent,   *)
(* and is in one of these places only, once.                               *)
Once(s) == \A i, j \in DOMAIN s : s[i].doc = s[j].doc => i = j
Apart(s, t) == \A i \in DOMAIN s, j \in DOMAIN t : s[i].doc # t[j].doc
AllSent(s) == \A i \in DOMAIN s : task[s[i].doc] = "sent"

OnePlace ==
  /\ Once(inbox) /\ Once(writing) /\ Once(files)
  /\ Apart(inbox, writing) /\ Apart(inbox, files) /\ Apart(writing, files)
  /\ AllSent(inbox) /\ AllSent(writing) /\ AllSent(files)

(* A document that is gone was on its way, and is in none of these places, *)
(* unless as a file that was only begun.                                   *)
NotGone(s) == \A i \in DOMAIN s : s[i].doc \notin gone

GoneOK ==
  /\ NotGone(inbox) /\ NotGone(writing)
  /\ \A i \in DOMAIN files : files[i].whole <=> files[i].doc \notin gone
  /\ \A d \in gone : task[d] \in {"sent", "faulted"} \/ (client = "down" /\ task[d] # "none")
  /\ \A d \in Docs : task[d] = "faulted" => d \in gone

(* A Write that is to move Position has stored its block before.           *)
NextOK == \A d \in Docs : next[d] <= Len(buf)

(* The stream holds what its users have stored so far, and Position is     *)
(* behind the stored blocks; it is 0 when nobody saves.                    *)
StreamOK ==
  /\ \A i \in DOMAIN buf : buf[i][2] <= written[buf[i][1]]
  /\ \A d \in Docs : written[d] <= Size[d]
  /\ \A d \in Docs : task[d] \in {"none", "drawing"} => written[d] = 0
  /\ (\A d \in Docs : task[d] \notin {"saving", "storing"}) => pos = 0

(* A conversion that overlaps none: its blocks so far stand at the         *)
(* beginning of the stream, what follows is of others, and nothing is      *)
(* longer than it or the stream it found.                                  *)
Prefix(d, b, n) ==
  /\ Len(b) = Larger(n, longest[d])
  /\ \A i \in 1..n : b[i] = <<d, i>>
  /\ \A i \in n + 1..Len(b) : b[i][1] # d

SoloOK ==
  \A d \in Docs : alone[d] =>
    /\ Active(d) => /\ \A o \in Docs \ {d} : ~Active(o)
                    /\ Prefix(d, buf, written[d])
    /\ task[d] = "saving" => pos = written[d]
    /\ task[d] = "storing" => next[d] = written[d]
    /\ task[d] = "saved" => written[d] = Size[d]
    /\ task[d] \in {"converted", "sent"} => Prefix(d, body[d], Size[d])

(* A message and a file hold what the conversion returned.                 *)
Bodies(s) == \A i \in DOMAIN s : s[i].body = body[s[i].doc]

BodiesOK == Bodies(inbox) /\ Bodies(writing) /\ Bodies(files)

DeliveryInv == TypeOK /\ NextOK /\ OnePlace /\ GoneOK
ConversionInv == DeliveryInv /\ StreamOK /\ SoloOK /\ BodiesOK
-----------------------------------------------------------------------------
(* A message in the middle of a sequence is taken out.                     *)
LEMMA RemoveAtProperties ==
  ASSUME NEW S, NEW s \in Seq(S), NEW k \in 1..Len(s)
  PROVE  /\ RemoveAt(s, k) \in Seq(S)
         /\ Len(RemoveAt(s, k)) = Len(s) - 1
         /\ \A i \in 1..Len(s) - 1 :
              RemoveAt(s, k)[i] = IF i < k THEN s[i] ELSE s[i + 1]
<1> DEFINE a == SubSeq(s, 1, k - 1)
           b == SubSeq(s, k + 1, Len(s))
<1>1. Len(s) \in Nat /\ k \in Nat /\ 1 <= k /\ k <= Len(s) OBVIOUS
<1>2. /\ a \in Seq(S) /\ Len(a) = k - 1
      /\ \A i \in 1..k - 1 : a[i] = s[i]
  BY <1>1, SubSeqProperties
<1>3. /\ b \in Seq(S) /\ Len(b) = Len(s) - k
      /\ \A i \in 1..Len(s) - k : b[i] = s[k + i]
  <2>1. \A i \in k + 1..Len(s) : s[i] \in S BY <1>1
  <2>2. /\ b \in Seq(S)
        /\ Len(b) = IF k + 1 <= Len(s) THEN Len(s) - (k + 1) + 1 ELSE 0
        /\ \A i \in 1..Len(s) - (k + 1) + 1 : b[i] = s[k + 1 + i - 1]
    BY <1>1, <2>1, SubSeqProperties
  <2>3. Len(b) = Len(s) - k BY <1>1, <2>2
  <2>4. \A i \in 1..Len(s) - k : b[i] = s[k + i]
    <3> SUFFICES ASSUME NEW i \in 1..Len(s) - k PROVE b[i] = s[k + i] OBVIOUS
    <3>1. i \in 1..Len(s) - (k + 1) + 1 /\ k + 1 + i - 1 = k + i BY <1>1
    <3> QED BY <2>2, <3>1
  <2> QED BY <2>2, <2>3, <2>4
<1>4. /\ a \o b \in Seq(S) /\ Len(a \o b) = Len(a) + Len(b)
      /\ \A i \in 1..Len(a) + Len(b) :
           (a \o b)[i] = IF i <= Len(a) THEN a[i] ELSE b[i - Len(a)]
  BY <1>2, <1>3, ConcatProperties
<1>5. RemoveAt(s, k) = a \o b BY DEF RemoveAt
<1>6. Len(a \o b) = Len(s) - 1
  <2> HIDE DEF a, b
  <2> QED BY <1>1, <1>2, <1>3, <1>4
<1>7. \A i \in 1..Len(s) - 1 : (a \o b)[i] = IF i < k THEN s[i] ELSE s[i + 1]
  <2> SUFFICES ASSUME NEW i \in 1..Len(s) - 1
               PROVE  (a \o b)[i] = IF i < k THEN s[i] ELSE s[i + 1]
    OBVIOUS
  <2> HIDE DEF a, b
  <2>1. (a \o b)[i] = IF i <= Len(a) THEN a[i] ELSE b[i - Len(a)]
    BY <1>1, <1>2, <1>3, <1>4
  <2>2. CASE i < k
    <3>1. i <= Len(a) /\ i \in 1..k - 1 BY <1>1, <1>2, <2>2
    <3> QED BY <1>2, <2>1, <2>2, <3>1
  <2>3. CASE ~(i < k)
    <3>1. ~(i <= Len(a)) /\ i - Len(a) \in 1..Len(s) - k
      BY <1>1, <1>2, <2>3
    <3>2. k + (i - Len(a)) = i + 1 BY <1>1, <1>2
    <3> QED BY <1>3, <2>1, <2>3, <3>1, <3>2
  <2> QED BY <2>2, <2>3
<1> QED BY <1>4, <1>5, <1>6, <1>7

(* The elements of a finite set, each once, in some order.                 *)
LEMMA SetToSeqProperties ==
  ASSUME NEW S, IsFiniteSet(S)
  PROVE  /\ SetToSeq(S) \in Seq(S)
         /\ \A i, j \in DOMAIN SetToSeq(S) :
              SetToSeq(S)[i] = SetToSeq(S)[j] => i = j
<1>1. Cardinality(S) \in Nat /\ ExistsBijection(1..Cardinality(S), S)
  BY FS_CardinalityType
<1>2. \E f \in [1..Cardinality(S) -> S] : IsInjective(f)
  BY <1>1 DEF ExistsBijection, Bijection, Injection
<1>3. SetToSeq(S) \in [1..Cardinality(S) -> S] /\ IsInjective(SetToSeq(S))
  BY <1>2 DEF SetToSeq
<1> QED BY <1>1, <1>3 DEF IsInjective
-----------------------------------------------------------------------------
(* The first states.                                                       *)
LEMMA DeliveryInit == Init => DeliveryInv
<1> SUFFICES ASSUME Init PROVE DeliveryInv OBVIOUS
<1>1. TypeOK
  <2>1. << >> \in Seq(Msg) /\ << >> \in Seq(File) /\ << >> \in Seq(Block) /\ Len(<< >>) = 0
    OBVIOUS
  <2> QED BY <2>1 DEF Init, TypeOK, Stages
<1>2. NextOK BY DEF Init, NextOK
<1>3. OnePlace BY DEF Init, OnePlace, Once, Apart, AllSent
<1>4. GoneOK BY DEF Init, GoneOK, NotGone
<1> QED BY <1>1, <1>2, <1>3, <1>4 DEF DeliveryInv

(* Messages and files are about documents.                                 *)
LEMMA DocsTyped ==
  ASSUME TypeOK
  PROVE  /\ \A i \in DOMAIN inbox : inbox[i] \in Msg /\ inbox[i].doc \in Docs
         /\ \A i \in DOMAIN writing : writing[i] \in Msg /\ writing[i].doc \in Docs
         /\ \A i \in DOMAIN files : files[i] \in File /\ files[i].doc \in Docs
<1>1. inbox \in Seq(Msg) /\ writing \in Seq(Msg) /\ files \in Seq(File)
  BY DEF TypeOK
<1>2. /\ \A i \in DOMAIN inbox : inbox[i] \in Msg
      /\ \A i \in DOMAIN writing : writing[i] \in Msg
      /\ \A i \in DOMAIN files : files[i] \in File
  BY <1>1
<1>3. (\A m \in Msg : m.doc \in Docs) /\ (\A f \in File : f.doc \in Docs)
  BY DEF Msg, File
<1> QED BY <1>2, <1>3

(* A task of the pool goes on without publishing, and does not fail.       *)
LEMMA TaskStep ==
  ASSUME DeliveryInv, NEW d \in Docs, NEW x \in Stages \ {"faulted"},
         client = "up", task[d] \notin {"sent", "faulted"},
         task' = [task EXCEPT ![d] = x],
         UNCHANGED <<client, inbox, writing, files, gone>>
  PROVE  OnePlace' /\ GoneOK'
<1> USE DEF DeliveryInv
<1>1. task \in [Docs -> Stages] BY DEF TypeOK
<1>2. \A e \in Docs : task'[e] = IF e = d THEN x ELSE task[e] BY <1>1
<1>3. /\ \A i \in DOMAIN inbox : inbox[i].doc \in Docs
      /\ \A i \in DOMAIN writing : writing[i].doc \in Docs
      /\ \A i \in DOMAIN files : files[i].doc \in Docs
  BY DocsTyped
<1>4. AllSent(inbox)' /\ AllSent(writing)' /\ AllSent(files)'
  BY <1>2, <1>3 DEF OnePlace, AllSent
<1>5. OnePlace' BY <1>4 DEF OnePlace, Once, Apart
<1>6. gone \subseteq Docs /\ d \notin gone BY DEF TypeOK, GoneOK
<1>7. GoneOK' BY <1>2, <1>6 DEF GoneOK, NotGone
<1> QED BY <1>5, <1>7

LEMMA OnFileReadyOK ==
  ASSUME DeliveryInv, NEW d \in Docs, OnFileReadyHandler(d)
  PROVE  DeliveryInv'
<1> USE DEF DeliveryInv
<1>1. TypeOK' BY DEF OnFileReadyHandler, TypeOK, Stages, clientVars, serverVars
<1>2. NextOK' BY DEF OnFileReadyHandler, NextOK
<1>3. OnePlace' /\ GoneOK'
  BY TaskStep DEF OnFileReadyHandler, Stages, serverVars
<1> QED BY <1>1, <1>2, <1>3

LEMMA DrawImagesOK ==
  ASSUME DeliveryInv, NEW d \in Docs, DrawImages(d)
  PROVE  DeliveryInv'
<1> USE DEF DeliveryInv
<1>0. client = "up" /\ task[d] = "drawing" BY DEF DrawImages
<1>1. TypeOK'
  <2>1. alone' \in [Docs -> BOOLEAN]
    <3>1. CASE UNCHANGED alone BY <3>1 DEF TypeOK
    <3>2. CASE alone' = [e \in Docs |->
                           alone[e] /\ (Active(e) \/ e = d =>
                                          \A o \in Docs \ {d} : ~Active(o))]
      BY <3>2
    <3> QED BY <3>1, <3>2 DEF DrawImages
  <2>2. longest' \in [Docs -> Nat]
    <3>1. buf \in Seq(Block) /\ longest \in [Docs -> Nat] BY DEF TypeOK
    <3>2. Len(buf) \in Nat BY <3>1
    <3>3. CASE UNCHANGED longest BY <3>1, <3>3
    <3>4. CASE longest' = [longest EXCEPT ![d] = Len(buf)] BY <3>1, <3>2, <3>4
    <3> QED BY <3>3, <3>4 DEF DrawImages
  <2> QED BY <2>1, <2>2 DEF DrawImages, TypeOK, Stages, serverVars
<1>2. NextOK' BY DEF DrawImages, NextOK
<1>3. CASE task' = [task EXCEPT ![d] = "saving"] /\ UNCHANGED gone
  BY <1>0, <1>3, TaskStep, <1>1, <1>2 DEF DrawImages, Stages, serverVars
<1>4. CASE task' = [task EXCEPT ![d] = "faulted"] /\ gone' = gone \cup {d}
  <2>1. \A e \in Docs : task'[e] = IF e = d THEN "faulted" ELSE task[e]
    BY <1>4 DEF TypeOK
  <2>2. /\ \A i \in DOMAIN inbox : inbox[i].doc \in Docs
        /\ \A i \in DOMAIN writing : writing[i].doc \in Docs
        /\ \A i \in DOMAIN files : files[i].doc \in Docs
    BY DocsTyped
  <2>3. AllSent(inbox)' /\ AllSent(writing)' /\ AllSent(files)'
    BY <1>0, <2>1, <2>2 DEF OnePlace, AllSent, DrawImages, serverVars
  <2>4. OnePlace' BY <2>3 DEF OnePlace, Once, Apart, DrawImages, serverVars
  <2>5. /\ \A i \in DOMAIN inbox : inbox[i].doc # d
        /\ \A i \in DOMAIN writing : writing[i].doc # d
        /\ \A i \in DOMAIN files : files[i].doc # d
    BY <1>0 DEF OnePlace, AllSent
  <2>6. gone \subseteq Docs BY DEF TypeOK
  <2>7. GoneOK'
    BY <1>0, <1>4, <2>1, <2>5, <2>6 DEF GoneOK, NotGone, DrawImages, serverVars
  <2> QED BY <1>1, <1>2, <2>4, <2>7
<1> QED BY <1>3, <1>4 DEF DrawImages

LEMMA StoreBlockOK ==
  ASSUME DeliveryInv, NEW d \in Docs, StoreBlock(d)
  PROVE  /\ DeliveryInv'
         /\ Len(buf') = Larger(Len(buf), pos + 1)
         /\ \A i \in 1..Len(buf') :
              buf'[i] = IF i = pos + 1 THEN <<d, written[d] + 1>> ELSE buf[i]
<1> USE DEF DeliveryInv
<1> DEFINE b == <<d, written[d] + 1>>
<1>0. written[d] + 1 \in Nat \ {0} BY DEF TypeOK
<1>1. /\ b \in Block /\ buf \in Seq(Block) /\ pos \in 0..Len(buf) /\ Len(buf) \in Nat
      /\ client = "up" /\ task[d] = "saving"
  <2>1. b \in Block BY <1>0 DEF Block
  <2> QED BY <2>1 DEF StoreBlock, TypeOK
<1>2. buf' = IF pos < Len(buf) THEN [buf EXCEPT ![pos + 1] = b] ELSE Append(buf, b)
  BY DEF StoreBlock
<1> HIDE DEF b
<1>3. /\ buf' \in Seq(Block) /\ Len(buf') = Larger(Len(buf), pos + 1)
      /\ \A i \in 1..Len(buf') : buf'[i] = IF i = pos + 1 THEN b ELSE buf[i]
  <2>1. CASE pos < Len(buf)
    <3>1. pos + 1 \in 1..Len(buf) BY <1>1, <2>1
    <3> QED BY <1>1, <1>2, <2>1, <3>1, ExceptSeq DEF Larger
  <2>2. CASE ~(pos < Len(buf))
    <3>1. pos = Len(buf) BY <1>1, <2>2
    <3> QED BY <1>1, <1>2, <2>2, <3>1, AppendProperties DEF Larger
  <2> QED BY <2>1, <2>2
<1>4. Len(buf') \in Nat /\ Len(buf') >= Len(buf) /\ Len(buf') >= pos + 1
  BY <1>1, <1>3 DEF Larger
<1>5. TypeOK'
  <2>1. pos' \in 0..Len(buf') BY <1>1, <1>4 DEF StoreBlock
  <2>2. /\ written' \in [Docs -> Nat] /\ next' \in [Docs -> Nat]
        /\ task' \in [Docs -> Stages]
    BY <1>1 DEF StoreBlock, TypeOK, Stages
  <2> QED BY <1>3, <2>1, <2>2 DEF StoreBlock, TypeOK, serverVars
<1>6. NextOK'
  BY <1>1, <1>4, SMTT(20) DEF NextOK, StoreBlock, TypeOK
<1>7. OnePlace' /\ GoneOK'
  BY <1>1, TaskStep DEF StoreBlock, Stages, serverVars
<1> QED BY <1>3, <1>5, <1>6, <1>7 DEF b

LEMMA MovePositionOK ==
  ASSUME DeliveryInv, NEW d \in Docs, MovePosition(d)
  PROVE  DeliveryInv'
<1> USE DEF DeliveryInv
<1>1. TypeOK'
  <2>1. pos' \in 0..Len(buf') BY DEF MovePosition, TypeOK, NextOK
  <2> QED BY <2>1 DEF MovePosition, TypeOK, Stages, serverVars
<1>2. NextOK' BY DEF MovePosition, NextOK
<1>3. OnePlace' /\ GoneOK' BY TaskStep DEF MovePosition, Stages, serverVars
<1> QED BY <1>1, <1>2, <1>3

LEMMA EndSaveOK ==
  ASSUME DeliveryInv, NEW d \in Docs, EndSave(d)
  PROVE  DeliveryInv'
<1> USE DEF DeliveryInv
<1>1. TypeOK'
  <2>1. pos' \in 0..Len(buf') BY DEF EndSave, TypeOK
  <2> QED BY <2>1 DEF EndSave, TypeOK, Stages, serverVars
<1>2. NextOK' BY DEF EndSave, NextOK
<1>3. OnePlace' /\ GoneOK' BY TaskStep DEF EndSave, Stages, serverVars
<1> QED BY <1>1, <1>2, <1>3

LEMMA ToByteArrayOK ==
  ASSUME DeliveryInv, NEW d \in Docs, ToByteArray(d)
  PROVE  DeliveryInv'
<1> USE DEF DeliveryInv
<1>1. TypeOK' BY DEF ToByteArray, TypeOK, Stages, serverVars
<1>2. NextOK' BY DEF ToByteArray, NextOK
<1>3. OnePlace' /\ GoneOK' BY TaskStep DEF ToByteArray, Stages, serverVars
<1> QED BY <1>1, <1>2, <1>3

(* A message enters at the end of a queue: what is there stays there.      *)
LEMMA AppendDocs ==
  ASSUME NEW S, NEW s \in Seq(S), NEW m \in S
  PROVE  /\ Append(s, m) \in Seq(S)
         /\ DOMAIN s = 1..Len(s) /\ DOMAIN Append(s, m) = 1..Len(s) + 1
         /\ Len(s) \in Nat /\ Len(Append(s, m)) = Len(s) + 1
         /\ Append(s, m)[Len(s) + 1] = m
         /\ \A i \in 1..Len(s) : Append(s, m)[i] = s[i]
  BY AppendProperties

LEMMA SendOK ==
  ASSUME DeliveryInv, NEW d \in Docs, Send(d)
  PROVE  DeliveryInv'
<1> USE DEF DeliveryInv
<1> DEFINE m == [doc |-> d, body |-> body[d]]
<1>0. client = "up" /\ task[d] = "converted" BY DEF Send
<1>1. m \in Msg /\ m.doc = d BY DEF TypeOK, Msg
<1> HIDE DEF m
<1>2. /\ \A i \in DOMAIN inbox : inbox[i].doc \in Docs
      /\ \A i \in DOMAIN writing : writing[i].doc \in Docs
      /\ \A i \in DOMAIN files : files[i].doc \in Docs
  BY DocsTyped
<1>3. /\ inbox \in Seq(Msg) /\ gone \subseteq Docs /\ task \in [Docs -> Stages]
      /\ server = "down" => inbox = << >> /\ writing = << >>
  BY DEF TypeOK
<1>4. /\ task' \in [Docs -> Stages]
      /\ \A e \in Docs : task'[e] = IF e = d THEN "sent" ELSE task[e]
  BY <1>3 DEF Send, Stages
<1>5. /\ \A i \in DOMAIN inbox : inbox[i].doc # d
      /\ \A i \in DOMAIN writing : writing[i].doc # d
      /\ \A i \in DOMAIN files : files[i].doc # d
      /\ d \notin gone
  BY <1>0 DEF OnePlace, AllSent, GoneOK
<1>6. /\ UNCHANGED <<client, written, next, body, buf, pos, alone, longest>>
      /\ UNCHANGED <<server, runs, writing, files>>
  BY DEF Send, serverVars
<1>7. NextOK' BY <1>6 DEF NextOK
<1>8. CASE server = "down" /\ gone' = gone \cup {d} /\ UNCHANGED inbox
  <2>1. TypeOK' BY <1>3, <1>4, <1>6, <1>8 DEF TypeOK
  <2>2. OnePlace' BY <1>2, <1>4, <1>6, <1>8 DEF OnePlace, Once, Apart, AllSent
  <2>3. GoneOK' BY <1>2, <1>3, <1>4, <1>5, <1>6, <1>8 DEF GoneOK, NotGone
  <2> QED BY <1>7, <2>1, <2>2, <2>3
<1>9. CASE server # "down" /\ inbox' = Append(inbox, m) /\ UNCHANGED gone
  <2>1. /\ inbox' \in Seq(Msg)
        /\ DOMAIN inbox = 1..Len(inbox) /\ DOMAIN inbox' = 1..Len(inbox) + 1
        /\ Len(inbox) \in Nat /\ inbox'[Len(inbox) + 1] = m
        /\ \A i \in 1..Len(inbox) : inbox'[i] = inbox[i]
    BY <1>1, <1>3, <1>9, AppendDocs
  <2>2. \A i \in DOMAIN inbox' :
          \/ i = Len(inbox) + 1 /\ inbox'[i].doc = d
          \/ i \in DOMAIN inbox /\ inbox'[i] = inbox[i]
    <3> SUFFICES ASSUME NEW i \in 1..Len(inbox) + 1
                 PROVE  \/ i = Len(inbox) + 1 /\ inbox'[i].doc = d
                        \/ i \in 1..Len(inbox) /\ inbox'[i] = inbox[i]
      BY <2>1
    <3>1. i = Len(inbox) + 1 \/ i \in 1..Len(inbox) BY <2>1
    <3> QED BY <1>1, <2>1, <3>1
  <2>3. TypeOK' BY <1>3, <1>4, <1>6, <1>9, <2>1 DEF TypeOK
  <2>4. OnePlace'
    <3>1. Once(inbox)' BY <1>5, <2>2 DEF OnePlace, Once
    <3>2. Apart(inbox, writing)' /\ Apart(inbox, files)'
      BY <1>5, <1>6, <2>2 DEF OnePlace, Apart
    <3>3. AllSent(inbox)' BY <1>2, <1>4, <2>2 DEF OnePlace, AllSent
    <3>4. AllSent(writing)' /\ AllSent(files)'
      BY <1>2, <1>4, <1>6 DEF OnePlace, AllSent
    <3>5. Once(writing)' /\ Once(files)' /\ Apart(writing, files)'
      BY <1>6 DEF OnePlace, Once, Apart
    <3> QED BY <3>1, <3>2, <3>3, <3>4, <3>5 DEF OnePlace
  <2>5. GoneOK'
    <3>1. NotGone(inbox)' BY <1>5, <1>9, <2>2 DEF GoneOK, NotGone
    <3> QED BY <1>3, <1>4, <1>5, <1>6, <1>9, <3>1 DEF GoneOK, NotGone
  <2> QED BY <1>7, <2>3, <2>4, <2>5
<1> QED BY <1>8, <1>9 DEF Send, m

LEMMA ClientExitOK ==
  ASSUME DeliveryInv, ClientExit
  PROVE  DeliveryInv'
<1> USE DEF DeliveryInv
<1>1. TypeOK' BY DEF ClientExit, TypeOK, serverVars
<1>2. NextOK' BY DEF ClientExit, NextOK
<1>3. OnePlace' BY DEF ClientExit, OnePlace, Once, Apart, AllSent, serverVars
<1>4. GoneOK'
  <2>1. /\ \A i \in DOMAIN inbox : task[inbox[i].doc] = "sent"
        /\ \A i \in DOMAIN writing : task[writing[i].doc] = "sent"
        /\ \A i \in DOMAIN files : task[files[i].doc] = "sent"
    BY DEF OnePlace, AllSent
  <2>2. client' = "down" /\ UNCHANGED <<task, inbox, writing, files>>
    BY DEF ClientExit, serverVars
  <2>3. NotGone(inbox)' /\ NotGone(writing)'
    BY <2>1, <2>2 DEF GoneOK, NotGone, ClientExit
  <2>4. \A i \in DOMAIN files' : files'[i].whole <=> files'[i].doc \notin gone'
    BY <2>1, <2>2 DEF GoneOK, ClientExit
  <2>5. \A d \in gone' : task[d] # "none"
    BY DEF GoneOK, ClientExit
  <2>6. \A d \in Docs : task[d] = "faulted" => d \in gone'
    BY DEF GoneOK, ClientExit
  <2> QED BY <2>2, <2>3, <2>4, <2>5, <2>6 DEF GoneOK
<1> QED BY <1>1, <1>2, <1>3, <1>4

LEMMA ServerStartOK ==
  ASSUME DeliveryInv, ServerStart \/ Subscribe
  PROVE  DeliveryInv'
<1> USE DEF DeliveryInv
<1>1. /\ UNCHANGED <<client, task, written, next, body, buf, pos, alone, longest>>
      /\ UNCHANGED <<inbox, writing, files, gone>>
      /\ server' \in {"bound", "hooked"} /\ runs' \in Nat
  BY DEF ServerStart, Subscribe, clientVars, TypeOK
<1>2. TypeOK' BY <1>1 DEF TypeOK
<1>3. NextOK' /\ OnePlace' /\ GoneOK'
  BY <1>1 DEF NextOK, OnePlace, Once, Apart, AllSent, GoneOK, NotGone
<1> QED BY <1>2, <1>3

LEMMA OnRecieveOK ==
  ASSUME DeliveryInv, OnRecieveEventHandler
  PROVE  DeliveryInv'
<1> USE DEF DeliveryInv
<1> DEFINE m == Head(inbox)
<1>0. /\ inbox \in Seq(Msg) /\ inbox # << >> /\ writing \in Seq(Msg)
      /\ gone \subseteq Docs /\ server # "down"
  BY DEF OnRecieveEventHandler, TypeOK
<1>1. /\ UNCHANGED <<client, task, written, next, body, buf, pos, alone, longest>>
      /\ UNCHANGED <<server, runs, files>>
      /\ inbox' = Tail(inbox)
  BY DEF OnRecieveEventHandler, clientVars
<1>2. /\ Len(inbox) \in Nat \ {0} /\ DOMAIN inbox = 1..Len(inbox)
      /\ m = inbox[1] /\ m \in Msg /\ 1 \in DOMAIN inbox
  BY <1>0, EmptySeq
<1>3. /\ inbox' \in Seq(Msg) /\ DOMAIN inbox' = 1..Len(inbox) - 1
      /\ \A i \in 1..Len(inbox) - 1 : inbox'[i] = inbox[i + 1]
  BY <1>0, <1>1, HeadTailProperties
<1>4. \A i \in DOMAIN inbox' : i + 1 \in DOMAIN inbox /\ i + 1 # 1 /\ inbox'[i] = inbox[i + 1]
  BY <1>2, <1>3
<1>5. /\ m.doc \in Docs /\ m.doc \notin gone /\ task[m.doc] = "sent"
      /\ \A i \in DOMAIN writing : writing[i].doc # m.doc
      /\ \A i \in DOMAIN files : files[i].doc # m.doc
  BY <1>2, DocsTyped DEF OnePlace, Apart, AllSent, GoneOK, NotGone
<1>6. \A i \in DOMAIN inbox' : inbox'[i].doc # m.doc
  BY <1>2, <1>4 DEF OnePlace, Once
<1> HIDE DEF m
<1>7. NextOK' BY <1>1 DEF NextOK
<1>8. /\ Once(inbox)' /\ Apart(inbox, files)' /\ AllSent(inbox)'
  <2>1. \A i, j \in DOMAIN inbox' : i + 1 = j + 1 => i = j
    BY <1>2, <1>3
  <2>2. Once(inbox)' BY <1>4, <2>1 DEF OnePlace, Once
  <2>3. Apart(inbox, files)' BY <1>1, <1>4 DEF OnePlace, Apart
  <2>4. AllSent(inbox)' BY <1>1, <1>4 DEF OnePlace, AllSent
  <2> QED BY <2>2, <2>3, <2>4
<1>9. CASE writing' = Append(writing, m) /\ UNCHANGED gone
  <2>1. /\ writing' \in Seq(Msg)
        /\ DOMAIN writing = 1..Len(writing) /\ DOMAIN writing' = 1..Len(writing) + 1
        /\ Len(writing) \in Nat /\ writing'[Len(writing) + 1] = m
        /\ \A i \in 1..Len(writing) : writing'[i] = writing[i]
    BY <1>0, <1>2, <1>9, AppendDocs
  <2>2. \A i \in DOMAIN writing' :
          \/ i = Len(writing) + 1 /\ writing'[i] = m
          \/ i \in DOMAIN writing /\ writing'[i] = writing[i]
    <3> SUFFICES ASSUME NEW i \in 1..Len(writing) + 1
                 PROVE  \/ i = Len(writing) + 1 /\ writing'[i] = m
                        \/ i \in 1..Len(writing) /\ writing'[i] = writing[i]
      BY <2>1
    <3>1. i = Len(writing) + 1 \/ i \in 1..Len(writing) BY <2>1
    <3> QED BY <2>1, <3>1
  <2>3. TypeOK' BY <1>0, <1>1, <1>3, <1>9, <2>1 DEF TypeOK
  <2>4. Once(writing)' BY <1>5, <2>2 DEF OnePlace, Once
  <2>5. Apart(inbox, writing)'
    BY <1>4, <1>6, <2>2 DEF OnePlace, Apart
  <2>6. Apart(writing, files)' BY <1>1, <1>5, <2>2 DEF OnePlace, Apart
  <2>7. AllSent(writing)' BY <1>1, <1>5, <2>2 DEF OnePlace, AllSent
  <2>8. Once(files)' /\ AllSent(files)' BY <1>1 DEF OnePlace, Once, AllSent
  <2>9. NotGone(inbox)' /\ NotGone(writing)'
    BY <1>4, <1>5, <1>9, <2>2 DEF GoneOK, NotGone
  <2>10. GoneOK' BY <1>1, <1>9, <2>9 DEF GoneOK
  <2> QED BY <1>7, <1>8, <2>3, <2>4, <2>5, <2>6, <2>7, <2>8, <2>10 DEF OnePlace
<1>10. CASE gone' = gone \cup {m.doc} /\ UNCHANGED writing
  <2>1. TypeOK' BY <1>0, <1>1, <1>3, <1>5, <1>10 DEF TypeOK
  <2>2. Apart(inbox, writing)' BY <1>4, <1>10 DEF OnePlace, Apart
  <2>3. /\ Once(writing)' /\ Once(files)' /\ Apart(writing, files)'
        /\ AllSent(writing)' /\ AllSent(files)'
    BY <1>1, <1>10 DEF OnePlace, Once, Apart, AllSent
  <2>4. NotGone(inbox)' /\ NotGone(writing)'
    BY <1>4, <1>5, <1>6, <1>10 DEF GoneOK, NotGone
  <2>5. GoneOK' BY <1>1, <1>5, <1>10, <2>4 DEF GoneOK
  <2> QED BY <1>7, <1>8, <2>1, <2>2, <2>3, <2>5 DEF OnePlace
<1> QED BY <1>9, <1>10 DEF OnRecieveEventHandler, m

LEMMA WriteAllBytesOK ==
  ASSUME DeliveryInv, NEW k \in DOMAIN writing, WriteAllBytes(k)
  PROVE  DeliveryInv'
<1> USE DEF DeliveryInv
<1> DEFINE f == AsFile(writing[k], TRUE)
<1>0. /\ writing \in Seq(Msg) /\ files \in Seq(File) /\ gone \subseteq Docs
      /\ DOMAIN writing = 1..Len(writing) /\ Len(writing) \in Nat
      /\ server = "down" => inbox = << >> /\ writing = << >>
  BY DEF TypeOK
<1>1. /\ UNCHANGED <<client, task, written, next, body, buf, pos, alone, longest>>
      /\ UNCHANGED <<server, runs, inbox>>
      /\ writing' = RemoveAt(writing, k)
  BY DEF WriteAllBytes, clientVars
<1>2. /\ writing' \in Seq(Msg) /\ Len(writing') = Len(writing) - 1
      /\ \A i \in 1..Len(writing) - 1 :
           writing'[i] = IF i < k THEN writing[i] ELSE writing[i + 1]
  BY <1>0, <1>1, RemoveAtProperties, ZenonT(30)
<1>3. DOMAIN writing' = 1..Len(writing) - 1 BY <1>2
<1> DEFINE old(i) == IF i < k THEN i ELSE i + 1
<1>4. \A i \in DOMAIN writing' :
        old(i) \in DOMAIN writing /\ old(i) # k /\ writing'[i] = writing[old(i)]
  BY <1>0, <1>2, <1>3
<1>5. \A i, j \in DOMAIN writing' : old(i) = old(j) => i = j
  BY <1>0, <1>3
<1> HIDE DEF old
<1>6. /\ writing[k] \in Msg /\ writing[k].doc \in Docs
      /\ writing[k].doc \notin gone /\ task[writing[k].doc] = "sent"
      /\ \A i \in DOMAIN inbox : inbox[i].doc # writing[k].doc
      /\ \A i \in DOMAIN files : files[i].doc # writing[k].doc
  BY DocsTyped DEF OnePlace, Apart, AllSent, GoneOK, NotGone
<1>7. \A i \in DOMAIN writing' : writing'[i].doc # writing[k].doc
  BY <1>4 DEF OnePlace, Once
<1>8. NextOK' BY <1>1 DEF NextOK
<1>9. /\ Once(writing)' /\ Apart(inbox, writing)' /\ AllSent(writing)'
      /\ Once(inbox)' /\ AllSent(inbox)'
  <2>1. Once(writing)' BY <1>4, <1>5 DEF OnePlace, Once
  <2>2. Apart(inbox, writing)' BY <1>1, <1>4 DEF OnePlace, Apart
  <2>3. AllSent(writing)' BY <1>1, <1>4 DEF OnePlace, AllSent
  <2>4. Once(inbox)' /\ AllSent(inbox)' BY <1>1 DEF OnePlace, Once, AllSent
  <2> QED BY <2>1, <2>2, <2>3, <2>4
<1>10. f \in File /\ f.doc = writing[k].doc /\ f.whole = TRUE
  <2>1. writing[k].body \in Seq(Block) BY <1>6 DEF Msg
  <2> QED BY <1>6, <2>1 DEF AsFile, File
<1>11. server' = "down" => inbox' = << >> /\ writing' = << >>
  BY <1>0, <1>1, EmptySeq
<1> HIDE DEF f
<1>12. CASE files' = Append(files, f) /\ UNCHANGED gone
  <2>1. /\ files' \in Seq(File)
        /\ DOMAIN files = 1..Len(files) /\ DOMAIN files' = 1..Len(files) + 1
        /\ Len(files) \in Nat /\ files'[Len(files) + 1] = f
        /\ \A i \in 1..Len(files) : files'[i] = files[i]
    BY <1>0, <1>10, <1>12, AppendDocs
  <2>2. \A i \in DOMAIN files' :
          \/ i = Len(files) + 1 /\ files'[i] = f
          \/ i \in DOMAIN files /\ files'[i] = files[i]
    <3> SUFFICES ASSUME NEW i \in 1..Len(files) + 1
                 PROVE  \/ i = Len(files) + 1 /\ files'[i] = f
                        \/ i \in 1..Len(files) /\ files'[i] = files[i]
      BY <2>1
    <3>1. i = Len(files) + 1 \/ i \in 1..Len(files) BY <2>1
    <3> QED BY <2>1, <3>1
  <2>3. TypeOK' BY <1>1, <1>2, <1>11, <1>12, <2>1 DEF TypeOK
  <2>4. Once(files)' BY <1>6, <1>10, <2>2 DEF OnePlace, Once
  <2>5. Apart(inbox, files)' BY <1>1, <1>6, <1>10, <2>2 DEF OnePlace, Apart
  <2>6. Apart(writing, files)' BY <1>4, <1>7, <1>10, <2>2 DEF OnePlace, Apart
  <2>7. AllSent(files)' BY <1>1, <1>6, <1>10, <2>2 DEF OnePlace, AllSent
  <2>8. NotGone(inbox)' /\ NotGone(writing)'
    BY <1>1, <1>4, <1>12 DEF GoneOK, NotGone
  <2>9. \A i \in DOMAIN files' : files'[i].whole <=> files'[i].doc \notin gone'
    BY <1>6, <1>10, <1>12, <2>2 DEF GoneOK
  <2>10. GoneOK' BY <1>1, <1>12, <2>8, <2>9 DEF GoneOK
  <2> QED BY <1>8, <1>9, <2>3, <2>4, <2>5, <2>6, <2>7, <2>10 DEF OnePlace
<1>13. CASE gone' = gone \cup {writing[k].doc} /\ UNCHANGED files
  <2>1. TypeOK' BY <1>0, <1>1, <1>2, <1>6, <1>11, <1>13 DEF TypeOK
  <2>2. Apart(writing, files)' BY <1>4, <1>13 DEF OnePlace, Apart
  <2>3. Once(files)' /\ Apart(inbox, files)' /\ AllSent(files)'
    BY <1>1, <1>13 DEF OnePlace, Once, Apart, AllSent
  <2>4. NotGone(inbox)' /\ NotGone(writing)'
    BY <1>1, <1>4, <1>6, <1>7, <1>13 DEF GoneOK, NotGone
  <2>5. GoneOK' BY <1>1, <1>6, <1>13, <2>4 DEF GoneOK
  <2> QED BY <1>8, <1>9, <2>1, <2>2, <2>3, <2>5 DEF OnePlace
<1> QED BY <1>12, <1>13 DEF WriteAllBytes, f

(* The files the server leaves behind: each begun by one writer.           *)
LEMMA BegunFiles ==
  ASSUME TypeOK, Once(writing), NEW begun \in SUBSET DOMAIN writing
  PROVE  LET t == SetToSeq({AsFile(writing[i], FALSE) : i \in begun})
         IN /\ t \in Seq(File)
            /\ \A j \in DOMAIN t : \E i \in DOMAIN writing :
                 t[j] = AsFile(writing[i], FALSE)
            /\ Once(t)
<1> DEFINE T == {AsFile(writing[i], FALSE) : i \in begun}
           t == SetToSeq(T)
<1>1. writing \in Seq(Msg) /\ Len(writing) \in Nat /\ DOMAIN writing = 1..Len(writing)
  BY DEF TypeOK
<1>2. IsFiniteSet(T)
  <2>0. IsFiniteSet(1..Len(writing)) BY <1>1, FS_Interval
  <2>1. IsFiniteSet(begun) BY <1>1, <2>0, FS_Subset
  <2> DEFINE f == [i \in begun |-> AsFile(writing[i], FALSE)]
  <2>2. f \in Surjection(begun, T) BY DEF Surjection
  <2> QED BY <2>1, <2>2, FS_Surjection
<1>3. T \subseteq File
  <2> SUFFICES ASSUME NEW i \in begun PROVE AsFile(writing[i], FALSE) \in File
    OBVIOUS
  <2>1. writing[i] \in Msg BY <1>1
  <2>2. writing[i].doc \in Docs /\ writing[i].body \in Seq(Block) BY <2>1 DEF Msg
  <2> QED BY <2>2 DEF AsFile, File
<1>4. /\ t \in Seq(T)
      /\ \A i, j \in DOMAIN t : t[i] = t[j] => i = j
  BY <1>2, SetToSeqProperties
<1>5. \A j \in DOMAIN t : t[j] \in T
  <2> HIDE DEF T, t
  <2> QED BY <1>4
<1>6. \A j \in DOMAIN t : \E i \in DOMAIN writing : t[j] = AsFile(writing[i], FALSE)
  BY <1>5
<1>7. t \in Seq(File)
  <2> HIDE DEF T, t
  <2> QED BY <1>3, <1>4
<1>8. Once(t)
  <2> HIDE DEF t
  <2> SUFFICES ASSUME NEW j \in DOMAIN t, NEW l \in DOMAIN t, t[j].doc = t[l].doc
               PROVE  j = l
    BY DEF Once
  <2>1. PICK i \in DOMAIN writing : t[j] = AsFile(writing[i], FALSE) BY <1>6
  <2>2. PICK n \in DOMAIN writing : t[l] = AsFile(writing[n], FALSE) BY <1>6
  <2>3. writing[i].doc = writing[n].doc BY <2>1, <2>2 DEF AsFile
  <2>4. i = n BY <2>3 DEF Once
  <2> QED BY <1>4, <2>1, <2>2, <2>4
<1> QED BY <1>6, <1>7, <1>8

LEMMA ServerExitOK ==
  ASSUME DeliveryInv, ServerExit
  PROVE  /\ DeliveryInv'
         /\ \A j \in DOMAIN files' :
              \/ j \in DOMAIN files /\ files'[j] = files[j]
              \/ \E i \in DOMAIN writing : files'[j] = AsFile(writing[i], FALSE)
         /\ \A j \in DOMAIN files : j \in DOMAIN files' /\ files'[j] = files[j]
<1> USE DEF DeliveryInv
<1>1. /\ UNCHANGED <<client, task, written, next, body, buf, pos, alone, longest, runs>>
      /\ server' = "down" /\ inbox' = << >> /\ writing' = << >>
      /\ gone' = gone \cup {inbox[i].doc : i \in DOMAIN inbox}
                      \cup {writing[i].doc : i \in DOMAIN writing}
  BY DEF ServerExit, clientVars
<1>2. PICK begun \in SUBSET DOMAIN writing :
        files' = files \o SetToSeq({AsFile(writing[i], FALSE) : i \in begun})
  BY DEF ServerExit
<1> DEFINE t == SetToSeq({AsFile(writing[i], FALSE) : i \in begun})
<1>3. Once(writing) BY DEF OnePlace
<1>4. /\ t \in Seq(File)
      /\ \A j \in DOMAIN t : \E i \in DOMAIN writing : t[j] = AsFile(writing[i], FALSE)
      /\ Once(t)
  BY <1>3, BegunFiles
<1> HIDE DEF t
<1>5. files \in Seq(File) /\ Len(files) \in Nat /\ Len(t) \in Nat /\ gone \subseteq Docs
  BY <1>4 DEF TypeOK
<1>6. /\ files' \in Seq(File) /\ Len(files') = Len(files) + Len(t)
      /\ \A j \in 1..Len(files) + Len(t) :
           files'[j] = IF j <= Len(files) THEN files[j] ELSE t[j - Len(files)]
  <2>1. files' = files \o t BY <1>2 DEF t
  <2> QED BY <1>4, <1>5, <2>1, ConcatProperties
<1>7. /\ DOMAIN files' = 1..Len(files) + Len(t)
      /\ DOMAIN files = 1..Len(files) /\ DOMAIN t = 1..Len(t)
  BY <1>4, <1>5, <1>6
<1>8. \A j \in DOMAIN files' :
        \/ j \in DOMAIN files /\ files'[j] = files[j]
        \/ /\ j \notin DOMAIN files /\ j - Len(files) \in DOMAIN t
           /\ files'[j] = t[j - Len(files)]
  BY <1>5, <1>6, <1>7
<1>9. \A j \in DOMAIN files : j \in DOMAIN files' /\ files'[j] = files[j]
  BY <1>5, <1>6, <1>7
<1>10. \A i \in DOMAIN writing :
         /\ AsFile(writing[i], FALSE).doc = writing[i].doc
         /\ AsFile(writing[i], FALSE).whole = FALSE
         /\ writing[i].doc \in gone' /\ writing[i].doc \in Docs
         /\ task[writing[i].doc] = "sent"
         /\ \A j \in DOMAIN files : files[j].doc # writing[i].doc
  BY <1>1, DocsTyped DEF AsFile, OnePlace, Apart, AllSent
<1>11. \A i \in DOMAIN inbox :
         /\ inbox[i].doc \in Docs /\ task[inbox[i].doc] = "sent"
         /\ \A j \in DOMAIN files : files[j].doc # inbox[i].doc
  BY DocsTyped DEF OnePlace, Apart, AllSent
<1>12. gone' \subseteq Docs
  <2>1. {inbox[i].doc : i \in DOMAIN inbox} \subseteq Docs BY <1>11
  <2>2. {writing[i].doc : i \in DOMAIN writing} \subseteq Docs BY <1>10
  <2>3. gone \subseteq Docs BY <1>5
  <2> QED BY <1>1, <2>1, <2>2, <2>3
<1>13. TypeOK'
  <2>1. << >> \in Seq(Msg) OBVIOUS
  <2> QED BY <1>1, <1>6, <1>12, <2>1 DEF TypeOK
<1>14. NextOK' BY <1>1 DEF NextOK
<1>15. \A j \in DOMAIN t : \E i \in DOMAIN writing :
         t[j].doc = writing[i].doc /\ t[j].whole = FALSE
  BY <1>4, <1>10, ZenonT(30)
<1>16. Once(files)'
  <2> SUFFICES ASSUME NEW j \in DOMAIN files', NEW l \in DOMAIN files',
                      files'[j].doc = files'[l].doc
               PROVE  j = l
    BY DEF Once
  <2>1. CASE j \in DOMAIN files /\ l \in DOMAIN files
    BY <1>9, <2>1 DEF OnePlace, Once
  <2>2. CASE j \notin DOMAIN files /\ l \notin DOMAIN files
    <3>1. j - Len(files) = l - Len(files) BY <1>4, <1>8, <2>2 DEF Once
    <3> QED BY <1>5, <1>7, <3>1
  <2>3. CASE j \in DOMAIN files /\ l \notin DOMAIN files
    <3>1. PICK i \in DOMAIN writing : files'[l].doc = writing[i].doc
      BY <1>8, <1>15, <2>3
    <3>2. files[j].doc # writing[i].doc BY <1>10, <2>3
    <3> QED BY <1>9, <3>1, <3>2, <2>3
  <2>4. CASE j \notin DOMAIN files /\ l \in DOMAIN files
    <3>1. PICK i \in DOMAIN writing : files'[j].doc = writing[i].doc
      BY <1>8, <1>15, <2>4
    <3>2. files[l].doc # writing[i].doc BY <1>10, <2>4
    <3> QED BY <1>9, <3>1, <3>2, <2>4
  <2> QED BY <2>1, <2>2, <2>3, <2>4
<1>17. AllSent(files)'
  <2>1. \A j \in DOMAIN files : task[files[j].doc] = "sent"
    BY DEF OnePlace, AllSent
  <2>2. \A j \in DOMAIN t : task[t[j].doc] = "sent" BY <1>10, <1>15
  <2> QED BY <1>1, <1>8, <2>1, <2>2 DEF AllSent
<1>18. OnePlace' BY <1>1, <1>16, <1>17 DEF OnePlace, Once, Apart, AllSent
<1>19. GoneOK'
  <2>1. \A j \in DOMAIN files : files[j].doc \in gone' <=> files[j].doc \in gone
    BY <1>1, <1>10, <1>11
  <2>2. \A j \in DOMAIN t : t[j].doc \in gone' /\ ~t[j].whole BY <1>10, <1>15
  <2>3. \A j \in DOMAIN files' : files'[j].whole <=> files'[j].doc \notin gone'
    BY <1>8, <2>1, <2>2 DEF GoneOK
  <2>4. \A d \in gone' : d \in gone \/ task[d] = "sent"
    <3> TAKE d \in gone'
    <3>1. CASE d \in gone BY <3>1
    <3>2. CASE d \in {inbox[i].doc : i \in DOMAIN inbox} BY <1>11, <3>2
    <3>3. CASE d \in {writing[i].doc : i \in DOMAIN writing} BY <1>10, <3>3
    <3> QED BY <1>1, <3>1, <3>2, <3>3
  <2> QED BY <1>1, <2>3, <2>4 DEF GoneOK, NotGone
<1> QED BY <1>4, <1>8, <1>9, <1>13, <1>14, <1>18, <1>19, ZenonT(30)

LEMMA DeliveryNext == DeliveryInv /\ [Next]_vars => DeliveryInv'
<1> SUFFICES ASSUME DeliveryInv, [Next]_vars PROVE DeliveryInv' OBVIOUS
<1>1. ASSUME NEW d \in Docs, OnFileReadyHandler(d) PROVE DeliveryInv'
  BY <1>1, OnFileReadyOK
<1>2. ASSUME NEW d \in Docs, Task(d) PROVE DeliveryInv'
  BY <1>2, DrawImagesOK, StoreBlockOK, MovePositionOK, EndSaveOK, ToByteArrayOK,
     SendOK DEF Task
<1>3. CASE ClientExit BY <1>3, ClientExitOK
<1>4. CASE ServerStart \/ Subscribe BY <1>4, ServerStartOK
<1>5. CASE OnRecieveEventHandler BY <1>5, OnRecieveOK
<1>6. CASE ServerExit BY <1>6, ServerExitOK
<1>7. ASSUME NEW i \in DOMAIN writing, WriteAllBytes(i) PROVE DeliveryInv'
  BY <1>7, WriteAllBytesOK
<1>8. CASE UNCHANGED vars
  BY <1>8 DEF DeliveryInv, vars, clientVars, serverVars, TypeOK, NextOK, OnePlace,
     Once, Apart, AllSent, GoneOK, NotGone
<1> QED BY <1>1, <1>2, <1>3, <1>4, <1>5, <1>6, <1>7, <1>8 DEF Next

LEMMA DeliveryAlways == Spec => []DeliveryInv
BY DeliveryInit, DeliveryNext, PTL DEF Spec

(* Every variable of the way of a document keeps its type: the stream's    *)
(* Position is never behind its end, and a server that is down holds       *)
(* nothing.                                                                *)
THEOREM DeliveryTypeCorrect == Spec => []TypeOK
BY DeliveryAlways, PTL DEF DeliveryInv
-----------------------------------------------------------------------------
(* Whoever has at most one element counts as none or one.                  *)
LEMMA AtMostOneElement ==
  ASSUME NEW S, \A x, y \in S : x = y
  PROVE  Cardinality(S) = IF S = {} THEN 0 ELSE 1
<1>1. CASE S = {} BY <1>1, FS_EmptySet
<1>2. CASE S # {}
  <2>1. PICK x \in S : TRUE BY <1>2
  <2>2. S = {x} BY <2>1
  <2> QED BY <1>2, <2>2, FS_Singleton
<1> QED BY <1>1, <1>2

LEMMA OnePlaceCounts == DeliveryInv => NoDuplicates
<1> SUFFICES ASSUME DeliveryInv, NEW d \in Docs
             PROVE  Cardinality({i \in DOMAIN inbox : inbox[i].doc = d})
                    + Cardinality({i \in DOMAIN writing : writing[i].doc = d})
                    + Cardinality({i \in DOMAIN files : files[i].doc = d})
                      <= (IF task[d] = "sent" THEN 1 ELSE 0)
  BY DEF NoDuplicates
<1> DEFINE A == {i \in DOMAIN inbox : inbox[i].doc = d}
           B == {i \in DOMAIN writing : writing[i].doc = d}
           C == {i \in DOMAIN files : files[i].doc = d}
<1>1. /\ \A x, y \in A : x = y
      /\ \A x, y \in B : x = y
      /\ \A x, y \in C : x = y
  BY DEF DeliveryInv, OnePlace, Once
<1>2. /\ A = {} \/ B = {}
      /\ A = {} \/ C = {}
      /\ B = {} \/ C = {}
  BY DEF DeliveryInv, OnePlace, Apart
<1>3. task[d] # "sent" => A = {} /\ B = {} /\ C = {}
  BY DEF DeliveryInv, OnePlace, AllSent
<1> HIDE DEF A, B, C
<1>4. /\ Cardinality(A) = IF A = {} THEN 0 ELSE 1
      /\ Cardinality(B) = IF B = {} THEN 0 ELSE 1
      /\ Cardinality(C) = IF C = {} THEN 0 ELSE 1
  BY <1>1, AtMostOneElement
<1>5. Cardinality(A) + Cardinality(B) + Cardinality(C)
        <= (IF task[d] = "sent" THEN 1 ELSE 0)
  BY <1>2, <1>3, <1>4
<1> QED BY <1>5 DEF A, B, C

(* A document is in the queue, in a writer's hands or in a file once, and  *)
(* only after its task sent it, however often the server ends and starts   *)
(* and however its writers overtake one another.                           *)
THEOREM DeliveryNoDuplicates == Spec => []NoDuplicates
BY DeliveryAlways, OnePlaceCounts, PTL
-----------------------------------------------------------------------------
(* A delivered document was sent, and is nowhere else.                     *)
LEMMA DeliveredApart ==
  ASSUME DeliveryInv, NEW e \in Delivered
  PROVE  /\ e \in Offered /\ task[e] = "sent" /\ e \notin gone
         /\ \A i \in DOMAIN inbox : inbox[i].doc # e
         /\ \A i \in DOMAIN writing : writing[i].doc # e
<1>1. PICK j \in DOMAIN files : files[j].whole /\ files[j].doc = e
  BY DEF Delivered
<1>2. e \in Docs BY <1>1, DocsTyped DEF DeliveryInv
<1> QED BY <1>1, <1>2 DEF DeliveryInv, OnePlace, Apart, AllSent, GoneOK, Offered

LEMMA SameOffered ==
  ASSUME TypeOK, NEW d \in Docs, NEW x \in Stages \ {"none"}, task[d] # "none",
         task' = [task EXCEPT ![d] = x]
  PROVE  UNCHANGED Offered
BY DEF TypeOK, Offered

(* Steps that only lose documents.                                         *)
LEMMA OnlyLoses ==
  ASSUME DeliveryInv, UNCHANGED <<Offered, Delivered>>,
         NEW S \in SUBSET Docs, gone' = gone \cup S,
         \A e \in S : task[e] # "none" /\ e \notin Delivered
  PROVE  [Delivery!Next]_(Delivery!vars)
<1>1. S \ gone \in SUBSET Docs /\ gone' = gone \cup (S \ gone) OBVIOUS
<1>2. S \ gone \subseteq Offered \ (Delivered \cup gone) BY DEF Offered
<1>3. Delivery!Lose(S \ gone) BY <1>1, <1>2 DEF Delivery!Lose
<1> QED BY <1>1, <1>3 DEF Delivery!Next

LEMMA LosesOne ==
  ASSUME DeliveryInv, UNCHANGED <<Offered, Delivered>>,
         NEW d \in Docs, gone' = gone \cup {d}, task[d] # "none", d \notin Delivered
  PROVE  [Delivery!Next]_(Delivery!vars)
<1>1. {d} \in SUBSET Docs OBVIOUS
<1>2. \A e \in {d} : task[e] # "none" /\ e \notin Delivered OBVIOUS
<1> QED BY <1>1, <1>2, OnlyLoses

LEMMA DeliveryInitRefines == Init => Delivery!Init
BY DEF Init, Delivery!Init, Offered, Delivered

LEMMA TaskRefines ==
  ASSUME DeliveryInv, NEW d \in Docs, Task(d)
  PROVE  [Delivery!Next]_(Delivery!vars)
<1> USE DEF DeliveryInv
<1>1. UNCHANGED Delivered
  BY DEF Task, DrawImages, StoreBlock, MovePosition, EndSave, ToByteArray, Send,
         serverVars, Delivered
<1>2. UNCHANGED Offered
  <2>1. task[d] # "none" /\ \E x \in Stages \ {"none"} : task' = [task EXCEPT ![d] = x]
    BY DEF Task, DrawImages, StoreBlock, MovePosition, EndSave, ToByteArray, Send, Stages
  <2> QED BY <2>1, SameOffered
<1>3. CASE UNCHANGED gone BY <1>1, <1>2, <1>3 DEF Delivery!vars
<1>4. CASE gone' = gone \cup {d} /\ task[d] \in {"drawing", "converted"}
  <2>1. d \notin Delivered BY <1>4, DeliveredApart
  <2> QED BY <1>1, <1>2, <1>4, <2>1, LosesOne
<1> QED
  BY <1>3, <1>4 DEF Task, DrawImages, StoreBlock, MovePosition, EndSave, ToByteArray, Send

LEMMA WriteAllBytesRefines ==
  ASSUME DeliveryInv, NEW k \in DOMAIN writing, WriteAllBytes(k)
  PROVE  [Delivery!Next]_(Delivery!vars)
<1> USE DEF DeliveryInv
<1> DEFINE d == writing[k].doc
<1>1. d \in Docs /\ d \notin gone /\ d \in Offered /\ d \notin Delivered
  BY DocsTyped, DeliveredApart DEF OnePlace, AllSent, GoneOK, NotGone, Offered
<1>2. UNCHANGED Offered BY DEF WriteAllBytes, clientVars, Offered
<1>3. CASE files' = Append(files, AsFile(writing[k], TRUE)) /\ UNCHANGED gone
  <2>1. files \in Seq(File) /\ AsFile(writing[k], TRUE) \in File
    <3>1. writing[k] \in Msg BY DocsTyped
    <3>2. writing[k].doc \in Docs /\ writing[k].body \in Seq(Block) BY <3>1 DEF Msg
    <3> QED BY <3>2 DEF AsFile, File, TypeOK
  <2>2. AsFile(writing[k], TRUE).whole = TRUE /\ AsFile(writing[k], TRUE).doc = d
    BY DEF AsFile
  <2> DEFINE f == AsFile(writing[k], TRUE)
  <2>3. /\ DOMAIN files = 1..Len(files) /\ DOMAIN files' = 1..Len(files) + 1
        /\ Len(files) \in Nat /\ files'[Len(files) + 1] = f
        /\ \A i \in 1..Len(files) : files'[i] = files[i]
    <3>1. files \in Seq(File) /\ f \in File /\ files' = Append(files, f)
      BY <1>3, <2>1
    <3> HIDE DEF f
    <3> QED BY <3>1, AppendDocs
  <2> HIDE DEF d
  <2>4. \A i \in DOMAIN files' : i = Len(files) + 1 \/ i \in DOMAIN files
    BY <2>3
  <2>5. Delivered' = Delivered \cup {d}
    <3>1. \A e \in Delivered' : e \in Delivered \cup {d}
      <4> TAKE e \in Delivered'
      <4>1. PICK j \in DOMAIN files' : files'[j].whole /\ files'[j].doc = e
        BY DEF Delivered
      <4> QED BY <2>2, <2>3, <2>4, <4>1 DEF Delivered
    <3>2. \A e \in Delivered : e \in Delivered'
      <4> TAKE e \in Delivered
      <4>1. PICK j \in DOMAIN files : files[j].whole /\ files[j].doc = e
        BY DEF Delivered
      <4>2. j \in DOMAIN files' /\ files'[j] = files[j] BY <2>3
      <4> QED BY <4>1, <4>2 DEF Delivered
    <3>3. d \in Delivered'
      <4>1. Len(files) + 1 \in DOMAIN files' BY <2>3
      <4> QED BY <2>2, <2>3, <4>1 DEF Delivered
    <3> QED BY <3>1, <3>2, <3>3
  <2>6. Delivery!Deliver(d) BY <1>1, <1>2, <1>3, <2>5 DEF Delivery!Deliver
  <2> QED BY <1>1, <2>6 DEF Delivery!Next
<1>4. CASE gone' = gone \cup {d} /\ UNCHANGED files
  <2>1. UNCHANGED Delivered BY <1>4 DEF Delivered
  <2>2. task[d] # "none" BY <1>1 DEF Offered
  <2> QED BY <1>1, <1>2, <1>4, <2>1, <2>2, LosesOne
<1> QED BY <1>3, <1>4 DEF WriteAllBytes

LEMMA ServerExitRefines ==
  ASSUME DeliveryInv, ServerExit
  PROVE  [Delivery!Next]_(Delivery!vars)
<1> USE DEF DeliveryInv
<1>1. UNCHANGED Offered BY DEF ServerExit, clientVars, Offered
<1>2. UNCHANGED Delivered
  <2>1. \A e \in Delivered' : e \in Delivered
    <3> TAKE e \in Delivered'
    <3>1. PICK j \in DOMAIN files' : files'[j].whole /\ files'[j].doc = e
      BY DEF Delivered
    <3>2. \A i \in DOMAIN writing : ~AsFile(writing[i], FALSE).whole BY DEF AsFile
    <3>3. j \in DOMAIN files /\ files'[j] = files[j] BY <3>1, <3>2, ServerExitOK
    <3> QED BY <3>1, <3>3 DEF Delivered
  <2>2. \A e \in Delivered : e \in Delivered'
    <3> TAKE e \in Delivered
    <3>1. PICK j \in DOMAIN files : files[j].whole /\ files[j].doc = e
      BY DEF Delivered
    <3>2. j \in DOMAIN files' /\ files'[j] = files[j] BY ServerExitOK
    <3> QED BY <3>1, <3>2 DEF Delivered
  <2> QED BY <2>1, <2>2
<1> DEFINE S == {inbox[i].doc : i \in DOMAIN inbox}
                \cup {writing[i].doc : i \in DOMAIN writing}
<1>3. S \in SUBSET Docs BY DocsTyped
<1>4. \A e \in S : task[e] # "none" /\ e \notin Delivered
  BY DeliveredApart DEF OnePlace, AllSent
<1>5. gone' = gone \cup S BY DEF ServerExit
<1> HIDE DEF S
<1> QED BY <1>1, <1>2, <1>3, <1>4, <1>5, OnlyLoses

LEMMA DeliveryNextRefines ==
  DeliveryInv /\ [Next]_vars => [Delivery!Next]_(Delivery!vars)
<1> SUFFICES ASSUME DeliveryInv, [Next]_vars
             PROVE  [Delivery!Next]_(Delivery!vars)
  OBVIOUS
<1> USE DEF DeliveryInv
<1>1. ASSUME NEW d \in Docs, OnFileReadyHandler(d)
      PROVE  [Delivery!Next]_(Delivery!vars)
  <2>1. d \notin Offered BY <1>1 DEF OnFileReadyHandler, Offered
  <2>2. Offered' = Offered \cup {d} BY <1>1 DEF OnFileReadyHandler, Offered, TypeOK
  <2>3. UNCHANGED <<Delivered, gone>>
    BY <1>1 DEF OnFileReadyHandler, serverVars, Delivered
  <2>4. Delivery!Offer(d) BY <2>1, <2>2, <2>3 DEF Delivery!Offer
  <2> QED BY <2>4 DEF Delivery!Next
<1>2. ASSUME NEW d \in Docs, Task(d)
      PROVE  [Delivery!Next]_(Delivery!vars)
  BY <1>2, TaskRefines
<1>3. CASE ClientExit
  <2> DEFINE S == {d \in Docs : task[d] \in Stages \ {"none", "sent"}}
  <2>1. UNCHANGED <<Offered, Delivered>>
    BY <1>3 DEF ClientExit, serverVars, Offered, Delivered
  <2>2. \A e \in S : task[e] # "none" /\ e \notin Delivered BY DeliveredApart
  <2>3. S \in SUBSET Docs /\ gone' = gone \cup S BY <1>3 DEF ClientExit
  <2> HIDE DEF S
  <2> QED BY <2>1, <2>2, <2>3, OnlyLoses
<1>4. CASE ServerStart \/ Subscribe
  BY <1>4 DEF ServerStart, Subscribe, clientVars, Offered, Delivered, Delivery!vars
<1>5. CASE OnRecieveEventHandler
  <2>1. UNCHANGED <<Offered, Delivered>>
    BY <1>5 DEF OnRecieveEventHandler, clientVars, Offered, Delivered
  <2>2. CASE UNCHANGED gone BY <2>1, <2>2 DEF Delivery!vars
  <2>3. CASE gone' = gone \cup {Head(inbox).doc}
    <3>1. inbox \in Seq(Msg) /\ inbox # << >>
      BY <1>5 DEF OnRecieveEventHandler, TypeOK
    <3>2. 1 \in DOMAIN inbox /\ Head(inbox) = inbox[1] BY <3>1, EmptySeq
    <3>3. Head(inbox).doc \in Docs /\ task[Head(inbox).doc] = "sent"
      BY <3>2, DocsTyped DEF OnePlace, AllSent
    <3>4. Head(inbox).doc \notin Delivered BY <3>2, DeliveredApart
    <3>5. task[Head(inbox).doc] # "none" BY <3>3
    <3> HIDE DEF DeliveryInv
    <3> QED BY <2>1, <2>3, <3>3, <3>4, <3>5, LosesOne
  <2> QED BY <1>5, <2>2, <2>3 DEF OnRecieveEventHandler
<1>6. CASE ServerExit BY <1>6, ServerExitRefines
<1>7. ASSUME NEW i \in DOMAIN writing, WriteAllBytes(i)
      PROVE  [Delivery!Next]_(Delivery!vars)
  BY <1>7, WriteAllBytesRefines
<1>8. CASE UNCHANGED vars
  BY <1>8 DEF vars, clientVars, serverVars, Offered, Delivered, Delivery!vars
<1> QED BY <1>1, <1>2, <1>3, <1>4, <1>5, <1>6, <1>7, <1>8 DEF Next

(* Client, broker and server together implement at-most-once delivery: a   *)
(* file is written whole only for a document offered before, once, and     *)
(* never for one that was lost, whatever process ends in between.          *)
THEOREM DeliveryImplements == Spec => DeliverySpec
<1>1. Init => Delivery!Init BY DeliveryInitRefines
<1>2. DeliveryInv /\ [Next]_vars => [Delivery!Next]_(Delivery!vars)
  BY DeliveryNextRefines
<1> QED BY <1>1, <1>2, DeliveryAlways, PTL DEF Spec, DeliverySpec, Delivery!Spec
-----------------------------------------------------------------------------
LEMMA ConversionInit == Init => StreamOK /\ SoloOK /\ BodiesOK
<1> SUFFICES ASSUME Init PROVE StreamOK /\ SoloOK /\ BodiesOK OBVIOUS
<1>1. StreamOK BY DocsAssumption DEF Init, StreamOK
<1>2. SoloOK BY DEF Init, SoloOK, Active
<1>3. BodiesOK BY DEF Init, BodiesOK, Bodies
<1> QED BY <1>1, <1>2, <1>3

LEMMA BlocksTyped ==
  ASSUME TypeOK
  PROVE  /\ Len(buf) \in Nat /\ DOMAIN buf = 1..Len(buf)
         /\ \A i \in DOMAIN buf : buf[i][1] \in Docs /\ buf[i][2] \in Nat \ {0}
<1>1. buf \in Seq(Block) BY DEF TypeOK
<1>2. \A i \in DOMAIN buf : buf[i] \in Block BY <1>1
<1>3. \A x \in Block : x[1] \in Docs /\ x[2] \in Nat \ {0} BY DEF Block
<1> QED BY <1>1, <1>2, <1>3

(* While a task uses the stream, a conversion that overlaps none does not. *)
LEMMA OthersIdle ==
  ASSUME SoloOK, NEW d \in Docs, Active(d), NEW e \in Docs, e # d, alone[e]
  PROVE  ~Active(e)
BY DEF SoloOK

(* What is queued, written or in a file is of a task that is done.         *)
LEMMA BodiesStay ==
  ASSUME DeliveryInv, BodiesOK, NEW d \in Docs, task[d] # "sent",
         NEW b, body' = [body EXCEPT ![d] = b],
         UNCHANGED <<inbox, writing, files>>
  PROVE  BodiesOK'
<1>1. /\ \A i \in DOMAIN inbox : inbox[i].doc \in Docs \ {d}
      /\ \A i \in DOMAIN writing : writing[i].doc \in Docs \ {d}
      /\ \A i \in DOMAIN files : files[i].doc \in Docs \ {d}
  BY DocsTyped DEF DeliveryInv, OnePlace, AllSent
<1>2. \A e \in Docs \ {d} : body'[e] = body[e] BY DEF DeliveryInv, TypeOK
<1> QED BY <1>1, <1>2 DEF BodiesOK, Bodies

LEMMA DrawImagesConverts ==
  ASSUME ConversionInv, NEW d \in Docs, DrawImages(d)
  PROVE  StreamOK' /\ SoloOK' /\ BodiesOK'
<1> USE DEF ConversionInv, DeliveryInv
<1>0. /\ task[d] = "drawing" /\ ~Active(d)
      /\ UNCHANGED <<written, next, body, buf, pos, inbox, writing, files>>
  BY DEF DrawImages, Active, serverVars
<1>1. BodiesOK' BY <1>0 DEF BodiesOK, Bodies
<1>2. CASE /\ task' = [task EXCEPT ![d] = "saving"]
           /\ alone' = [e \in Docs |->
                          alone[e] /\ (Active(e) \/ e = d =>
                                         \A o \in Docs \ {d} : ~Active(o))]
           /\ longest' = [longest EXCEPT ![d] = Len(buf)]
  <2>1. \A e \in Docs : task'[e] = IF e = d THEN "saving" ELSE task[e]
    BY <1>2 DEF TypeOK
  <2>2. StreamOK' BY <1>0, <2>1 DEF StreamOK
  <2>3. SoloOK'
    <3> SUFFICES ASSUME NEW e \in Docs, alone'[e]
                 PROVE  /\ Active(e)' => /\ \A o \in Docs \ {e} : ~Active(o)'
                                         /\ Prefix(e, buf, written[e])'
                        /\ task'[e] = "saving" => pos' = written'[e]
                        /\ task'[e] = "storing" => next'[e] = written'[e]
                        /\ task'[e] = "saved" => written'[e] = Size[e]
                        /\ task'[e] \in {"converted", "sent"}
                             => Prefix(e, body[e], Size[e])'
      BY DEF SoloOK
    <3>1. alone[e] /\ (Active(e) \/ e = d => \A o \in Docs \ {d} : ~Active(o))
      BY <1>2
    <3>2. CASE e = d
      <4>1. \A o \in Docs \ {d} : ~Active(o) /\ ~Active(o)'
        BY <2>1, <3>1, <3>2 DEF Active
      <4>2. written[d] = 0 BY <1>0 DEF StreamOK
      <4>3. \A i \in DOMAIN buf : buf[i][1] # d
        <5> SUFFICES ASSUME NEW i \in DOMAIN buf, buf[i][1] = d PROVE FALSE
          OBVIOUS
        <5>1. buf[i][2] <= written[d] BY DEF StreamOK
        <5>2. buf[i][2] \in Nat \ {0} BY BlocksTyped
        <5> QED BY <4>2, <5>1, <5>2
      <4>4. longest'[d] = Len(buf) BY <1>2 DEF TypeOK
      <4>5. Prefix(d, buf, written[d])'
        <5>1. Len(buf) = Larger(0, Len(buf)) BY BlocksTyped DEF Larger
        <5>2. \A i \in 0 + 1..Len(buf) : buf[i][1] # d BY <4>3, BlocksTyped
        <5> QED BY <1>0, <4>2, <4>4, <5>1, <5>2 DEF Prefix
      <4>6. pos = 0
        <5>1. \A o \in Docs : task[o] \notin {"saving", "storing"}
          BY <1>0, <4>1 DEF Active
        <5> QED BY <5>1 DEF StreamOK
      <4> QED BY <1>0, <2>1, <3>2, <4>1, <4>2, <4>5, <4>6
    <3>3. CASE e # d
      <4>1. ~Active(e) BY <3>1, <3>3
      <4>2. ~Active(e)' /\ task'[e] = task[e] BY <2>1, <3>3, <4>1 DEF Active
      <4>3. longest'[e] = longest[e] BY <1>2, <3>3 DEF TypeOK
      <4>4. task[e] \in {"converted", "sent"} => Prefix(e, body[e], Size[e])'
        BY <1>0, <3>1, <4>3 DEF SoloOK, Prefix
      <4> QED BY <4>1, <4>2, <4>4 DEF Active
    <3> QED BY <3>2, <3>3
  <2> QED BY <1>1, <2>2, <2>3
<1>3. CASE task' = [task EXCEPT ![d] = "faulted"] /\ UNCHANGED <<alone, longest>>
  <2>1. \A e \in Docs : task'[e] = IF e = d THEN "faulted" ELSE task[e]
    BY <1>3 DEF TypeOK
  <2>2. StreamOK' BY <1>0, <2>1 DEF StreamOK
  <2>3. SoloOK' BY <1>0, <1>3, <2>1 DEF SoloOK, Active, Prefix
  <2> QED BY <1>1, <2>2, <2>3
<1> QED BY <1>2, <1>3 DEF DrawImages

LEMMA StoreBlockConverts ==
  ASSUME ConversionInv, NEW d \in Docs, StoreBlock(d)
  PROVE  StreamOK' /\ SoloOK' /\ BodiesOK'
<1> USE DEF ConversionInv, DeliveryInv
<1>0. /\ task[d] = "saving" /\ Active(d) /\ written[d] < Size[d]
      /\ UNCHANGED <<body, pos, alone, longest, inbox, writing, files>>
  BY DEF StoreBlock, Active, serverVars
<1>1. /\ written \in [Docs -> Nat] /\ next \in [Docs -> Nat] /\ longest \in [Docs -> Nat]
      /\ pos \in 0..Len(buf) /\ Len(buf) \in Nat /\ DOMAIN buf = 1..Len(buf)
      /\ Size \in [Docs -> Nat \ {0}]
  BY BlocksTyped, DocsAssumption DEF TypeOK
<1>2. /\ \A e \in Docs : task'[e] = IF e = d THEN "storing" ELSE task[e]
      /\ \A e \in Docs : written'[e] = IF e = d THEN written[d] + 1 ELSE written[e]
      /\ \A e \in Docs : next'[e] = IF e = d THEN pos + 1 ELSE next[e]
  BY <1>1 DEF StoreBlock, TypeOK
<1>3. /\ Len(buf') = Larger(Len(buf), pos + 1)
      /\ \A i \in 1..Len(buf') :
           buf'[i] = IF i = pos + 1 THEN <<d, written[d] + 1>> ELSE buf[i]
      /\ DOMAIN buf' = 1..Len(buf')
  <2>1. /\ DeliveryInv' /\ Len(buf') = Larger(Len(buf), pos + 1)
        /\ \A i \in 1..Len(buf') :
             buf'[i] = IF i = pos + 1 THEN <<d, written[d] + 1>> ELSE buf[i]
    BY StoreBlockOK
  <2>2. buf' \in Seq(Block) BY <2>1 DEF TypeOK
  <2> QED BY <2>1, <2>2
<1>4. \A i \in 1..Len(buf') : i = pos + 1 \/ i \in 1..Len(buf)
  BY <1>1, <1>3 DEF Larger
<1>5. BodiesOK' BY <1>0 DEF BodiesOK, Bodies
<1>6. StreamOK'
  <2>1. \A i \in DOMAIN buf' : buf'[i][2] <= written'[buf'[i][1]]
    <3> SUFFICES ASSUME NEW i \in 1..Len(buf')
                 PROVE  buf'[i][2] <= written'[buf'[i][1]]
      BY <1>3
    <3>1. CASE i = pos + 1
      <4>1. buf'[i][1] = d /\ buf'[i][2] = written[d] + 1 BY <1>3, <3>1
      <4> QED BY <1>1, <1>2, <4>1
    <3>2. CASE i # pos + 1
      <4>1. i \in DOMAIN buf /\ buf'[i] = buf[i] BY <1>1, <1>3, <1>4, <3>2
      <4>2. buf[i][2] <= written[buf[i][1]] BY <4>1 DEF StreamOK
      <4>3. buf[i][1] \in Docs /\ buf[i][2] \in Nat BY <4>1, BlocksTyped
      <4> DEFINE e == buf[i][1]
      <4>4. e \in Docs BY <4>3
      <4> HIDE DEF e
      <4>5. written[e] \in Nat /\ written[d] \in Nat BY <1>1, <4>4
      <4>6. written'[e] = IF e = d THEN written[d] + 1 ELSE written[e] BY <1>2, <4>4
      <4>7. written[e] \in Nat /\ written'[e] \in Nat /\ written[e] <= written'[e]
        BY <4>5, <4>6
      <4>8. buf'[i][1] = e BY <4>1 DEF e
      <4>9. buf'[i][2] \in Nat /\ buf'[i][2] <= written[e] BY <4>1, <4>2, <4>3 DEF e
      <4> QED BY <4>7, <4>8, <4>9
    <3> QED BY <3>1, <3>2
  <2>2. \A e \in Docs : written'[e] <= Size[e]
    BY <1>0, <1>1, <1>2 DEF StreamOK
  <2>3. \A e \in Docs : task'[e] \in {"none", "drawing"} => written'[e] = 0
    BY <1>2 DEF StreamOK
  <2> QED BY <1>2, <2>1, <2>2, <2>3 DEF StreamOK
<1>7. SoloOK'
  <2> SUFFICES ASSUME NEW e \in Docs, alone[e]
               PROVE  /\ Active(e)' => /\ \A o \in Docs \ {e} : ~Active(o)'
                                       /\ Prefix(e, buf, written[e])'
                      /\ task'[e] = "saving" => pos' = written'[e]
                      /\ task'[e] = "storing" => next'[e] = written'[e]
                      /\ task'[e] = "saved" => written'[e] = Size[e]
                      /\ task'[e] \in {"converted", "sent"}
                           => Prefix(e, body[e], Size[e])'
    BY <1>0 DEF SoloOK
  <2>1. CASE e = d
    <3>1. /\ \A o \in Docs \ {d} : ~Active(o)
          /\ Prefix(d, buf, written[d]) /\ pos = written[d]
      BY <1>0, <2>1 DEF SoloOK
    <3>2. \A o \in Docs \ {d} : ~Active(o)' BY <1>2, <3>1 DEF Active
    <3>3. Len(buf') = Larger(written[d] + 1, longest[d])
      BY <1>1, <1>3, <3>1 DEF Prefix, Larger
    <3>4. \A i \in 1..written[d] + 1 : buf'[i] = <<d, i>>
      <4> SUFFICES ASSUME NEW i \in 1..written[d] + 1 PROVE buf'[i] = <<d, i>>
        OBVIOUS
      <4>1. i \in 1..Len(buf') BY <1>1, <3>3 DEF Larger
      <4>2. i = pos + 1 \/ i \in 1..written[d] BY <1>1, <3>1
      <4>3. CASE i = pos + 1 BY <1>3, <3>1, <4>1, <4>3
      <4>4. CASE i # pos + 1 BY <1>3, <3>1, <4>1, <4>2, <4>4 DEF Prefix
      <4> QED BY <4>3, <4>4
    <3>5. \A i \in (written[d] + 1) + 1..Len(buf') : buf'[i][1] # d
      <4> SUFFICES ASSUME NEW i \in (written[d] + 1) + 1..Len(buf') PROVE buf'[i][1] # d
        OBVIOUS
      <4>1. Len(buf') \in Nat BY <1>1, <1>3 DEF Larger
      <4>2. i \in 1..Len(buf') /\ i # pos + 1 BY <1>1, <3>1, <4>1
      <4>3. i \in 1..Len(buf) /\ buf'[i] = buf[i] BY <1>3, <1>4, <4>2
      <4>4. i \in written[d] + 1..Len(buf) BY <1>1, <4>1, <4>3
      <4> QED BY <3>1, <4>3, <4>4 DEF Prefix
    <3>6. Prefix(d, buf, written[d])' BY <1>0, <1>2, <3>3, <3>4, <3>5 DEF Prefix
    <3>7. next'[d] = written'[d] BY <1>2, <3>1
    <3> QED BY <1>2, <2>1, <3>2, <3>6, <3>7
  <2>2. CASE e # d
    <3>1. ~Active(e) BY <1>0, <2>2, OthersIdle
    <3>2. task'[e] = task[e] /\ ~Active(e)' BY <1>2, <2>2, <3>1 DEF Active
    <3>3. task[e] \in {"converted", "sent"} => Prefix(e, body[e], Size[e])'
      BY <1>0 DEF SoloOK, Prefix
    <3> QED BY <3>1, <3>2, <3>3 DEF Active
  <2> QED BY <2>1, <2>2
<1> QED BY <1>5, <1>6, <1>7

LEMMA MovePositionConverts ==
  ASSUME ConversionInv, NEW d \in Docs, MovePosition(d)
  PROVE  StreamOK' /\ SoloOK' /\ BodiesOK'
<1> USE DEF ConversionInv, DeliveryInv
<1>0. /\ task[d] = "storing" /\ Active(d) /\ pos' = next[d]
      /\ UNCHANGED <<written, next, body, buf, alone, longest, inbox, writing, files>>
  BY DEF MovePosition, Active, serverVars
<1>1. \A e \in Docs : task'[e] = IF e = d THEN "saving" ELSE task[e]
  BY DEF MovePosition, TypeOK
<1>2. BodiesOK' BY <1>0 DEF BodiesOK, Bodies
<1>3. StreamOK' BY <1>0, <1>1 DEF StreamOK
<1>4. SoloOK'
  <2> SUFFICES ASSUME NEW e \in Docs, alone[e]
               PROVE  /\ Active(e)' => /\ \A o \in Docs \ {e} : ~Active(o)'
                                       /\ Prefix(e, buf, written[e])'
                      /\ task'[e] = "saving" => pos' = written'[e]
                      /\ task'[e] = "storing" => next'[e] = written'[e]
                      /\ task'[e] = "saved" => written'[e] = Size[e]
                      /\ task'[e] \in {"converted", "sent"}
                           => Prefix(e, body[e], Size[e])'
    BY <1>0 DEF SoloOK
  <2>1. CASE e = d BY <1>0, <1>1, <2>1 DEF SoloOK, Prefix, Active
  <2>2. CASE e # d
    <3>1. ~Active(e) BY <1>0, <2>2, OthersIdle
    <3>2. task'[e] = task[e] /\ ~Active(e)' BY <1>1, <2>2, <3>1 DEF Active
    <3> QED BY <1>0, <3>1, <3>2 DEF SoloOK, Prefix, Active
  <2> QED BY <2>1, <2>2
<1> QED BY <1>2, <1>3, <1>4

LEMMA EndSaveConverts ==
  ASSUME ConversionInv, NEW d \in Docs, EndSave(d)
  PROVE  StreamOK' /\ SoloOK' /\ BodiesOK'
<1> USE DEF ConversionInv, DeliveryInv
<1>0. /\ task[d] = "saving" /\ Active(d) /\ pos' = 0 /\ written[d] = Size[d]
      /\ UNCHANGED <<written, next, body, buf, alone, longest, inbox, writing, files>>
  BY DEF EndSave, Active, serverVars
<1>1. \A e \in Docs : task'[e] = IF e = d THEN "saved" ELSE task[e]
  BY DEF EndSave, TypeOK
<1>2. BodiesOK' BY <1>0 DEF BodiesOK, Bodies
<1>3. StreamOK' BY <1>0, <1>1 DEF StreamOK
<1>4. SoloOK'
  <2> SUFFICES ASSUME NEW e \in Docs, alone[e]
               PROVE  /\ Active(e)' => /\ \A o \in Docs \ {e} : ~Active(o)'
                                       /\ Prefix(e, buf, written[e])'
                      /\ task'[e] = "saving" => pos' = written'[e]
                      /\ task'[e] = "storing" => next'[e] = written'[e]
                      /\ task'[e] = "saved" => written'[e] = Size[e]
                      /\ task'[e] \in {"converted", "sent"}
                           => Prefix(e, body[e], Size[e])'
    BY <1>0 DEF SoloOK
  <2>1. CASE e = d BY <1>0, <1>1, <2>1 DEF SoloOK, Prefix, Active
  <2>2. CASE e # d
    <3>1. ~Active(e) BY <1>0, <2>2, OthersIdle
    <3>2. task'[e] = task[e] /\ ~Active(e)' BY <1>1, <2>2, <3>1 DEF Active
    <3> QED BY <1>0, <3>1, <3>2 DEF SoloOK, Prefix, Active
  <2> QED BY <2>1, <2>2
<1> QED BY <1>2, <1>3, <1>4

LEMMA ToByteArrayConverts ==
  ASSUME ConversionInv, NEW d \in Docs, ToByteArray(d)
  PROVE  StreamOK' /\ SoloOK' /\ BodiesOK'
<1> USE DEF ConversionInv, DeliveryInv
<1>0. /\ task[d] = "saved" /\ Active(d)
      /\ UNCHANGED <<written, next, buf, pos, alone, longest, inbox, writing, files>>
  BY DEF ToByteArray, Active, serverVars
<1>1. /\ \A e \in Docs : task'[e] = IF e = d THEN "converted" ELSE task[e]
      /\ \A e \in Docs : body'[e] = IF e = d THEN buf ELSE body[e]
  BY DEF ToByteArray, TypeOK
<1>2. BodiesOK'
  <2>1. task[d] # "sent" /\ body' = [body EXCEPT ![d] = buf]
    BY <1>0 DEF ToByteArray
  <2> QED BY <1>0, <2>1, BodiesStay
<1>3. StreamOK' BY <1>0, <1>1 DEF StreamOK
<1>4. SoloOK'
  <2> SUFFICES ASSUME NEW e \in Docs, alone[e]
               PROVE  /\ Active(e)' => /\ \A o \in Docs \ {e} : ~Active(o)'
                                       /\ Prefix(e, buf, written[e])'
                      /\ task'[e] = "saving" => pos' = written'[e]
                      /\ task'[e] = "storing" => next'[e] = written'[e]
                      /\ task'[e] = "saved" => written'[e] = Size[e]
                      /\ task'[e] \in {"converted", "sent"}
                           => Prefix(e, body[e], Size[e])'
    BY <1>0 DEF SoloOK
  <2>1. CASE e = d
    <3>1. Prefix(d, buf, Size[d]) BY <1>0, <2>1 DEF SoloOK
    <3>2. Prefix(d, body[d], Size[d])' BY <1>0, <1>1, <3>1 DEF Prefix
    <3> QED BY <1>1, <2>1, <3>2 DEF Active
  <2>2. CASE e # d
    <3>1. ~Active(e) BY <1>0, <2>2, OthersIdle
    <3>2. task'[e] = task[e] /\ ~Active(e)' BY <1>1, <2>2, <3>1 DEF Active
    <3>3. body'[e] = body[e] BY <1>1, <2>2
    <3> QED BY <1>0, <3>1, <3>2, <3>3 DEF SoloOK, Prefix, Active
  <2> QED BY <2>1, <2>2
<1> QED BY <1>2, <1>3, <1>4

(* The steps between the stream and the file leave the conversions alone.  *)
LEMMA StreamUntouched ==
  ASSUME ConversionInv,
         UNCHANGED <<written, next, body, buf, pos, alone, longest>>,
         task' \in [Docs -> Stages],
         \A e \in Docs : \/ task'[e] = task[e]
                         \/ task[e] = "none" /\ task'[e] = "drawing"
                         \/ task[e] = "converted" /\ task'[e] = "sent"
  PROVE  StreamOK' /\ SoloOK'
<1> USE DEF ConversionInv
<1>1. \A e \in Docs : /\ Active(e)' <=> Active(e)
                      /\ task'[e] \in {"none", "drawing"} => task[e] \in {"none", "drawing"}
                      /\ task'[e] \in {"saving", "storing"} <=> task[e] \in {"saving", "storing"}
                      /\ task'[e] \in {"saving", "storing", "saved"} => task'[e] = task[e]
                      /\ task'[e] \in {"converted", "sent"} => task[e] \in {"converted", "sent"}
  BY DEF Active
<1>2. StreamOK' BY <1>1 DEF StreamOK
<1>3. SoloOK' BY <1>1 DEF SoloOK, Prefix
<1> QED BY <1>2, <1>3

LEMMA SendConverts ==
  ASSUME ConversionInv, NEW d \in Docs, Send(d)
  PROVE  StreamOK' /\ SoloOK' /\ BodiesOK'
<1> USE DEF ConversionInv, DeliveryInv
<1>0. /\ task[d] = "converted"
      /\ UNCHANGED <<written, next, body, buf, pos, alone, longest, writing, files>>
  BY DEF Send, serverVars
<1>1. /\ task' \in [Docs -> Stages]
      /\ \A e \in Docs : task'[e] = IF e = d THEN "sent" ELSE task[e]
  BY DEF Send, TypeOK, Stages
<1>2. StreamOK' /\ SoloOK'
  <2> HIDE DEF ConversionInv, DeliveryInv
  <2> QED BY <1>0, <1>1, StreamUntouched
<1>3. BodiesOK'
  <2>1. CASE UNCHANGED inbox BY <1>0, <2>1 DEF BodiesOK, Bodies
  <2>2. CASE inbox' = Append(inbox, [doc |-> d, body |-> body[d]])
    <3> DEFINE m == [doc |-> d, body |-> body[d]]
    <3>1. m \in Msg /\ m.doc = d /\ m.body = body[d] BY DEF TypeOK, Msg
    <3>2. inbox \in Seq(Msg) /\ inbox' = Append(inbox, m) BY <2>2 DEF TypeOK
    <3> HIDE DEF m
    <3>3. /\ DOMAIN inbox = 1..Len(inbox) /\ DOMAIN inbox' = 1..Len(inbox) + 1
          /\ Len(inbox) \in Nat /\ inbox'[Len(inbox) + 1] = m
          /\ \A i \in 1..Len(inbox) : inbox'[i] = inbox[i]
      BY <3>1, <3>2, AppendDocs
    <3>4. Bodies(inbox)'
      <4> SUFFICES ASSUME NEW i \in 1..Len(inbox) + 1
                   PROVE  inbox'[i].body = body[inbox'[i].doc]
        BY <1>0, <3>3 DEF Bodies
      <4>1. CASE i = Len(inbox) + 1 BY <3>1, <3>3, <4>1
      <4>2. CASE i # Len(inbox) + 1
        <5>1. i \in DOMAIN inbox /\ inbox'[i] = inbox[i] BY <3>3, <4>2
        <5> QED BY <5>1 DEF BodiesOK, Bodies
      <4> QED BY <4>1, <4>2
    <3> QED BY <1>0, <3>4 DEF BodiesOK, Bodies
  <2> QED BY <2>1, <2>2 DEF Send
<1> QED BY <1>2, <1>3

(* The server hands bodies on as they came.                                *)
LEMMA ServerConverts ==
  ASSUME ConversionInv, OnRecieveEventHandler \/ ServerExit
                        \/ \E k \in DOMAIN writing : WriteAllBytes(k)
  PROVE  StreamOK' /\ SoloOK' /\ BodiesOK'
<1> USE DEF ConversionInv, DeliveryInv
<1>1. UNCHANGED <<client, task, written, next, body, buf, pos, alone, longest>>
  BY DEF OnRecieveEventHandler, ServerExit, WriteAllBytes, clientVars
<1>2. StreamOK' /\ SoloOK'
  <2>1. task' \in [Docs -> Stages] /\ \A e \in Docs : task'[e] = task[e]
    BY <1>1 DEF TypeOK
  <2> HIDE DEF ConversionInv, DeliveryInv
  <2> QED BY <1>1, <2>1, StreamUntouched
<1>3. inbox \in Seq(Msg) /\ writing \in Seq(Msg) /\ files \in Seq(File)
  BY DEF TypeOK
<1>4. CASE OnRecieveEventHandler
  <2> DEFINE m == Head(inbox)
  <2>1. inbox # << >> /\ inbox' = Tail(inbox) /\ UNCHANGED files
    BY <1>4 DEF OnRecieveEventHandler
  <2>2. 1 \in DOMAIN inbox /\ m = inbox[1] /\ m \in Msg /\ Len(inbox) \in Nat
    BY <1>3, <2>1, EmptySeq
  <2>3. DOMAIN inbox' = 1..Len(inbox) - 1
        /\ \A i \in 1..Len(inbox) - 1 : inbox'[i] = inbox[i + 1]
    BY <1>3, <2>1, HeadTailProperties
  <2>4. \A i \in DOMAIN inbox' : i + 1 \in DOMAIN inbox /\ inbox'[i] = inbox[i + 1]
    BY <1>3, <2>2, <2>3
  <2>5. Bodies(inbox)' BY <1>1, <2>4 DEF BodiesOK, Bodies
  <2>6. m.body = body[m.doc] /\ Bodies(files)'
    BY <1>1, <2>1, <2>2 DEF BodiesOK, Bodies
  <2>7. CASE UNCHANGED writing
    <3>1. Bodies(writing)' BY <1>1, <2>7 DEF BodiesOK, Bodies
    <3> QED BY <1>2, <2>5, <2>6, <3>1 DEF BodiesOK
  <2>8. CASE writing' = Append(writing, m)
    <3> HIDE DEF m
    <3>1. /\ DOMAIN writing = 1..Len(writing) /\ DOMAIN writing' = 1..Len(writing) + 1
          /\ Len(writing) \in Nat /\ writing'[Len(writing) + 1] = m
          /\ \A i \in 1..Len(writing) : writing'[i] = writing[i]
      BY <1>3, <2>2, <2>8, AppendDocs
    <3>2. Bodies(writing)'
      <4> SUFFICES ASSUME NEW i \in 1..Len(writing) + 1
                   PROVE  writing'[i].body = body[writing'[i].doc]
        BY <1>1, <3>1 DEF Bodies
      <4>1. CASE i = Len(writing) + 1 BY <2>6, <3>1, <4>1
      <4>2. CASE i # Len(writing) + 1
        <5>1. i \in DOMAIN writing /\ writing'[i] = writing[i] BY <3>1, <4>2
        <5> QED BY <5>1 DEF BodiesOK, Bodies
      <4> QED BY <4>1, <4>2
    <3> QED BY <1>2, <2>5, <2>6, <3>2 DEF BodiesOK
  <2> QED BY <1>4, <2>7, <2>8 DEF OnRecieveEventHandler
<1>5. CASE ServerExit
  <2>1. \A j \in DOMAIN files' :
          \/ j \in DOMAIN files /\ files'[j] = files[j]
          \/ \E i \in DOMAIN writing : files'[j] = AsFile(writing[i], FALSE)
    BY <1>5, ServerExitOK
  <2>2. \A i \in DOMAIN writing : LET f == AsFile(writing[i], FALSE)
                                  IN f.body = body[f.doc]
    BY DEF AsFile, BodiesOK, Bodies
  <2>3. Bodies(files)' BY <1>1, <2>1, <2>2 DEF BodiesOK, Bodies
  <2>4. inbox' = << >> /\ writing' = << >> BY <1>5 DEF ServerExit
  <2> QED BY <1>2, <2>3, <2>4 DEF BodiesOK, Bodies
<1>6. ASSUME NEW k \in DOMAIN writing, WriteAllBytes(k)
      PROVE  BodiesOK'
  <2>1. writing' = RemoveAt(writing, k) /\ UNCHANGED inbox BY <1>6 DEF WriteAllBytes
  <2>2. k \in 1..Len(writing) /\ Len(writing) \in Nat BY <1>3
  <2>3. /\ writing' \in Seq(Msg) /\ Len(writing') = Len(writing) - 1
        /\ \A i \in 1..Len(writing) - 1 :
             writing'[i] = IF i < k THEN writing[i] ELSE writing[i + 1]
    BY <1>3, <2>1, <2>2, RemoveAtProperties
  <2>4. \A i \in DOMAIN writing' : \E j \in DOMAIN writing : writing'[i] = writing[j]
    <3> TAKE i \in DOMAIN writing'
    <3>1. i \in 1..Len(writing) - 1 BY <2>2, <2>3
    <3>2. i \in DOMAIN writing /\ i + 1 \in DOMAIN writing BY <1>3, <2>2, <3>1
    <3> QED BY <2>3, <3>1, <3>2
  <2>5. Bodies(writing)' BY <1>1, <2>4 DEF BodiesOK, Bodies
  <2>6. CASE UNCHANGED files BY <1>1, <2>1, <2>5, <2>6 DEF BodiesOK, Bodies
  <2>7. CASE files' = Append(files, AsFile(writing[k], TRUE))
    <3> DEFINE f == AsFile(writing[k], TRUE)
    <3>1. f.body = body[f.doc] BY DEF AsFile, BodiesOK, Bodies
    <3>2. f \in File
      <4>1. writing[k] \in Msg BY <1>3
      <4>2. writing[k].doc \in Docs /\ writing[k].body \in Seq(Block) BY <4>1 DEF Msg
      <4> QED BY <4>2 DEF AsFile, File
    <3>3. files' = Append(files, f) BY <2>7
    <3> HIDE DEF f
    <3>4. /\ DOMAIN files = 1..Len(files) /\ DOMAIN files' = 1..Len(files) + 1
          /\ Len(files) \in Nat /\ files'[Len(files) + 1] = f
          /\ \A i \in 1..Len(files) : files'[i] = files[i]
      BY <1>3, <3>2, <3>3, AppendDocs
    <3>5. Bodies(files)'
      <4> SUFFICES ASSUME NEW i \in 1..Len(files) + 1
                   PROVE  files'[i].body = body[files'[i].doc]
        BY <1>1, <3>4 DEF Bodies
      <4>1. CASE i = Len(files) + 1 BY <3>1, <3>4, <4>1
      <4>2. CASE i # Len(files) + 1
        <5>1. i \in DOMAIN files /\ files'[i] = files[i] BY <3>4, <4>2
        <5> QED BY <5>1 DEF BodiesOK, Bodies
      <4> QED BY <4>1, <4>2
    <3> QED BY <1>1, <2>1, <2>5, <3>5 DEF BodiesOK, Bodies
  <2> QED BY <1>6, <2>6, <2>7 DEF WriteAllBytes
<1> QED BY <1>2, <1>4, <1>5, <1>6

LEMMA ConversionNext == ConversionInv /\ [Next]_vars => ConversionInv'
<1> SUFFICES ASSUME ConversionInv, [Next]_vars PROVE ConversionInv' OBVIOUS
<1>0. DeliveryInv' BY DeliveryNext DEF ConversionInv
<1>1. ASSUME NEW d \in Docs, OnFileReadyHandler(d)
      PROVE  StreamOK' /\ SoloOK' /\ BodiesOK'
  <2>1. /\ task[d] = "none"
        /\ UNCHANGED <<written, next, body, buf, pos, alone, longest, inbox, writing, files>>
    BY <1>1 DEF OnFileReadyHandler, serverVars
  <2>2. /\ task' \in [Docs -> Stages]
        /\ \A e \in Docs : task'[e] = IF e = d THEN "drawing" ELSE task[e]
    BY <1>1 DEF OnFileReadyHandler, ConversionInv, DeliveryInv, TypeOK, Stages
  <2>3. StreamOK' /\ SoloOK' BY <2>1, <2>2, StreamUntouched
  <2>4. BodiesOK' BY <2>1 DEF ConversionInv, BodiesOK, Bodies
  <2> QED BY <2>3, <2>4
<1>2. ASSUME NEW d \in Docs, Task(d)
      PROVE  StreamOK' /\ SoloOK' /\ BodiesOK'
  BY <1>2, DrawImagesConverts, StoreBlockConverts, MovePositionConverts,
     EndSaveConverts, ToByteArrayConverts, SendConverts DEF Task
<1>3. ASSUME ClientExit \/ ServerStart \/ Subscribe \/ UNCHANGED vars
      PROVE  StreamOK' /\ SoloOK' /\ BodiesOK'
  <2>1. UNCHANGED <<task, written, next, body, buf, pos, alone, longest, inbox, writing, files>>
    BY <1>3 DEF ClientExit, ServerStart, Subscribe, vars, clientVars, serverVars
  <2>2. StreamOK' /\ SoloOK'
    BY <2>1, StreamUntouched DEF ConversionInv, DeliveryInv, TypeOK
  <2>3. BodiesOK' BY <2>1 DEF ConversionInv, BodiesOK, Bodies
  <2> QED BY <2>2, <2>3
<1>4. ASSUME OnRecieveEventHandler \/ ServerExit \/ \E k \in DOMAIN writing : WriteAllBytes(k)
      PROVE  StreamOK' /\ SoloOK' /\ BodiesOK'
  BY <1>4, ServerConverts
<1>5. StreamOK' /\ SoloOK' /\ BodiesOK' BY <1>1, <1>2, <1>3, <1>4 DEF Next
<1> QED BY <1>0, <1>5 DEF ConversionInv

LEMMA SoloIntact == ConversionInv => SoloConversionsIntact
<1> SUFFICES ASSUME ConversionInv PROVE SoloConversionsIntact OBVIOUS
<1> USE DEF ConversionInv, DeliveryInv
<1>1. \A d \in Docs : alone[d] /\ task[d] \in {"converted", "sent"}
        => Prefix(d, body[d], Size[d])
  BY DEF SoloOK
<1>2. \A i \in DOMAIN files : alone[files[i].doc]
        => Prefix(files[i].doc, files[i].body, Size[files[i].doc])
  BY <1>1, DocsTyped DEF OnePlace, AllSent, BodiesOK, Bodies
<1> QED BY <1>1, <1>2 DEF SoloConversionsIntact, Prefix

(* A document whose conversion overlapped no other one arrives as it was   *)
(* saved, its own blocks first and in order, in the byte array, in the     *)
(* queue and in the file, however conversions before it left the stream.   *)
THEOREM DeliverySoloIntact == Spec => []SoloConversionsIntact
<1>1. Init => ConversionInv BY DeliveryInit, ConversionInit DEF ConversionInv
<1> QED BY <1>1, ConversionNext, SoloIntact, PTL DEF Spec
=============================================================================
