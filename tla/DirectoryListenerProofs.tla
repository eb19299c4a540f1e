---------------------- MODULE DirectoryListenerProofs ----------------------
(***************************************************************************)
(* What the DirectoryListener runs check on small directories, proved for  *)
(* every set of images, every numbering, every timeout and every bound.    *)
(***************************************************************************)
EXTENDS DirectoryListener, FiniteSetTheorems, SequenceTheorems, TLAPS

(* Integer division, as ElapsedMilliseconds / 1000 uses it.                *)
LEMMA DivNat ==
  ASSUME NEW a \in Nat, NEW m \in Nat \ {0}
  PROVE  a \div m \in Nat
  OBVIOUS

LEMMA DivMono ==
  ASSUME NEW a \in Int, NEW b \in Int, NEW m \in Nat \ {0}, a <= b
  PROVE  a \div m <= b \div m
  OBVIOUS

(* What GetFiles returns is a sequence of the directory's files.           *)
LEMMA ScanType ==
  ASSUME NEW D \in SUBSET Images, NEW s \in SetToSeqs(D)
  PROVE  s \in Seq(Images)
<1>1. Cardinality(D) \in Nat
  BY ImagesAssumption, FS_Subset, FS_CardinalityType
<1>2. s \in [1..Cardinality(D) -> Images]
  BY DEF SetToSeqs
<1> QED BY <1>1, <1>2

(* The delay read by ProcNewImg is a natural number.                       *)
LEMMA DelayType == TypeOK => CurrentDelay \in Nat
<1> SUFFICES ASSUME TypeOK PROVE CurrentDelay \in Nat
  OBVIOUS
<1>1. now - swStart \in Nat
  BY DEF TypeOK
<1>2. MsPerSecond \in Nat \ {0}
  BY NumbersAssumption
<1> QED BY <1>1, <1>2, DivNat DEF CurrentDelay

-----------------------------------------------------------------------------
(* Type correctness.                                                       *)
LEMMA Empty == \A S : << >> \in Seq(S)
  OBVIOUS

LEMMA TypeInit == Init => TypeOK
<1> SUFFICES ASSUME Init PROVE TypeOK
  OBVIOUS
<1>1. /\ scan \in Seq(Images) /\ events \in Seq(Images)
      /\ imgs \in Seq(Valid) /\ docs \in Seq(Seq(Valid))
      /\ taken \in Seq(TakenRecord) /\ ends \in Seq(Nat)
  BY Empty DEF Init
<1>2. timeout \in Timeouts
  BY NumbersAssumption DEF Init
<1>3. /\ dir \subseteq Images /\ pc = "down" /\ handler = "none"
      /\ cur = None /\ watching \in BOOLEAN /\ prevImg = None
      /\ status = "created"
      /\ now = 0 /\ swStart = 0 /\ launches = 0 /\ missed = {}
  BY DEF Init
<1> QED BY <1>1, <1>2, <1>3 DEF TypeOK

(* Who can be inside ProcNewImg, and when the watcher is on; before Start  *)
(* nothing has been accepted.                                              *)
ThreadsOK ==
  /\ handler = "main" => pc = "scanning"
  /\ handler = "watcher" => pc \in {"enabled", "started", "stopped"}
  /\ watching => pc \in {"enabled", "started"}

FreshOK ==
  pc = "new" => /\ prevImg = None
                /\ imgs = << >> /\ docs = << >> /\ taken = << >> /\ ends = << >>

LEMMA ThreadsNext ==
  TypeOK /\ ThreadsOK /\ [Next]_vars => ThreadsOK'
<1> SUFFICES ASSUME TypeOK, ThreadsOK, [Next]_vars PROVE ThreadsOK'
  OBVIOUS
<1> USE DEF TypeOK, ThreadsOK
<1>1. CASE Launch \/ Kill \/ CrashOnName \/ Stop
  BY <1>1 DEF Launch, Kill, CrashOnName, Stop, Die
<1>2. CASE StartScan \/ ScanNext \/ ScanDone \/ Enable \/ StartDone
  BY <1>2 DEF StartScan, ScanNext, ScanDone, Enable, StartDone, BeginImg,
              watcher
<1>3. CASE WatcherOnCreated
  BY <1>3 DEF WatcherOnCreated, BeginImg
<1>4. CASE IgnoreImg \/ ExtendDoc \/ CutDoc
  BY <1>4 DEF IgnoreImg, ExtendDoc, CutDoc, EndImg, watcher
<1>5. ASSUME NEW t \in Timeouts, NewTimeout(t) PROVE ThreadsOK'
  BY <1>5 DEF NewTimeout, thread, watcher
<1>6. ASSUME NEW n \in Images, CreateFile(n) PROVE ThreadsOK'
  BY <1>6 DEF CreateFile, thread
<1>7. CASE Tick \/ UNCHANGED vars
  BY <1>7 DEF Tick, vars, thread, watcher
<1> QED BY <1>1, <1>2, <1>3, <1>4, <1>5, <1>6, <1>7
        DEF Next, Main, ProcNewImgEnd

LEMMA FreshNext ==
  TypeOK /\ ThreadsOK /\ FreshOK /\ [Next]_vars => FreshOK'
<1> SUFFICES ASSUME TypeOK, ThreadsOK, FreshOK, [Next]_vars PROVE FreshOK'
  OBVIOUS
<1> USE DEF ThreadsOK, FreshOK
<1>1. CASE Launch
  BY <1>1 DEF Launch
<1>2. CASE Kill \/ CrashOnName \/ Stop
  BY <1>2 DEF Kill, CrashOnName, Stop, Die
<1>3. CASE StartScan \/ ScanNext \/ ScanDone \/ Enable \/ StartDone
  BY <1>3 DEF StartScan, ScanNext, ScanDone, Enable, StartDone
<1>4. CASE WatcherOnCreated
  BY <1>4 DEF WatcherOnCreated, batch
<1>5. CASE IgnoreImg \/ ExtendDoc \/ CutDoc
  BY <1>5 DEF TypeOK, IgnoreImg, ExtendDoc, CutDoc, EndImg
<1>6. ASSUME NEW t \in Timeouts, NewTimeout(t) PROVE FreshOK'
  BY <1>6 DEF NewTimeout, thread, batch
<1>7. ASSUME NEW n \in Images, CreateFile(n) PROVE FreshOK'
  BY <1>7 DEF CreateFile, thread, batch
<1>8. CASE Tick \/ UNCHANGED vars
  BY <1>8 DEF Tick, vars, thread, batch
<1> QED BY <1>1, <1>2, <1>3, <1>4, <1>5, <1>6, <1>7, <1>8
        DEF Next, Main, ProcNewImgEnd

LEMMA TypeNext == TypeOK /\ ThreadsOK /\ [Next]_vars => TypeOK'
<1> SUFFICES ASSUME TypeOK, ThreadsOK, [Next]_vars PROVE TypeOK'
  OBVIOUS
<1>1. CASE Launch
  <2>1. /\ scan' \in Seq(Images) /\ events' \in Seq(Images)
        /\ imgs' \in Seq(Valid) /\ docs' \in Seq(Seq(Valid))
        /\ taken' \in Seq(TakenRecord) /\ ends' \in Seq(Nat)
    BY <1>1, Empty DEF Launch
  <2>2. timeout' \in Timeouts
    BY <1>1, NumbersAssumption DEF Launch
  <2>3. /\ pc' = "new" /\ handler' = "none" /\ cur' = None
        /\ watching' \in BOOLEAN /\ prevImg' = None /\ status' = "created"
        /\ now' = now /\ swStart' = now /\ launches' = launches + 1
        /\ missed' = {} /\ dir' = dir
    BY <1>1 DEF Launch
  <2> QED BY <2>1, <2>2, <2>3 DEF TypeOK
<1>2. CASE Kill
  BY <1>2, Empty DEF TypeOK, Kill, Die, batch, world
<1>3. CASE StartScan
  <2>1. scan' \in Seq(Images)
    BY <1>3, ScanType DEF TypeOK, StartScan
  <2>2. imgs' \in Seq(Valid)
    BY <1>3, Empty DEF StartScan
  <2>3. handler = "none"
    BY <1>3 DEF StartScan, ThreadsOK, TypeOK
  <2>4. /\ pc' = "scanning" /\ status' = "just_started"
        /\ cur' = None /\ prevImg' = None
        /\ UNCHANGED <<handler, watching, events, docs, taken, ends, dir, now,
                       launches, timeout, swStart, missed>>
    BY <1>3 DEF StartScan, watcher, world
  <2> QED BY <2>1, <2>2, <2>3, <2>4 DEF TypeOK
<1>4. CASE ScanNext
  BY <1>4 DEF TypeOK, ScanNext, BeginImg, watcher, batch, world
<1>5. CASE ScanDone
  BY <1>5 DEF TypeOK, ScanDone, watcher, batch, world
<1>6. CASE Enable
  BY <1>6 DEF TypeOK, Enable, batch, world
<1>7. CASE StartDone
  BY <1>7 DEF TypeOK, StartDone, watcher, batch, world
<1>8. CASE Stop
  BY <1>8, Empty DEF TypeOK, Stop, batch, world
<1>9. CASE WatcherOnCreated
  BY <1>9 DEF TypeOK, WatcherOnCreated, BeginImg, batch, world
<1>10. CASE IgnoreImg
  BY <1>10 DEF TypeOK, IgnoreImg, EndImg, watcher, batch, world
<1>11. ASSUME EndImg, Validate(cur), AddImg
       PROVE  /\ cur \in Valid
              /\ taken' \in Seq(TakenRecord)
              /\ swStart' \in Nat /\ swStart' <= now'
  <2>1. CurrentDelay \in Nat
    BY DelayType
  <2>2. cur \in Valid
    BY <1>11 DEF Validate
  <2>3. [img |-> cur, at |-> now, delay |-> CurrentDelay, limit |-> timeout,
         settled |-> pc \in {"started", "stopped"}] \in TakenRecord
    BY <2>1, <2>2 DEF TypeOK, TakenRecord
  <2>4. now' = now
    BY <1>11 DEF EndImg, world
  <2> HIDE DEF TakenRecord
  <2>5. taken' \in Seq(TakenRecord)
    BY <1>11, <2>3 DEF TypeOK, AddImg
  <2> QED BY <1>11, <2>2, <2>4, <2>5 DEF TypeOK, AddImg
<1>12. CASE ExtendDoc
  <2> USE <1>12 DEF ExtendDoc
  <2>1. /\ cur \in Valid
        /\ taken' \in Seq(TakenRecord)
        /\ swStart' \in Nat /\ swStart' <= now'
    BY <1>11
  <2> QED BY <2>1 DEF TypeOK, EndImg, AddImg, watcher, world
<1>13. CASE CutDoc
  <2> USE <1>13 DEF CutDoc
  <2>1. /\ cur \in Valid
        /\ taken' \in Seq(TakenRecord)
        /\ swStart' \in Nat /\ swStart' <= now'
    BY <1>11
  <2> QED BY <2>1 DEF TypeOK, EndImg, AddImg, NotifyOnFileReady, watcher, world
<1>14. CASE CrashOnName
  BY <1>14, Empty DEF TypeOK, CrashOnName, Die, batch, world
<1>15. ASSUME NEW t \in Timeouts, NewTimeout(t) PROVE TypeOK'
  BY <1>15 DEF TypeOK, NewTimeout, thread, watcher, batch, world
<1>16. ASSUME NEW n \in Images, CreateFile(n) PROVE TypeOK'
  <2>1. Range(events) \subseteq Images
    BY DEF TypeOK, Range
  <2>2. events' \in Seq(Images)
    <3>1. Append(events, n) \in Seq(Images)
      BY DEF TypeOK
    <3> QED BY <1>16, <3>1, Empty DEF TypeOK, CreateFile
  <2>4. missed' \subseteq Images
    BY <1>16, <2>1 DEF TypeOK, CreateFile
  <2>3. dir' = dir \cup {n} /\ UNCHANGED <<thread, watching, batch, now,
                             launches, timeout, status, swStart>>
    BY <1>16 DEF CreateFile
  <2> QED BY <2>2, <2>3, <2>4 DEF TypeOK, thread, batch
<1>17. CASE Tick
  BY <1>17 DEF TypeOK, Tick, thread, watcher, batch
<1>18. CASE UNCHANGED vars
  BY <1>18 DEF TypeOK, vars, thread, watcher, batch, world
<1> QED BY <1>1, <1>2, <1>3, <1>4, <1>5, <1>6, <1>7, <1>8, <1>9, <1>10, <1>12,
           <1>13, <1>14, <1>15, <1>16, <1>17, <1>18
        DEF Next, Main, ProcNewImgEnd

(* Every variable keeps its type: in particular _prevImg is null or a name *)
(* the validator accepted, and the stopwatch never runs ahead of the clock.*)
THEOREM TypeCorrect == Spec => []TypeOK
<1>1. Init => TypeOK /\ ThreadsOK
  BY TypeInit DEF Init, ThreadsOK
<1>2. TypeOK /\ ThreadsOK /\ [Next]_vars => (TypeOK /\ ThreadsOK)'
  BY TypeNext, ThreadsNext
<1> QED BY <1>1, <1>2, PTL DEF Spec

-----------------------------------------------------------------------------
(* The stream and the documents.                                           *)

(* _prevImg is the last accepted image, whichever thread accepted it.      *)
PrevIsLast ==
  prevImg = IF taken = << >> THEN None ELSE taken[Len(taken)].img

StreamInv == /\ TypeOK /\ ThreadsOK /\ FreshOK
             /\ DocsPartitionStream /\ PrevIsLast

(* What accepting the current image appends to the stream.                 *)
NewRecord == [img |-> cur, at |-> now, delay |-> CurrentDelay,
              limit |-> timeout, settled |-> pc \in {"started", "stopped"}]

LEMMA AddFacts ==
  ASSUME TypeOK, EndImg, Validate(cur), AddImg
  PROVE  /\ cur \in Valid
         /\ NewRecord \in TakenRecord
         /\ NewRecord.img = cur
         /\ taken' \in Seq(TakenRecord)
         /\ Len(taken') = Len(taken) + 1
         /\ \A j \in 1..Len(taken) : taken'[j] = taken[j]
         /\ taken'[Len(taken) + 1] = NewRecord
         /\ prevImg' = cur
<1>1. cur \in Valid
  BY DEF Validate
<1>2. CurrentDelay \in Nat
  BY DelayType
<1>3. NewRecord \in TakenRecord
  BY <1>1, <1>2 DEF TypeOK, TakenRecord, NewRecord
<1>4. taken \in Seq(TakenRecord) /\ taken' = Append(taken, NewRecord)
  BY DEF TypeOK, AddImg, NewRecord
<1>5. NewRecord.img = cur /\ prevImg' = cur
  BY DEF NewRecord, AddImg
<1> HIDE DEF NewRecord, TakenRecord
<1> QED BY <1>1, <1>3, <1>4, <1>5, AppendProperties

(* The positions of the documents.                                         *)
LEMMA PositionFacts ==
  ASSUME TypeOK, DocsPartitionStream
  PROVE  /\ Len(docs) \in Nat /\ Len(ends) = Len(docs) /\ Len(taken) \in Nat
         /\ \A k \in 1..Len(docs) : ends[k] \in Nat /\ DocStart(k) \in Nat
         /\ LastEnd \in Nat
         /\ taken = << >> => LastEnd = 0 /\ ends = << >> /\ imgs = << >>
         /\ taken # << >> => LastEnd < Len(taken)
<1>1. /\ Len(docs) \in Nat /\ Len(ends) = Len(docs) /\ Len(taken) \in Nat
      /\ \A k \in 1..Len(docs) : ends[k] \in Nat
  BY DEF TypeOK, DocsPartitionStream
<1>2. \A k \in 1..Len(docs) : DocStart(k) \in Nat
  BY <1>1 DEF DocStart
<1>3. ends # << >> => LastEnd = ends[Len(docs)] /\ Len(docs) \in 1..Len(docs)
  BY <1>1 DEF LastEnd, TypeOK
<1>4. LastEnd \in Nat
  BY <1>1, <1>3 DEF LastEnd
<1>5. ASSUME taken = << >>
      PROVE  LastEnd = 0 /\ ends = << >> /\ imgs = << >>
  <2>1. ends = << >>
    BY <1>1, <1>2, <1>3, <1>5 DEF DocsPartitionStream
  <2>2. Len(imgs) = 0
    BY <1>5, <2>1 DEF DocsPartitionStream, LastEnd
  <2> QED BY <2>1, <2>2 DEF LastEnd, TypeOK
<1>6. ASSUME taken # << >> PROVE LastEnd < Len(taken)
  <2>1. Len(taken) > 0
    BY <1>6 DEF TypeOK
  <2> QED BY <1>1, <1>3, <2>1 DEF DocsPartitionStream, LastEnd
<1> QED BY <1>1, <1>2, <1>4, <1>5, <1>6

LEMMA ExtendPartition ==
  ASSUME StreamInv, ExtendDoc
  PROVE  DocsPartitionStream' /\ PrevIsLast'
<1> USE DEF StreamInv
<1>1. /\ EndImg /\ Validate(cur) /\ AddImg
      /\ imgs' = Append(imgs, cur) /\ docs' = docs /\ ends' = ends
  BY DEF ExtendDoc
<1>2. /\ cur \in Valid /\ NewRecord.img = cur
      /\ taken' \in Seq(TakenRecord)
      /\ Len(taken') = Len(taken) + 1
      /\ \A j \in 1..Len(taken) : taken'[j] = taken[j]
      /\ taken'[Len(taken) + 1] = NewRecord
      /\ prevImg' = cur
  BY <1>1, AddFacts
<1>3. /\ Len(imgs') = Len(imgs) + 1
      /\ \A i \in 1..Len(imgs) : imgs'[i] = imgs[i]
      /\ imgs'[Len(imgs) + 1] = cur
  BY <1>1, <1>2, AppendProperties DEF TypeOK
<1>4. LastEnd' = LastEnd /\ \A k : DocStart(k)' = DocStart(k)
  BY <1>1 DEF LastEnd, DocStart
<1>5. Len(ends') = Len(docs')
  BY <1>1 DEF DocsPartitionStream
<1>6. ASSUME NEW k \in 1..Len(docs')
      PROVE  /\ DocStart(k)' < ends'[k]
             /\ ends'[k] < Len(taken')
             /\ Len(docs'[k]) = ends'[k] - DocStart(k)'
             /\ \A i \in 1..Len(docs'[k]) :
                  docs'[k][i] = taken'[DocStart(k)' + i].img
  <2>1. k \in 1..Len(docs) /\ ends[k] \in Nat /\ DocStart(k) \in Nat
    BY <1>1, PositionFacts
  <2>2. /\ DocStart(k) < ends[k] /\ ends[k] < Len(taken)
        /\ Len(docs[k]) = ends[k] - DocStart(k)
        /\ \A i \in 1..Len(docs[k]) : docs[k][i] = taken[DocStart(k) + i].img
    BY <2>1 DEF DocsPartitionStream
  <2>3. Len(taken) \in Nat
    BY PositionFacts
  <2>4. \A i \in 1..Len(docs[k]) : DocStart(k) + i \in 1..Len(taken)
    BY <2>1, <2>2, <2>3
  <2>5. \A i \in 1..Len(docs[k]) :
          taken'[DocStart(k) + i].img = taken[DocStart(k) + i].img
    BY <1>2, <2>4
  <2>6. DocStart(k)' = DocStart(k) /\ docs'[k] = docs[k] /\ ends'[k] = ends[k]
    BY <1>1, <1>4
  <2>7. ends[k] < Len(taken')
    BY <1>2, <2>1, <2>2, <2>3
  <2> QED BY <2>2, <2>5, <2>6, <2>7
<1>7. /\ Len(imgs') = Len(taken') - LastEnd'
      /\ \A i \in 1..Len(imgs') : imgs'[i] = taken'[LastEnd' + i].img
  <2>1. /\ Len(imgs) = Len(taken) - LastEnd
        /\ \A i \in 1..Len(imgs) : imgs[i] = taken[LastEnd + i].img
    BY DEF DocsPartitionStream
  <2>2. Len(taken) \in Nat /\ LastEnd \in Nat /\ Len(imgs) \in Nat
    BY PositionFacts DEF TypeOK
  <2>3. \A i \in 1..Len(imgs) : LastEnd + i \in 1..Len(taken)
    BY <2>1, <2>2
  <2>4. LastEnd + (Len(imgs) + 1) = Len(taken) + 1
    BY <2>1, <2>2
  <2>5. \A i \in 1..Len(imgs) : imgs'[i] = taken'[LastEnd + i].img
    BY <1>2, <1>3, <2>1, <2>3
  <2>6. imgs'[Len(imgs) + 1] = taken'[LastEnd + (Len(imgs) + 1)].img
    BY <1>2, <1>3, <2>4
  <2>7. Len(imgs') = Len(taken') - LastEnd
    BY <1>2, <1>3, <2>1, <2>2
  <2>8. \A i \in 1..Len(imgs') : i \in 1..Len(imgs) \/ i = Len(imgs) + 1
    BY <1>3, <2>2
  <2> QED BY <1>4, <2>5, <2>6, <2>7, <2>8
<1>8. PrevIsLast'
  <2>1. Len(taken') # 0 /\ taken' # << >>
    BY <1>2, PositionFacts
  <2> QED BY <1>2, <2>1 DEF PrevIsLast
<1> QED BY <1>5, <1>6, <1>7, <1>8 DEF DocsPartitionStream

LEMMA CutPartition ==
  ASSUME StreamInv, CutDoc
  PROVE  DocsPartitionStream' /\ PrevIsLast'
<1> USE DEF StreamInv
<1>1. /\ EndImg /\ Validate(cur) /\ AddImg /\ IsEndOfDoc(cur)
      /\ imgs' = <<cur>> /\ docs' = Append(docs, imgs)
      /\ ends' = Append(ends, Len(taken))
  BY DEF CutDoc, NotifyOnFileReady
<1>2. /\ cur \in Valid /\ NewRecord.img = cur
      /\ taken' \in Seq(TakenRecord)
      /\ Len(taken') = Len(taken) + 1
      /\ \A j \in 1..Len(taken) : taken'[j] = taken[j]
      /\ taken'[Len(taken) + 1] = NewRecord
      /\ prevImg' = cur
  BY <1>1, AddFacts
<1>3. /\ Len(taken) \in Nat /\ Len(docs) \in Nat /\ Len(ends) = Len(docs)
      /\ LastEnd \in Nat /\ LastEnd < Len(taken)
  <2>1. taken # << >>
    BY <1>1 DEF IsEndOfDoc, PrevIsLast
  <2> QED BY <2>1, PositionFacts
<1>4. /\ Len(docs') = Len(docs) + 1
      /\ \A k \in 1..Len(docs) : docs'[k] = docs[k]
      /\ docs'[Len(docs) + 1] = imgs
  BY <1>1, AppendProperties DEF TypeOK
<1>5. /\ Len(ends') = Len(docs) + 1
      /\ \A k \in 1..Len(docs) : ends'[k] = ends[k]
      /\ ends'[Len(docs) + 1] = Len(taken)
      /\ ends' # << >>
  BY <1>1, <1>3, AppendProperties DEF TypeOK
<1>6. \A k \in 1..Len(docs) : DocStart(k)' = DocStart(k)
  BY <1>3, <1>5 DEF DocStart
<1>7. ASSUME NEW k, k = Len(docs) + 1 PROVE DocStart(k)' = LastEnd
  <2>1. DocStart(k)' = IF k = 1 THEN 0 ELSE ends'[k - 1]
    BY DEF DocStart
  <2>2. CASE Len(docs) = 0
    <3>1. ends = << >>
      BY <1>3, <2>2 DEF TypeOK
    <3> QED BY <1>7, <2>1, <2>2, <3>1 DEF LastEnd
  <2>3. CASE Len(docs) # 0
    <3>1. ends # << >> /\ k # 1 /\ k - 1 = Len(docs)
      BY <1>3, <1>7, <2>3
    <3>2. ends'[k - 1] = ends[Len(docs)]
      BY <1>3, <1>5, <2>3, <3>1
    <3> QED BY <1>3, <2>1, <3>1, <3>2 DEF LastEnd
  <2> QED BY <2>2, <2>3
<1>8. LastEnd' = Len(taken)
  BY <1>3, <1>5 DEF LastEnd
<1>9. ASSUME NEW k \in 1..Len(docs)
      PROVE  /\ DocStart(k)' < ends'[k]
             /\ ends'[k] < Len(taken')
             /\ Len(docs'[k]) = ends'[k] - DocStart(k)'
             /\ \A i \in 1..Len(docs'[k]) :
                  docs'[k][i] = taken'[DocStart(k)' + i].img
  <2>1. ends[k] \in Nat /\ DocStart(k) \in Nat
    BY PositionFacts
  <2>2. /\ DocStart(k) < ends[k] /\ ends[k] < Len(taken)
        /\ Len(docs[k]) = ends[k] - DocStart(k)
        /\ \A i \in 1..Len(docs[k]) : docs[k][i] = taken[DocStart(k) + i].img
    BY DEF DocsPartitionStream
  <2>3. \A i \in 1..Len(docs[k]) : DocStart(k) + i \in 1..Len(taken)
    BY <1>3, <2>1, <2>2
  <2>4. \A i \in 1..Len(docs[k]) :
          taken'[DocStart(k) + i].img = taken[DocStart(k) + i].img
    BY <1>2, <2>3
  <2>5. ends[k] < Len(taken')
    BY <1>2, <1>3, <2>1, <2>2
  <2> QED BY <1>4, <1>5, <1>6, <2>2, <2>4, <2>5
<1>10. ASSUME NEW k, k = Len(docs) + 1
       PROVE  /\ DocStart(k)' < ends'[k]
              /\ ends'[k] < Len(taken')
              /\ Len(docs'[k]) = ends'[k] - DocStart(k)'
              /\ \A i \in 1..Len(docs'[k]) :
                   docs'[k][i] = taken'[DocStart(k)' + i].img
  <2>1. /\ Len(imgs) = Len(taken) - LastEnd
        /\ \A i \in 1..Len(imgs) : imgs[i] = taken[LastEnd + i].img
    BY DEF DocsPartitionStream
  <2>2. \A i \in 1..Len(imgs) : LastEnd + i \in 1..Len(taken)
    BY <1>3, <2>1 DEF TypeOK
  <2>3. \A i \in 1..Len(imgs) : imgs[i] = taken'[LastEnd + i].img
    BY <1>2, <2>1, <2>2
  <2>4. DocStart(k)' = LastEnd /\ ends'[k] = Len(taken) /\ docs'[k] = imgs
    BY <1>4, <1>5, <1>7, <1>10
  <2>5. Len(taken) < Len(taken')
    BY <1>2, <1>3
  <2> QED BY <1>3, <2>1, <2>3, <2>4, <2>5
<1>11. /\ Len(imgs') = Len(taken') - LastEnd'
       /\ \A i \in 1..Len(imgs') : imgs'[i] = taken'[LastEnd' + i].img
  <2>1. Len(imgs') = 1 /\ imgs'[1] = cur
    BY <1>1
  <2> QED BY <1>2, <1>3, <1>8, <2>1
<1>12. PrevIsLast'
  <2>1. Len(taken') # 0 /\ taken' # << >>
    BY <1>2, <1>3
  <2> QED BY <1>2, <2>1 DEF PrevIsLast
<1>13. \A k \in 1..Len(docs') : k \in 1..Len(docs) \/ k = Len(docs) + 1
  BY <1>3, <1>4
<1>14. Len(ends') = Len(docs')
  BY <1>4, <1>5
<1>15. \A k \in 1..Len(docs') :
         /\ DocStart(k)' < ends'[k]
         /\ ends'[k] < Len(taken')
         /\ Len(docs'[k]) = ends'[k] - DocStart(k)'
         /\ \A i \in 1..Len(docs'[k]) :
              docs'[k][i] = taken'[DocStart(k)' + i].img
  BY <1>9, <1>10, <1>13
<1> QED BY <1>11, <1>12, <1>14, <1>15 DEF DocsPartitionStream

(* Every other step leaves the batch alone or empties it.                  *)
LEMMA SameBatch ==
  ASSUME DocsPartitionStream, PrevIsLast, UNCHANGED batch
  PROVE  DocsPartitionStream' /\ PrevIsLast'
  BY DEF DocsPartitionStream, PrevIsLast, DocStart, LastEnd, batch

LEMMA EmptyBatch ==
  ASSUME prevImg' = None, imgs' = << >>, docs' = << >>, taken' = << >>,
         ends' = << >>
  PROVE  DocsPartitionStream' /\ PrevIsLast'
<1>1. Len(ends') = Len(docs') /\ 1..Len(docs') = {} /\ 1..Len(imgs') = {}
  OBVIOUS
<1>2. Len(imgs') = Len(taken') - LastEnd'
  BY DEF LastEnd
<1> QED BY <1>1, <1>2 DEF DocsPartitionStream, PrevIsLast

(* The batch of a step that is no acceptance.                              *)
LEMMA OtherSteps ==
  ASSUME StreamInv, [Next]_vars, ~ExtendDoc, ~CutDoc
  PROVE  \/ UNCHANGED batch
         \/ /\ prevImg' = None /\ imgs' = << >> /\ docs' = << >>
            /\ taken' = << >> /\ ends' = << >>
<1>1. CASE Launch
  BY <1>1 DEF Launch
<1>2. CASE StartScan
  BY <1>2 DEF StartScan, StreamInv, FreshOK
<1>3. CASE Kill \/ ScanNext \/ ScanDone \/ Enable \/ StartDone \/ Stop
           \/ WatcherOnCreated \/ IgnoreImg \/ CrashOnName \/ Tick
  BY <1>3 DEF Kill, Die, ScanNext, ScanDone, Enable, StartDone, Stop,
              WatcherOnCreated, IgnoreImg, CrashOnName, Tick
<1>4. ASSUME NEW t \in Timeouts, NewTimeout(t) PROVE UNCHANGED batch
  BY <1>4 DEF NewTimeout
<1>5. ASSUME NEW n \in Images, CreateFile(n) PROVE UNCHANGED batch
  BY <1>5 DEF CreateFile
<1>6. CASE UNCHANGED vars
  BY <1>6 DEF vars
<1> QED BY <1>1, <1>2, <1>3, <1>4, <1>5, <1>6 DEF Next, Main, ProcNewImgEnd

LEMMA StreamInit == Init => StreamInv
<1>1. Init => DocsPartitionStream /\ PrevIsLast
  <2> SUFFICES ASSUME Init PROVE DocsPartitionStream /\ PrevIsLast
    OBVIOUS
  <2>1. /\ prevImg = None /\ imgs = << >> /\ docs = << >> /\ taken = << >>
        /\ ends = << >>
    BY DEF Init
  <2>2. Len(ends) = Len(docs) /\ 1..Len(docs) = {} /\ 1..Len(imgs) = {}
    BY <2>1
  <2>3. Len(imgs) = Len(taken) - LastEnd
    BY <2>1 DEF LastEnd
  <2> QED BY <2>1, <2>2, <2>3 DEF DocsPartitionStream, PrevIsLast
<1> QED BY <1>1, TypeInit DEF StreamInv, Init, ThreadsOK, FreshOK

LEMMA StreamNext == StreamInv /\ [Next]_vars => StreamInv'
<1> SUFFICES ASSUME StreamInv, [Next]_vars PROVE StreamInv'
  OBVIOUS
<1>1. TypeOK' /\ ThreadsOK' /\ FreshOK'
  BY TypeNext, ThreadsNext, FreshNext DEF StreamInv
<1>2. DocsPartitionStream' /\ PrevIsLast'
  <2>1. CASE ExtendDoc
    BY <2>1, ExtendPartition
  <2>2. CASE CutDoc
    BY <2>2, CutPartition
  <2>3. CASE ~ExtendDoc /\ ~CutDoc
    BY <2>3, OtherSteps, SameBatch, EmptyBatch DEF StreamInv
  <2> QED BY <2>1, <2>2, <2>3
<1> QED BY <1>1, <1>2 DEF StreamInv

(* Nothing accepted is lost, doubled, reordered or handed over empty: the  *)
(* documents given to OnFileReady and _imgs are, end to end, the accepted  *)
(* images, for every directory, order of arrival and timing.               *)
THEOREM PartitionCorrect == Spec => []DocsPartitionStream
<1>1. StreamInv => DocsPartitionStream
  BY DEF StreamInv
<1> QED BY StreamInit, StreamNext, <1>1, PTL DEF Spec

-----------------------------------------------------------------------------
(* Where the stream is cut, and when.                                      *)

(* The stopwatch started when the last image came, or later; later only    *)
(* before Start returned.                                                  *)
ClockOK ==
  /\ \A j \in 1..Len(taken) :
       /\ taken[j].at <= swStart
       /\ taken[j].settled => pc \notin {"new", "scanning", "enabling", "enabled"}
  /\ taken # << >> /\ taken[Len(taken)].settled => taken[Len(taken)].at = swStart

SplitInv == StreamInv /\ ClockOK /\ SplitExactlyWhenDue /\ SplitInTime

LEMMA TakenTypes ==
  ASSUME TypeOK, NEW j \in 1..Len(taken)
  PROVE  taken[j] \in TakenRecord /\ taken[j].at \in Nat
<1>1. taken[j] \in TakenRecord
  BY ElementOfSeq DEF TypeOK
<1> QED BY <1>1 DEF TakenRecord

LEMMA RangeAppend ==
  ASSUME NEW S, NEW s \in Seq(S), NEW e \in S
  PROVE  Range(Append(s, e)) = Range(s) \cup {e}
<1>1. /\ Len(s) \in Nat /\ DOMAIN s = 1..Len(s)
      /\ DOMAIN Append(s, e) = 1..Len(s) + 1
      /\ \A i \in 1..Len(s) : Append(s, e)[i] = s[i]
      /\ Append(s, e)[Len(s) + 1] = e
  BY AppendProperties, LenProperties
<1>2. Range(Append(s, e)) \subseteq Range(s) \cup {e}
  BY <1>1 DEF Range
<1>3. Range(s) \cup {e} \subseteq Range(Append(s, e))
  BY <1>1 DEF Range
<1> QED BY <1>2, <1>3

LEMMA CutsInStream ==
  ASSUME TypeOK, DocsPartitionStream
  PROVE  \A j \in Range(ends) : j < Len(taken)
<1>1. DOMAIN ends = 1..Len(docs)
  BY DEF TypeOK, DocsPartitionStream
<1> QED BY <1>1 DEF Range, DocsPartitionStream

(* What an acceptance adds between the last image and the new one.         *)
LEMMA NewNeighbours ==
  ASSUME SplitInv, ExtendDoc \/ CutDoc, taken # << >>
  PROVE  LET p == taken[Len(taken)]
             apart == (now - p.at) \div MsPerSecond
         IN /\ Len(taken) \in Range(ends') <=> CutDoc
            /\ CutDoc => CurrentDelay > timeout \/ ~InRow(p.img, cur)
            /\ ~CutDoc => CurrentDelay <= timeout /\ InRow(p.img, cur)
            /\ CutDoc /\ InRow(p.img, cur) => apart > timeout
            /\ ~CutDoc /\ p.settled => apart <= timeout
<1> USE DEF SplitInv, StreamInv
<1> DEFINE p == taken[Len(taken)]
           apart == (now - p.at) \div MsPerSecond
<1>1. Len(taken) \in 1..Len(taken) /\ p \in TakenRecord
  BY DEF TypeOK
<1>2. prevImg = p.img /\ p.img # None
  <2>1. p.img \in Valid
    BY <1>1 DEF TakenRecord
  <2> QED BY <2>1, ImagesAssumption DEF PrevIsLast
<1>3. CutDoc <=> IsEndOfDoc(cur)
  BY DEF ExtendDoc, CutDoc
<1>4. Len(taken) \in Range(ends') <=> CutDoc
  <2>1. CASE CutDoc
    <3>1. ends \in Seq(Nat) /\ Len(taken) \in Nat
      BY DEF TypeOK
    <3>2. ends' = Append(ends, Len(taken))
      BY <2>1 DEF CutDoc, NotifyOnFileReady
    <3>3. Range(ends') = Range(ends) \cup {Len(taken)}
      BY <3>1, <3>2, RangeAppend
    <3> QED BY <2>1, <3>3
  <2>2. CASE ~CutDoc
    <3>1. ends' = ends
      BY <2>2 DEF ExtendDoc
    <3> QED BY <1>1, <2>2, <3>1, CutsInStream
  <2> QED BY <2>1, <2>2
<1>5. CurrentDelay \in Nat /\ timeout \in Int
  BY DelayType, NumbersAssumption DEF TypeOK, Int32
<1>6. /\ CutDoc => CurrentDelay > timeout \/ ~InRow(p.img, cur)
      /\ CutDoc /\ InRow(p.img, cur) => CurrentDelay > timeout
  BY <1>2, <1>3 DEF IsEndOfDoc, Overdue
<1>7. ~CutDoc => CurrentDelay <= timeout /\ InRow(p.img, cur)
  BY <1>2, <1>3, <1>5 DEF IsEndOfDoc, Overdue
<1>8. p.at \in Nat /\ now \in Nat /\ swStart \in Nat /\ p.at <= swStart
  BY <1>1 DEF TypeOK, TakenRecord, ClockOK
<1>9. MsPerSecond \in Nat \ {0}
  BY NumbersAssumption
<1>10. CurrentDelay <= apart
  <2>1. now - swStart \in Int /\ now - p.at \in Int /\ now - swStart <= now - p.at
    BY <1>8
  <2> QED BY <1>9, <2>1, DivMono DEF CurrentDelay
<1>11. apart \in Int
  BY <1>8, <1>9
<1>12. p.settled => apart = CurrentDelay
  BY DEF ClockOK, CurrentDelay
<1>13. CutDoc /\ InRow(p.img, cur) => apart > timeout
  <2> HIDE DEF apart, p
  <2> QED BY <1>5, <1>6, <1>10, <1>11
<1>14. ~CutDoc /\ p.settled => apart <= timeout
  <2> HIDE DEF apart, p
  <2> QED BY <1>7, <1>12
<1> QED BY <1>4, <1>6, <1>7, <1>13, <1>14

(* Older neighbours are separated, or not, as they were.                   *)
LEMMA OldNeighbours ==
  ASSUME SplitInv, ExtendDoc \/ CutDoc, NEW j \in 1..Len(taken) - 1
  PROVE  j \in Range(ends') <=> j \in Range(ends)
<1> USE DEF SplitInv, StreamInv
<1>1. ends \in Seq(Nat) /\ Len(taken) \in Nat
  BY DEF TypeOK
<1>2. CASE CutDoc
  <2>1. ends' = Append(ends, Len(taken))
    BY <1>2 DEF CutDoc, NotifyOnFileReady
  <2>2. Range(ends') = Range(ends) \cup {Len(taken)}
    BY <1>1, <2>1, RangeAppend
  <2>3. j # Len(taken)
    BY <1>1
  <2> QED BY <2>2, <2>3
<1>3. CASE ExtendDoc
  BY <1>3 DEF ExtendDoc
<1> QED BY <1>2, <1>3

LEMMA AcceptSplit ==
  ASSUME SplitInv, ExtendDoc \/ CutDoc
  PROVE  SplitExactlyWhenDue' /\ SplitInTime' /\ ClockOK'
<1> USE DEF SplitInv, StreamInv
<1>1. EndImg /\ Validate(cur) /\ AddImg
  BY DEF ExtendDoc, CutDoc
<1>2. /\ taken' \in Seq(TakenRecord) /\ Len(taken) \in Nat
      /\ Len(taken') = Len(taken) + 1
      /\ \A j \in 1..Len(taken) : taken'[j] = taken[j]
      /\ taken'[Len(taken) + 1] = NewRecord
  BY <1>1, AddFacts DEF TypeOK
<1>3. /\ NewRecord.img = cur /\ NewRecord.at = now
      /\ NewRecord.delay = CurrentDelay /\ NewRecord.limit = timeout
      /\ NewRecord.settled <=> pc \in {"started", "stopped"}
  BY DEF NewRecord
<1>4. ASSUME NEW j \in 1..Len(taken') - 1
      PROVE  LET p == taken'[j]
                 n == taken'[j + 1]
                 apart == (n.at - p.at) \div MsPerSecond
             IN /\ IF j \in Range(ends')
                   THEN n.delay > n.limit \/ ~InRow(p.img, n.img)
                   ELSE n.delay <= n.limit /\ InRow(p.img, n.img)
                /\ j \in Range(ends') /\ InRow(p.img, n.img) => apart > n.limit
                /\ j \notin Range(ends') /\ p.settled => apart <= n.limit
  <2>1. CASE j \in 1..Len(taken) - 1
    <3>1. taken'[j] = taken[j] /\ taken'[j + 1] = taken[j + 1]
      BY <1>2, <2>1
    <3>2. j \in Range(ends') <=> j \in Range(ends)
      BY <2>1, OldNeighbours
    <3> QED BY <2>1, <3>1, <3>2 DEF SplitExactlyWhenDue, SplitInTime
  <2>2. CASE j = Len(taken)
    <3>1. taken # << >> /\ taken'[j] = taken[j] /\ taken'[j + 1] = NewRecord
      BY <1>2, <2>2
    <3> HIDE DEF NewRecord
    <3> QED BY <1>3, <2>2, <3>1, NewNeighbours
  <2> QED BY <1>2, <2>1, <2>2
<1>5. SplitExactlyWhenDue' /\ SplitInTime'
  BY <1>4 DEF SplitExactlyWhenDue, SplitInTime
<1>6. ClockOK'
  <2>1. swStart' = now /\ pc' = pc /\ now \in Nat /\ swStart \in Nat
        /\ swStart <= now
    BY <1>1 DEF EndImg, AddImg, TypeOK
  <2>2. ASSUME NEW j \in 1..Len(taken')
        PROVE  /\ taken'[j].at <= swStart'
               /\ taken'[j].settled =>
                    pc' \notin {"new", "scanning", "enabling", "enabled"}
    <3>1. CASE j \in 1..Len(taken)
      <4>1. taken'[j] = taken[j] /\ taken[j].at <= swStart
        BY <1>2, <3>1 DEF ClockOK
      <4>4. taken[j].at \in Nat
        BY <3>1, TakenTypes
      <4>5. taken[j].settled =>
              pc \notin {"new", "scanning", "enabling", "enabled"}
        BY <3>1, Zenon DEF ClockOK
      <4>2. taken'[j].at <= swStart'
        BY <2>1, <4>1, <4>4
      <4>3. taken'[j].settled =>
              pc' \notin {"new", "scanning", "enabling", "enabled"}
        BY <2>1, <4>1, <4>5, Zenon
      <4> QED BY <4>2, <4>3
    <3>2. CASE j = Len(taken) + 1
      BY <1>2, <1>3, <2>1, <3>2
    <3> QED BY <1>2, <3>1, <3>2
  <2>3. taken'[Len(taken')].at = swStart'
    BY <1>2, <1>3, <2>1
  <2> QED BY <2>2, <2>3 DEF ClockOK
<1> QED BY <1>5, <1>6

LEMMA SplitNext == SplitInv /\ [Next]_vars => SplitInv'
<1> SUFFICES ASSUME SplitInv, [Next]_vars PROVE SplitInv'
  OBVIOUS
<1>1. StreamInv'
  BY StreamNext DEF SplitInv
<1>2. CASE ExtendDoc \/ CutDoc
  BY <1>1, <1>2, AcceptSplit DEF SplitInv
<1>3. CASE ~ExtendDoc /\ ~CutDoc
  <2>1. CASE taken' = << >>
    <3>1. 1..Len(taken') = {} /\ 1..Len(taken') - 1 = {}
      BY <2>1
    <3> QED BY <1>1, <2>1, <3>1
            DEF SplitInv, ClockOK, SplitExactlyWhenDue, SplitInTime
  <2>2. CASE taken' # << >>
    <3>1. UNCHANGED batch
      BY <1>3, <2>2, OtherSteps DEF SplitInv
    <3>2. taken' = taken /\ ends' = ends
      BY <3>1 DEF batch
    <3>3. SplitExactlyWhenDue' /\ SplitInTime'
      BY <3>2 DEF SplitInv, SplitExactlyWhenDue, SplitInTime
    <3>4. ClockOK'
      <4> USE DEF SplitInv, StreamInv
      <4>1. CASE StartDone
        <5>1. swStart' = now /\ pc = "enabled" /\ swStart <= now
              /\ now \in Nat /\ swStart \in Nat
          BY <4>1 DEF StartDone, TypeOK
        <5>2. ASSUME NEW j \in 1..Len(taken)
              PROVE  /\ taken[j].at \in Nat /\ taken[j].at <= swStart
                     /\ ~taken[j].settled
          <6>1. taken[j].at \in Nat
            BY TakenTypes
          <6>2. taken[j].at <= swStart
            BY DEF ClockOK
          <6>3. taken[j].settled => pc # "enabled"
            <7>1. taken[j].settled =>
                    pc \notin {"new", "scanning", "enabling", "enabled"}
              BY Zenon DEF ClockOK
            <7>2. pc \notin {"new", "scanning", "enabling", "enabled"}
                    => pc # "enabled"
              OBVIOUS
            <7> QED BY <7>1, <7>2, Zenon
          <6> QED BY <5>1, <6>1, <6>2, <6>3
        <5>3. Len(taken) \in 1..Len(taken)
          BY <2>2, <3>2 DEF TypeOK
        <5>4. \A j \in 1..Len(taken') :
                /\ taken'[j].at <= swStart'
                /\ ~taken'[j].settled
          BY <3>2, <5>1, <5>2
        <5> QED BY <3>2, <5>3, <5>4 DEF ClockOK
      <4>2. CASE ~StartDone
        <5>1. swStart' = swStart
          <6>1. ~Launch \/ UNCHANGED swStart
            BY <2>2 DEF Launch
          <6>2. CASE StartScan \/ Kill \/ ScanNext \/ ScanDone \/ Enable
                     \/ Stop \/ WatcherOnCreated \/ IgnoreImg \/ CrashOnName
                     \/ Tick
            BY <6>2 DEF StartScan, Kill, Die, ScanNext, ScanDone, Enable, Stop,
                        WatcherOnCreated, IgnoreImg, CrashOnName, Tick
          <6>3. ASSUME NEW t \in Timeouts, NewTimeout(t) PROVE swStart' = swStart
            BY <6>3 DEF NewTimeout
          <6>4. ASSUME NEW n \in Images, CreateFile(n) PROVE swStart' = swStart
            BY <6>4 DEF CreateFile
          <6>5. CASE UNCHANGED vars
            BY <6>5 DEF vars
          <6> QED BY <1>3, <4>2, <6>1, <6>2, <6>3, <6>4, <6>5
                  DEF Next, Main, ProcNewImgEnd
        <5>2. \A j \in 1..Len(taken) : taken[j].settled =>
                pc' \notin {"new", "scanning", "enabling", "enabled"}
          <6>1. ~Launch
            BY <2>2 DEF Launch
          <6>2. taken # << >> /\ ~StartScan
            BY <2>2, <3>2 DEF StartScan, FreshOK
          <6>3. CASE ScanNext \/ ScanDone \/ Enable
            BY <6>3 DEF ScanNext, ScanDone, Enable, ClockOK
          <6>4. CASE Kill \/ Stop \/ CrashOnName
            BY <6>4 DEF Kill, Stop, CrashOnName, Die
          <6>5. CASE pc' = pc
            BY <6>5 DEF ClockOK
          <6>6. CASE WatcherOnCreated \/ IgnoreImg \/ Tick
            BY <6>5, <6>6 DEF WatcherOnCreated, IgnoreImg, EndImg, Tick, thread
          <6>7. ASSUME NEW t \in Timeouts, NewTimeout(t) PROVE pc' = pc
            BY <6>7 DEF NewTimeout, thread
          <6>8. ASSUME NEW n \in Images, CreateFile(n) PROVE pc' = pc
            BY <6>8 DEF CreateFile, thread
          <6>9. CASE UNCHANGED vars
            BY <6>5, <6>9 DEF vars, thread
          <6> QED BY <1>3, <4>2, <6>1, <6>2, <6>3, <6>4, <6>5, <6>6, <6>7,
                     <6>8, <6>9 DEF Next, Main, ProcNewImgEnd
        <5> QED BY <3>2, <5>1, <5>2 DEF ClockOK
      <4> QED BY <4>1, <4>2
    <3> QED BY <1>1, <3>3, <3>4 DEF SplitInv
  <2> QED BY <2>1, <2>2
<1> QED BY <1>2, <1>3

LEMMA SplitInit == Init => SplitInv
<1> SUFFICES ASSUME Init PROVE SplitInv
  OBVIOUS
<1>1. taken = << >>
  BY DEF Init
<1>2. 1..Len(taken) = {} /\ 1..Len(taken) - 1 = {}
  BY <1>1
<1> QED BY <1>1, <1>2, StreamInit
        DEF SplitInv, ClockOK, SplitExactlyWhenDue, SplitInTime

LEMMA SplitAlways == Spec => []SplitInv
  BY SplitInit, SplitNext, PTL DEF Spec

(* Two neighbouring images are in different documents exactly when their   *)
(* numbers do not follow each other or the timeout in force had passed.    *)
THEOREM SplitCorrect == Spec => []SplitExactlyWhenDue
<1>1. SplitInv => SplitExactlyWhenDue
  BY DEF SplitInv
<1> QED BY SplitAlways, <1>1, PTL

(* The same in the machine's time: the timeout neither cuts early nor,     *)
(* once Start has returned, joins images it should have separated.         *)
THEOREM TimingCorrect == Spec => []SplitInTime
<1>1. SplitInv => SplitInTime
  BY DEF SplitInv
<1> QED BY SplitAlways, <1>1, PTL

-----------------------------------------------------------------------------
(* The listener implements DocumentStream.                                 *)

LEMMA StreamStep == StreamInv /\ [Next]_vars => [Stream!Next]_(Stream!vars)
<1> SUFFICES ASSUME StreamInv, [Next]_vars
             PROVE  [Stream!Next]_(Stream!vars)
  OBVIOUS
<1> USE DEF StreamInv
<1> DEFINE acc == [j \in 1..Len(taken) |-> taken[j].img]
<1>1. ASSUME EndImg, Validate(cur), AddImg
      PROVE  cur \in Valid /\ acc' = Append(acc, cur)
  <2>1. /\ cur \in Valid /\ NewRecord.img = cur
        /\ Len(taken') = Len(taken) + 1 /\ Len(taken) \in Nat
        /\ \A j \in 1..Len(taken) : taken'[j] = taken[j]
        /\ taken'[Len(taken) + 1] = NewRecord
    BY <1>1, AddFacts DEF TypeOK
  <2>2. \A j \in 1..Len(taken) : taken[j].img \in Valid
    BY TakenTypes DEF TakenRecord
  <2>3. acc \in Seq(Valid) /\ Len(acc) = Len(taken)
    BY <2>1, <2>2
  <2>4. /\ Append(acc, cur) \in Seq(Valid)
        /\ Len(Append(acc, cur)) = Len(taken) + 1
        /\ \A j \in 1..Len(taken) : Append(acc, cur)[j] = taken[j].img
        /\ Append(acc, cur)[Len(taken) + 1] = cur
    BY <2>1, <2>3, AppendProperties
  <2>5. \A j \in 1..Len(taken') : taken'[j].img = Append(acc, cur)[j]
    BY <2>1, <2>4
  <2>6. acc' = [j \in 1..Len(taken) + 1 |-> taken'[j].img]
    BY <2>1
  <2>7. Append(acc, cur) = [j \in 1..Len(taken) + 1 |-> Append(acc, cur)[j]]
    BY <2>4
  <2> HIDE DEF acc
  <2> QED BY <2>1, <2>5, <2>6, <2>7
<1>2. CASE ExtendDoc
  <2>1. /\ EndImg /\ Validate(cur) /\ AddImg
        /\ imgs' = Append(imgs, cur) /\ docs' = docs
    BY <1>2 DEF ExtendDoc
  <2>2. cur \in Valid /\ acc' = Append(acc, cur)
    BY <1>1, <2>1
  <2> QED BY <2>1, <2>2 DEF Stream!Next, Stream!Extend
<1>3. CASE CutDoc
  <2>1. /\ EndImg /\ Validate(cur) /\ AddImg /\ IsEndOfDoc(cur)
        /\ imgs' = <<cur>> /\ docs' = Append(docs, imgs)
    BY <1>3 DEF CutDoc, NotifyOnFileReady
  <2>2. cur \in Valid /\ acc' = Append(acc, cur)
    BY <1>1, <2>1
  <2>3. imgs # << >>
    <3>1. taken # << >>
      BY <2>1 DEF IsEndOfDoc, PrevIsLast
    <3>2. LastEnd < Len(taken) /\ LastEnd \in Nat /\ Len(taken) \in Nat
      BY <3>1, PositionFacts
    <3>3. Len(imgs) = Len(taken) - LastEnd
      BY DEF DocsPartitionStream
    <3> QED BY <3>2, <3>3
  <2> QED BY <2>1, <2>2, <2>3 DEF Stream!Next, Stream!Cut
<1>4. CASE ~ExtendDoc /\ ~CutDoc
  <2>1. CASE UNCHANGED batch
    BY <2>1 DEF batch, Stream!vars
  <2>2. CASE /\ prevImg' = None /\ imgs' = << >> /\ docs' = << >>
             /\ taken' = << >> /\ ends' = << >>
    <3>1. acc' = << >>
      BY <2>2
    <3> QED BY <2>2, <3>1 DEF Stream!Next, Stream!NewSession
  <2> QED BY <1>4, <2>1, <2>2, OtherSteps
<1> QED BY <1>2, <1>3, <1>4

(* Whatever the threads, the clock, the file system and the broker do, the *)
(* subscribers of a listener see a stream cut into non-empty documents.    *)
THEOREM ImplementsStream == Spec => StreamSpec
<1>1. Init => Stream!Init
  <2> SUFFICES ASSUME Init PROVE Stream!Init
    OBVIOUS
  <2>1. taken = << >> /\ docs = << >> /\ imgs = << >>
    BY DEF Init
  <2>2. [j \in 1..Len(taken) |-> taken[j].img] = << >>
    BY <2>1
  <2> QED BY <2>1, <2>2 DEF Stream!Init
<1> QED BY StreamInit, StreamNext, StreamStep, <1>1, PTL
        DEF Spec, StreamSpec, Stream!Spec
-----------------------------------------------------------------------------
(* Every report of a file is somewhere once: still in the scan or in the   *)
(* watcher's queue, in ProcNewImg, or accepted.                            *)

Seen     == {taken[j].img : j \in 1..Len(taken)}
Handling == IF handler # "none" THEN {cur} ELSE {}
Reported == Range(scan) \cup Range(events) \cup Handling \cup Seen

ReportsOnce ==
  /\ IsInjective(scan) /\ IsInjective(events)
  /\ Reported \subseteq dir
  /\ Range(scan) \cap Range(events) = {}
  /\ Handling \cap (Range(scan) \cup Range(events)) = {}
  /\ Seen \cap (Range(scan) \cup Range(events) \cup Handling) = {}
  /\ TakenOnce

(* The names of a scan are used up before the watcher is enabled, and only *)
(* an enabled watcher has events.                                          *)
PhasesOK ==
  /\ scan # << >> => pc = "scanning"
  /\ events # << >> => watching
  /\ pc \in {"enabled", "started"} => watching

Accounted ==
  pc \in {"scanning", "enabling", "enabled", "started"} =>
    dir \cap Valid \subseteq Reported \cup missed

ReportInv ==
  TypeOK /\ ThreadsOK /\ FreshOK /\ PhasesOK /\ ReportsOnce /\ Accounted

LEMMA TailRange ==
  ASSUME NEW S, NEW s \in Seq(S), s # << >>, IsInjective(s)
  PROVE  /\ Head(s) \in Range(s)
         /\ Range(Tail(s)) = Range(s) \ {Head(s)}
         /\ IsInjective(Tail(s))
<1>1. /\ Len(s) \in Nat \ {0} /\ DOMAIN s = 1..Len(s)
      /\ DOMAIN Tail(s) = 1..Len(s) - 1 /\ Head(s) = s[1]
      /\ \A i \in 1..Len(s) - 1 : Tail(s)[i] = s[i + 1]
  BY EmptySeq, HeadTailProperties
<1>2. \A i, j \in 1..Len(s) : s[i] = s[j] => i = j
  BY <1>1 DEF IsInjective
<1>3. Head(s) \in Range(s)
  BY <1>1 DEF Range
<1>4. ASSUME NEW x \in Range(Tail(s)) PROVE x \in Range(s) \ {Head(s)}
  <2>1. PICK i \in 1..Len(s) - 1 : x = s[i + 1]
    BY <1>1, <1>4 DEF Range
  <2>2. i + 1 \in 1..Len(s) /\ i + 1 # 1 /\ 1 \in 1..Len(s)
    BY <1>1
  <2> QED BY <1>1, <1>2, <2>1, <2>2 DEF Range
<1>5. ASSUME NEW x \in Range(s) \ {Head(s)} PROVE x \in Range(Tail(s))
  <2>1. PICK i \in 1..Len(s) : x = s[i]
    BY <1>1 DEF Range
  <2>2. i - 1 \in 1..Len(s) - 1 /\ (i - 1) + 1 = i
    BY <1>1, <2>1
  <2>3. Tail(s)[i - 1] = x
    BY <1>1, <2>1, <2>2
  <2> QED BY <1>1, <2>2, <2>3 DEF Range
<1>6. IsInjective(Tail(s))
  <2> SUFFICES ASSUME NEW i \in 1..Len(s) - 1, NEW j \in 1..Len(s) - 1,
                      Tail(s)[i] = Tail(s)[j]
               PROVE  i = j
    BY <1>1 DEF IsInjective
  <2>1. i + 1 \in 1..Len(s) /\ j + 1 \in 1..Len(s) /\ s[i + 1] = s[j + 1]
    BY <1>1
  <2>2. i + 1 = j + 1
    BY <1>2, <2>1
  <2> QED BY <2>2
<1> QED BY <1>3, <1>4, <1>5, <1>6

LEMMA AppendFresh ==
  ASSUME NEW S, NEW s \in Seq(S), IsInjective(s), NEW e \in S, e \notin Range(s)
  PROVE  IsInjective(Append(s, e))
<1> DEFINE t == Append(s, e)
<1>1. /\ Len(s) \in Nat /\ DOMAIN s = 1..Len(s)
      /\ DOMAIN Append(s, e) = 1..Len(s) + 1
      /\ \A i \in 1..Len(s) : Append(s, e)[i] = s[i]
      /\ Append(s, e)[Len(s) + 1] = e
  BY AppendProperties, LenProperties
<1>2. \A i \in 1..Len(s) : s[i] # e
  BY <1>1 DEF Range
<1>3. \A i \in 1..Len(s) + 1 : i \in 1..Len(s) \/ i = Len(s) + 1
  BY <1>1
<1>4. \A i, j \in 1..Len(s) : s[i] = s[j] => i = j
  BY <1>1 DEF IsInjective
<1>5. DOMAIN t = 1..Len(s) + 1 /\ \A i, j \in 1..Len(s) + 1 : t[i] = t[j] => i = j
  BY <1>1, <1>2, <1>3, <1>4
<1> HIDE DEF t
<1>6. IsInjective(t)
  BY <1>5 DEF IsInjective
<1> QED BY <1>6 DEF t

(* GetFiles returns each file of the directory once.                       *)
LEMMA ScanRange ==
  ASSUME NEW D \in SUBSET Images, NEW s \in SetToSeqs(D)
  PROVE  Range(s) = D /\ IsInjective(s)
<1> DEFINE I == 1..Cardinality(D)
<1>1. IsFiniteSet(D) /\ Cardinality(D) \in Nat
  BY ImagesAssumption, FS_Subset, FS_CardinalityType
<1>2. IsFiniteSet(I) /\ Cardinality(I) = Cardinality(D)
  BY <1>1, FS_Interval
<1>3. s \in [I -> D] /\ \A i, j \in I : i # j => s[i] # s[j]
  BY DEF SetToSeqs
<1> HIDE DEF I
<1>4. IsInjective(s)
  BY <1>3 DEF IsInjective
<1>5. s \in Injection(I, D)
  BY <1>3, <1>4 DEF Injection
<1>6. s \in Surjection(I, D)
  BY <1>1, <1>2, <1>5, FS_Injection
<1> QED BY <1>3, <1>4, <1>6 DEF Surjection, Range

LEMMA SeenAppend ==
  ASSUME TypeOK, EndImg, Validate(cur), AddImg, TakenOnce, cur \notin Seen
  PROVE  Seen' = Seen \cup {cur} /\ TakenOnce'
<1>1. /\ NewRecord.img = cur /\ Len(taken') = Len(taken) + 1 /\ Len(taken) \in Nat
      /\ \A j \in 1..Len(taken) : taken'[j] = taken[j]
      /\ taken'[Len(taken) + 1] = NewRecord
  BY AddFacts DEF TypeOK
<1>2. \A j \in 1..Len(taken') : j \in 1..Len(taken) \/ j = Len(taken) + 1
  BY <1>1
<1>3. Len(taken) + 1 \in 1..Len(taken') /\ 1..Len(taken) \subseteq 1..Len(taken')
  BY <1>1
<1>4. Seen' = Seen \cup {cur}
  BY <1>1, <1>2, <1>3 DEF Seen
<1>5. \A j \in 1..Len(taken) : taken[j].img # cur
  BY DEF Seen
<1>6. TakenOnce'
  BY <1>1, <1>2, <1>5 DEF TakenOnce
<1> QED BY <1>4, <1>6

LEMMA ReportInit == Init => ReportInv
<1> SUFFICES ASSUME Init PROVE ReportInv
  OBVIOUS
<1>1. /\ scan = << >> /\ events = << >> /\ taken = << >> /\ handler = "none"
      /\ pc = "down"
  BY DEF Init
<1>2. 1..Len(taken) = {} /\ Range(scan) = {} /\ Range(events) = {}
  BY <1>1 DEF Range
<1>3. Seen = {} /\ Handling = {} /\ TakenOnce
  BY <1>1, <1>2 DEF Seen, Handling, TakenOnce
<1>4. ReportsOnce
  BY <1>1, <1>2, <1>3 DEF ReportsOnce, Reported, IsInjective
<1> QED BY <1>1, <1>4, TypeInit
        DEF ReportInv, ThreadsOK, FreshOK, PhasesOK, Accounted, Init

(* The process ends or begins: what it had not accepted is forgotten.      *)
LEMMA ReportDies ==
  ASSUME ReportInv, handler' = "none", scan' = << >>, events' = << >>,
         UNCHANGED dir, pc' \in {"new", "down", "crashed"},
         taken' = taken \/ taken' = << >>
  PROVE  PhasesOK' /\ ReportsOnce' /\ Accounted'
<1> USE DEF ReportInv
<1>1. Range(scan') = {} /\ Range(events') = {} /\ Handling' = {}
  BY DEF Range, Handling
<1>2. Seen' \subseteq Seen /\ TakenOnce'
  <2>1. CASE taken' = taken
    BY <2>1 DEF Seen, TakenOnce, ReportsOnce
  <2>2. CASE taken' = << >>
    <3>1. 1..Len(taken') = {}
      BY <2>2
    <3> QED BY <3>1 DEF Seen, TakenOnce
  <2> QED BY <2>1, <2>2
<1>3. ReportsOnce'
  BY <1>1, <1>2 DEF ReportsOnce, Reported, IsInjective
<1> QED BY <1>3 DEF PhasesOK, Accounted

LEMMA ReportScan ==
  ASSUME ReportInv, StartScan
  PROVE  PhasesOK' /\ ReportsOnce' /\ Accounted'
<1> USE DEF ReportInv
<1>1. /\ pc = "new" /\ pc' = "scanning" /\ scan' \in SetToSeqs(dir)
      /\ UNCHANGED <<dir, handler, watching, events, taken, missed>>
  BY DEF StartScan, watcher, world
<1>2. taken = << >> /\ handler = "none" /\ events = << >>
  BY <1>1 DEF FreshOK, ThreadsOK, PhasesOK, TypeOK
<1>3. Range(scan') = dir /\ IsInjective(scan')
  BY <1>1, ScanRange DEF TypeOK
<1>4. 1..Len(taken) = {} /\ Range(events) = {}
  BY <1>2 DEF Range
<1>5. Seen' = {} /\ Handling' = {} /\ TakenOnce'
  BY <1>1, <1>2, <1>4 DEF Seen, Handling, TakenOnce
<1>6. ReportsOnce' /\ Accounted'
  BY <1>1, <1>2, <1>3, <1>4, <1>5 DEF ReportsOnce, Reported, Accounted, IsInjective
<1> QED BY <1>1, <1>2, <1>6 DEF PhasesOK

(* A report enters ProcNewImg.                                             *)
LEMMA ReportBegins ==
  ASSUME ReportInv, ScanNext \/ WatcherOnCreated
  PROVE  PhasesOK' /\ ReportsOnce' /\ Accounted'
<1> USE DEF ReportInv
<1>1. /\ handler = "none" /\ UNCHANGED <<dir, pc, watching, taken, missed>>
  BY DEF ScanNext, WatcherOnCreated, watcher, batch, world
<1>2. Seen' = Seen /\ (TakenOnce' <=> TakenOnce) /\ Handling = {}
  BY <1>1 DEF Seen, TakenOnce, Handling
<1>3. CASE ScanNext
  <2>1. /\ pc = "scanning" /\ scan # << >> /\ scan' = Tail(scan) /\ events' = events
        /\ handler' = "main" /\ cur' = Head(scan)
    BY <1>3 DEF ScanNext, BeginImg, watcher
  <2>2. /\ Head(scan) \in Range(scan) /\ IsInjective(scan')
        /\ Range(scan') = Range(scan) \ {Head(scan)}
    BY <2>1, TailRange DEF TypeOK, ReportsOnce
  <2>3. Handling' = {Head(scan)}
    BY <2>1 DEF Handling
  <2>4. Reported' = Reported
    BY <1>2, <2>1, <2>2, <2>3 DEF Reported
  <2>5. ReportsOnce'
    BY <1>1, <1>2, <2>1, <2>2, <2>3, <2>4 DEF ReportsOnce, Reported
  <2>6. Accounted'
    BY <1>1, <2>4 DEF Accounted
  <2> QED BY <1>1, <2>1, <2>5, <2>6 DEF PhasesOK
<1>4. CASE WatcherOnCreated
  <2>1. /\ watching /\ events # << >> /\ events' = Tail(events) /\ scan' = scan
        /\ handler' = "watcher" /\ cur' = Head(events)
    BY <1>4 DEF WatcherOnCreated, BeginImg
  <2>2. /\ Head(events) \in Range(events) /\ IsInjective(events')
        /\ Range(events') = Range(events) \ {Head(events)}
    BY <2>1, TailRange DEF TypeOK, ReportsOnce
  <2>3. Handling' = {Head(events)}
    BY <2>1 DEF Handling
  <2>4. Reported' = Reported
    BY <1>2, <2>1, <2>2, <2>3 DEF Reported
  <2>5. ReportsOnce'
    BY <1>1, <1>2, <2>1, <2>2, <2>3, <2>4 DEF ReportsOnce, Reported
  <2>6. Accounted'
    BY <1>1, <2>4 DEF Accounted
  <2> QED BY <1>1, <2>1, <2>5, <2>6 DEF PhasesOK
<1> QED BY <1>3, <1>4

(* A report leaves ProcNewImg, accepted or not.                            *)
LEMMA ReportEnds ==
  ASSUME ReportInv, IgnoreImg \/ ExtendDoc \/ CutDoc
  PROVE  PhasesOK' /\ ReportsOnce' /\ Accounted'
<1> USE DEF ReportInv
<1>1. /\ EndImg /\ handler # "none" /\ handler' = "none"
      /\ UNCHANGED <<dir, pc, scan, watching, events, missed>>
  BY DEF IgnoreImg, ExtendDoc, CutDoc, EndImg, watcher, world
<1>2. Handling = {cur} /\ Handling' = {}
  BY <1>1 DEF Handling
<1>3. PhasesOK'
  BY <1>1 DEF PhasesOK
<1>4. CASE IgnoreImg
  <2>1. cur \notin Valid /\ UNCHANGED taken
    BY <1>4 DEF IgnoreImg, Validate, batch
  <2>2. Seen' = Seen /\ TakenOnce'
    BY <2>1 DEF Seen, TakenOnce, ReportsOnce
  <2>3. Reported' \cup {cur} = Reported
    BY <1>1, <1>2, <2>2 DEF Reported
  <2>4. ReportsOnce'
    BY <1>1, <1>2, <2>2, <2>3 DEF ReportsOnce
  <2>5. Accounted'
    BY <1>1, <2>1, <2>3 DEF Accounted
  <2> QED BY <1>3, <2>4, <2>5
<1>5. CASE ExtendDoc \/ CutDoc
  <2>1. Validate(cur) /\ AddImg
    BY <1>5 DEF ExtendDoc, CutDoc
  <2>2. Seen' = Seen \cup {cur} /\ TakenOnce'
    BY <1>1, <1>2, <2>1, SeenAppend DEF ReportsOnce
  <2>3. Reported' = Reported
    BY <1>1, <1>2, <2>2 DEF Reported
  <2>4. ReportsOnce'
    BY <1>1, <1>2, <2>2, <2>3 DEF ReportsOnce
  <2>5. Accounted'
    BY <1>1, <2>3 DEF Accounted
  <2> QED BY <1>3, <2>4, <2>5
<1> QED BY <1>4, <1>5

LEMMA ReportCreate ==
  ASSUME ReportInv, NEW n \in Images, CreateFile(n)
  PROVE  PhasesOK' /\ ReportsOnce' /\ Accounted'
<1> USE DEF ReportInv
<1>1. /\ n \notin dir /\ dir' = dir \cup {n}
      /\ UNCHANGED <<pc, handler, scan, cur, watching, taken>>
  BY DEF CreateFile, thread, batch
<1>2. Seen' = Seen /\ (TakenOnce' <=> TakenOnce) /\ Handling' = Handling
  BY <1>1 DEF Seen, TakenOnce, Handling
<1>3. n \notin Reported
  BY <1>1 DEF ReportsOnce
<1>4. CASE watching /\ events' = Append(events, n) /\ UNCHANGED missed
  <2>1. events \in Seq(Images) /\ IsInjective(events) /\ n \notin Range(events)
    BY <1>3 DEF TypeOK, ReportsOnce, Reported
  <2>2. Range(events') = Range(events) \cup {n}
    BY <1>4, <2>1, RangeAppend
  <2>3. IsInjective(events')
    BY <1>4, <2>1, AppendFresh
  <2>4. Reported' = Reported \cup {n}
    BY <1>1, <1>2, <2>2 DEF Reported
  <2>5. ReportsOnce'
    BY <1>1, <1>2, <1>3, <2>2, <2>3, <2>4 DEF ReportsOnce, Reported
  <2>6. Accounted'
    BY <1>1, <1>4, <2>4 DEF Accounted
  <2> QED BY <1>1, <1>4, <2>5, <2>6 DEF PhasesOK
<1>5. CASE watching /\ events' = << >> /\ missed' = missed \cup {n} \cup Range(events)
  <2>1. Range(events') = {} /\ IsInjective(events')
    BY <1>5 DEF Range, IsInjective
  <2>2. Reported' \subseteq Reported /\ Reported \subseteq Reported' \cup Range(events)
    BY <1>1, <1>2, <2>1 DEF Reported
  <2>3. ReportsOnce'
    BY <1>1, <1>2, <2>1, <2>2 DEF ReportsOnce
  <2>4. Accounted'
    BY <1>1, <1>5, <2>2 DEF Accounted
  <2> QED BY <1>1, <1>5, <2>3, <2>4 DEF PhasesOK
<1>6. CASE /\ ~watching /\ UNCHANGED events
           /\ \/ missed' = missed \cup {n}
              \/ pc \notin {"scanning", "enabling"} /\ UNCHANGED missed
  <2>1. Reported' = Reported
    BY <1>1, <1>2, <1>6 DEF Reported
  <2>2. ReportsOnce'
    BY <1>1, <1>2, <1>6, <2>1 DEF ReportsOnce
  <2>3. Accounted'
    BY <1>1, <1>6, <2>1 DEF Accounted, PhasesOK
  <2> QED BY <1>1, <1>6, <2>2, <2>3 DEF PhasesOK
<1> QED BY <1>4, <1>5, <1>6 DEF CreateFile

LEMMA ReportNext == ReportInv /\ [Next]_vars => ReportInv'
<1> SUFFICES ASSUME ReportInv, [Next]_vars PROVE ReportInv'
  OBVIOUS
<1>0. TypeOK' /\ ThreadsOK' /\ FreshOK'
  BY TypeNext, ThreadsNext, FreshNext DEF ReportInv
<1> DEFINE Goal == PhasesOK' /\ ReportsOnce' /\ Accounted'
<1>1. ASSUME Launch \/ Kill \/ CrashOnName PROVE Goal
  BY <1>1, ReportDies DEF Launch, Kill, CrashOnName, Die, batch, world
<1>2. ASSUME StartScan PROVE Goal
  BY <1>2, ReportScan
<1>3. ASSUME ScanNext \/ WatcherOnCreated PROVE Goal
  BY <1>3, ReportBegins
<1>4. ASSUME IgnoreImg \/ ExtendDoc \/ CutDoc PROVE Goal
  BY <1>4, ReportEnds
<1>5. ASSUME NEW n \in Images, CreateFile(n) PROVE Goal
  BY <1>5, ReportCreate
<1>6. ASSUME /\ UNCHANGED <<dir, handler, scan, cur, events, taken, missed>>
             /\ \/ UNCHANGED <<pc, watching>>
                \/ ScanDone \/ Enable \/ StartDone
      PROVE  Goal
  <2>1. /\ Seen' = Seen /\ (TakenOnce' <=> TakenOnce) /\ Handling' = Handling
        /\ Reported' = Reported
    BY <1>6 DEF Seen, TakenOnce, Handling, Reported
  <2>2. ReportsOnce'
    BY <1>6, <2>1 DEF ReportInv, ReportsOnce
  <2>3. PhasesOK'
    BY <1>6 DEF ReportInv, PhasesOK, ScanDone, Enable, StartDone, watcher
  <2>4. Accounted'
    BY <1>6, <2>1 DEF ReportInv, Accounted, ScanDone, Enable, StartDone
  <2> QED BY <2>2, <2>3, <2>4
<1>7. ASSUME Stop PROVE Goal
  <2>1. /\ pc = "started" /\ pc' = "stopped" /\ events' = << >>
        /\ UNCHANGED <<dir, handler, scan, cur, taken>>
    BY <1>7 DEF Stop, batch, world
  <2>2. Range(events') = {} /\ IsInjective(events')
    BY <2>1 DEF Range, IsInjective
  <2>3. /\ Seen' = Seen /\ (TakenOnce' <=> TakenOnce) /\ Handling' = Handling
        /\ Reported' \subseteq Reported
    BY <2>1, <2>2 DEF Seen, TakenOnce, Handling, Reported
  <2>4. ReportsOnce'
    BY <2>1, <2>2, <2>3 DEF ReportInv, ReportsOnce
  <2> QED BY <2>1, <2>4 DEF ReportInv, PhasesOK, Accounted
<1>8. Goal
  <2>1. CASE ScanDone \/ Enable \/ StartDone
    BY <1>6, <2>1 DEF ScanDone, Enable, StartDone, watcher, batch, world
  <2>2. CASE \E t \in Timeouts : NewTimeout(t)
    BY <1>6, <2>2 DEF NewTimeout, thread, watcher, batch, world
  <2>3. CASE Tick \/ UNCHANGED vars
    BY <1>6, <2>3 DEF Tick, vars, thread, watcher, batch, world
  <2> QED BY <1>1, <1>2, <1>3, <1>4, <1>5, <1>7, <2>1, <2>2, <2>3
          DEF Next, Main, ProcNewImgEnd
<1> QED BY <1>0, <1>8 DEF ReportInv

LEMMA ReportAlways == Spec => []ReportInv
  BY ReportInit, ReportNext, PTL DEF Spec

(* No image is accepted twice by one process, whichever of its two threads *)
(* a report of it reaches.                                                 *)
THEOREM AcceptsOnce == Spec => []TakenOnce
<1>1. ReportInv => TakenOnce
  BY DEF ReportInv, ReportsOnce
<1> QED BY ReportAlways, <1>1, PTL

(* Scan and watcher together see every file, but for those that appeared   *)
(* while neither looked or that a full buffer dropped.                     *)
THEOREM ForgetsNone == Spec => []NoImageForgotten
<1>1. ReportInv => NoImageForgotten
  <2> SUFFICES ASSUME ReportInv, pc \in {"enabled", "started"},
                      NEW n \in dir \cap Valid
               PROVE  \/ \E j \in 1..Len(taken) : taken[j].img = n
                      \/ n \in Range(events)
                      \/ handler # "none" /\ cur = n
                      \/ n \in missed
    BY DEF NoImageForgotten
  <2>1. scan = << >>
    BY DEF ReportInv, PhasesOK
  <2>2. Range(scan) = {}
    BY <2>1 DEF Range
  <2>3. n \in Range(events) \cup Handling \cup Seen \cup missed
    BY <2>2 DEF ReportInv, Accounted, Reported
  <2> QED BY <2>3 DEF Handling, Seen
<1> QED BY ReportAlways, <1>1, PTL

(* The status never sticks, whichever threads came between.                *)
THEOREM StatusSettles == Spec => []StatusAtRest
<1>1. Init => StatusAtRest
  BY DEF Init, StatusAtRest
<1>2. TypeOK /\ ThreadsOK /\ StatusAtRest /\ [Next]_vars => StatusAtRest'
  <2> SUFFICES ASSUME TypeOK, ThreadsOK, StatusAtRest, [Next]_vars
               PROVE  StatusAtRest'
    OBVIOUS
  <2> USE DEF StatusAtRest, Up
  <2>1. CASE Launch \/ Kill \/ CrashOnName
    BY <2>1 DEF Launch, Kill, CrashOnName, Die
  <2>2. CASE StartScan \/ ScanNext \/ WatcherOnCreated
    BY <2>2 DEF StartScan, ScanNext, WatcherOnCreated, BeginImg
  <2>3. CASE IgnoreImg \/ ExtendDoc \/ CutDoc
    BY <2>3 DEF IgnoreImg, ExtendDoc, CutDoc, EndImg
  <2>4. CASE ScanDone \/ Enable \/ StartDone \/ Stop
    BY <2>4 DEF ScanDone, Enable, StartDone, Stop
  <2>5. ASSUME NEW t \in Timeouts, NewTimeout(t) PROVE StatusAtRest'
    BY <2>5 DEF NewTimeout, thread
  <2>6. ASSUME NEW n \in Images, CreateFile(n) PROVE StatusAtRest'
    BY <2>6 DEF CreateFile, thread
  <2>7. CASE Tick \/ UNCHANGED vars
    BY <2>7 DEF Tick, vars, thread
  <2> QED BY <2>1, <2>2, <2>3, <2>4, <2>5, <2>6, <2>7 DEF Next, Main, ProcNewImgEnd
<1>3. ReportInv => TypeOK /\ ThreadsOK
  BY DEF ReportInv
<1> QED BY ReportAlways, <1>1, <1>2, <1>3, PTL DEF Spec
=============================================================================
