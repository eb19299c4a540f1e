------------------------- MODULE ImageServiceProofs -------------------------
(***************************************************************************)
(* What the ImageService runs check on two images, proved for any          *)
(* directory, any numbering, any number of retries and any clock.          *)
(***************************************************************************)
EXTENDS ImageService, FiniteSetTheorems, SequenceTheorems, TLAPS

(* The images of the documents handed to GenerateAsync, and those that an  *)
(* event reported.                                                         *)
DocImgs == {n \in Valid : \E k \in 1..Len(jobs) : n \in Range(jobs[k].doc)}

ByEvent == {n \in Valid :
              \E j \in 1..Len(taken) : taken[j].img = n /\ taken[j].by = "event"}

TakenRecord == [img : Valid, by : {"scan", "event"}]

(* Which part of Start the process has reached, and what that leaves empty.*)
PhasesOK ==
  /\ ~Up \/ pc = "new" => /\ scan = << >> /\ events = << >> /\ imgs = << >>
                          /\ jobs = << >> /\ taken = << >>
  /\ watching <=> pc \in {"enabled", "started"}
  /\ scan # << >> => pc = "scanning"
  /\ events # << >> => watching

(* Every image is at one place: still to be reported, collected, or in a   *)
(* document.                                                               *)
PlacesOK ==
  /\ IsInjective(scan) /\ IsInjective(events)
  /\ (Range(scan) \cup Range(events)) \cap (Range(imgs) \cup DocImgs) = {}
  /\ Range(imgs) \cap DocImgs = {}

(* Only the images of documents are moved, and no longer written to.       *)
FilesOK ==
  /\ Range(scan) \cup Range(events) \cup Range(imgs) \subseteq dir
  /\ DocImgs \subseteq (dir \cup broken) \ writing

(* A task that sleeps has attempts left; images are moved from the first.  *)
TaskOK(job) == (job.asleep => job.attempt < Attempts) /\ job.next # 0

TasksOK == \A k \in 1..Len(jobs) : TaskOK(jobs[k])

(* From the scan on, nothing valid in the directory is unaccounted for.    *)
Accounted ==
  pc \in {"scanning", "enabling", "enabled", "started"} =>
    \A n \in dir \cap Valid :
      n \in Range(scan) \cup Range(events) \cup DocImgs \cup missed \cup ByEvent
            \cup (IF pc = "scanning" THEN Range(imgs) ELSE {})

ServiceInv == TypeOK /\ PhasesOK /\ PlacesOK /\ FilesOK /\ TasksOK /\ Accounted
-----------------------------------------------------------------------------
(* Sequences as the queues of reports use them.                            *)
LEMMA Empty == \A S : << >> \in Seq(S)
  OBVIOUS

LEMMA EmptyRange == Range(<< >>) = {} /\ IsInjective(<< >>)
  BY DEF Range, IsInjective

LEMMA RangeAppend ==
  ASSUME NEW S, NEW s \in Seq(S), NEW e \in S
  PROVE  Range(Append(s, e)) = Range(s) \cup {e}
<1>1. /\ Len(s) \in Nat /\ DOMAIN s = 1..Len(s)
      /\ DOMAIN Append(s, e) = 1..Len(s) + 1
      /\ \A i \in 1..Len(s) : Append(s, e)[i] = s[i]
      /\ Append(s, e)[Len(s) + 1] = e
  BY AppendProperties, LenProperties
<1>2. Range(Append(s, e)) \subseteq Range(s) \cup {e}
  BY <1>1 DEF Range
<1>3. Range(s) \cup {e} \subseteq Range(Append(s, e))
  BY <1>1 DEF Range
<1> QED BY <1>2, <1>3

LEMMA TailRange ==
  ASSUME NEW S, NEW s \in Seq(S), s # << >>, IsInjective(s)
  PROVE  /\ Head(s) \in Range(s)
         /\ Range(Tail(s)) = Range(s) \ {Head(s)}
         /\ IsInjective(Tail(s))
<1>1. /\ Len(s) \in Nat \ {0} /\ DOMAIN s = 1..Len(s)
      /\ DOMAIN Tail(s) = 1..Len(s) - 1 /\ Head(s) = s[1]
      /\ \A i \in 1..Len(s) - 1 : Tail(s)[i] = s[i + 1]
  BY EmptySeq, HeadTailProperties
<1>2. \A i, j \in 1..Len(s) : s[i] = s[j] => i = j
  BY <1>1 DEF IsInjective
<1>3. Head(s) \in Range(s)
  BY <1>1 DEF Range
<1>4. ASSUME NEW x \in Range(Tail(s)) PROVE x \in Range(s) \ {Head(s)}
  <2>1. PICK i \in 1..Len(s) - 1 : x = s[i + 1]
    BY <1>1, <1>4 DEF Range
  <2>2. i + 1 \in 1..Len(s) /\ i + 1 # 1 /\ 1 \in 1..Len(s)
    BY <1>1
  <2> QED BY <1>1, <1>2, <2>1, <2>2 DEF Range
<1>5. ASSUME NEW x \in Range(s) \ {Head(s)} PROVE x \in Range(Tail(s))
  <2>1. PICK i \in 1..Len(s) : x = s[i]
    BY <1>1 DEF Range
  <2>2. i - 1 \in 1..Len(s) - 1 /\ (i - 1) + 1 = i
    BY <1>1, <2>1
  <2>3. Tail(s)[i - 1] = x
    BY <1>1, <2>1, <2>2
  <2> QED BY <1>1, <2>2, <2>3 DEF Range
<1>6. IsInjective(Tail(s))
  <2> SUFFICES ASSUME NEW i \in 1..Len(s) - 1, NEW j \in 1..Len(s) - 1,
                      Tail(s)[i] = Tail(s)[j]
               PROVE  i = j
    BY <1>1 DEF IsInjective
  <2>1. i + 1 \in 1..Len(s) /\ j + 1 \in 1..Len(s) /\ s[i + 1] = s[j + 1]
    BY <1>1
  <2>2. i + 1 = j + 1
    BY <1>2, <2>1
  <2> QED BY <2>2
<1> QED BY <1>3, <1>4, <1>5, <1>6

LEMMA AppendFresh ==
  ASSUME NEW S, NEW s \in Seq(S), IsInjective(s), NEW e \in S, e \notin Range(s)
  PROVE  IsInjective(Append(s, e))
<1> DEFINE t == Append(s, e)
<1>1. /\ Len(s) \in Nat /\ DOMAIN s = 1..Len(s)
      /\ DOMAIN Append(s, e) = 1..Len(s) + 1
      /\ \A i \in 1..Len(s) : Append(s, e)[i] = s[i]
      /\ Append(s, e)[Len(s) + 1] = e
  BY AppendProperties, LenProperties
<1>2. \A i \in 1..Len(s) : s[i] # e
  BY <1>1 DEF Range
<1>3. \A i \in 1..Len(s) + 1 : i \in 1..Len(s) \/ i = Len(s) + 1
  BY <1>1
<1>4. \A i, j \in 1..Len(s) : s[i] = s[j] => i = j
  BY <1>1 DEF IsInjective
<1>5. DOMAIN t = 1..Len(s) + 1 /\ \A i, j \in 1..Len(s) + 1 : t[i] = t[j] => i = j
  BY <1>1, <1>2, <1>3, <1>4
<1> HIDE DEF t
<1>6. IsInjective(t)
  BY <1>5 DEF IsInjective
<1> QED BY <1>6 DEF t

LEMMA IsAppended ==
  ASSUME NEW S, NEW s \in Seq(S), NEW e \in S, NEW t \in Seq(S),
         Len(t) = Len(s) + 1, \A i \in 1..Len(s) : t[i] = s[i],
         t[Len(s) + 1] = e
  PROVE  t = Append(s, e)
<1>1. /\ Append(s, e) \in Seq(S) /\ Len(Append(s, e)) = Len(s) + 1
      /\ \A i \in 1..Len(s) : Append(s, e)[i] = s[i]
      /\ Append(s, e)[Len(s) + 1] = e
  BY AppendProperties
<1>2. \A i \in 1..Len(t) : t[i] = Append(s, e)[i] BY <1>1
<1> QED BY <1>1, <1>2, SeqEqual

LEMMA RangeType ==
  ASSUME NEW S, NEW s \in Seq(S)
  PROVE  Range(s) \subseteq S
BY DEF Range

LEMMA OneRange == \A x : Range(<<x>>) = {x}
<1> SUFFICES ASSUME NEW x PROVE Range(<<x>>) = {x} OBVIOUS
<1>1. DOMAIN <<x>> = 1..1 /\ <<x>>[1] = x OBVIOUS
<1> QED BY <1>1 DEF Range

(* One element of a sequence replaced.                                     *)
LEMMA ReplacedInSeq ==
  ASSUME NEW S, NEW s \in Seq(S), NEW k \in 1..Len(s), NEW e \in S
  PROVE  /\ [s EXCEPT ![k] = e] \in Seq(S)
         /\ Len([s EXCEPT ![k] = e]) = Len(s)
         /\ [s EXCEPT ![k] = e][k] = e
         /\ \A i \in 1..Len(s) : i # k => [s EXCEPT ![k] = e][i] = s[i]
OBVIOUS

(* GetFiles returns each file of the directory once.                       *)
LEMMA ScanType ==
  ASSUME NEW D \in SUBSET Images, NEW s \in SetToSeqs(D)
  PROVE  s \in Seq(Images)
<1>1. Cardinality(D) \in Nat
  BY ImagesAssumption, FS_Subset, FS_CardinalityType
<1>2. s \in [1..Cardinality(D) -> Images]
  BY DEF SetToSeqs
<1> QED BY <1>1, <1>2

LEMMA ScanRange ==
  ASSUME NEW D \in SUBSET Images, NEW s \in SetToSeqs(D)
  PROVE  Range(s) = D /\ IsInjective(s)
<1> DEFINE I == 1..Cardinality(D)
<1>1. IsFiniteSet(D) /\ Cardinality(D) \in Nat
  BY ImagesAssumption, FS_Subset, FS_CardinalityType
<1>2. IsFiniteSet(I) /\ Cardinality(I) = Cardinality(D)
  BY <1>1, FS_Interval
<1>3. s \in [I -> D] /\ \A i, j \in I : i # j => s[i] # s[j]
  BY DEF SetToSeqs
<1> HIDE DEF I
<1>4. IsInjective(s)
  BY <1>3 DEF IsInjective
<1>5. s \in Injection(I, D)
  BY <1>3, <1>4 DEF Injection
<1>6. s \in Surjection(I, D)
  BY <1>1, <1>2, <1>5, FS_Injection
<1> QED BY <1>3, <1>4, <1>6 DEF Surjection, Range

-----------------------------------------------------------------------------
(* The tasks.                                                              *)
LEMMA JobFacts ==
  ASSUME TypeOK, NEW k \in 1..Len(jobs)
  PROVE  /\ jobs[k] \in Jobs
         /\ jobs[k].doc \in Seq(Valid) /\ jobs[k].next \in Nat
         /\ jobs[k].attempt \in 0..Attempts /\ jobs[k].asleep \in BOOLEAN
         /\ jobs[k].phase \in {"saving", "moving"} \cup Ended
<1>1. jobs \in Seq(Jobs) BY DEF TypeOK
<1> HIDE DEF Jobs
<1>2. jobs[k] \in Jobs BY <1>1
<1> QED BY <1>2 DEF Jobs

(* A task goes on: its document stays.                                     *)
LEMMA JobChange ==
  ASSUME TypeOK, TasksOK, NEW k \in 1..Len(jobs), NEW job \in Jobs,
         job.doc = jobs[k].doc, TaskOK(job),
         jobs' = [jobs EXCEPT ![k] = job]
  PROVE  /\ jobs' \in Seq(Jobs) /\ TasksOK'
         /\ Len(jobs') = Len(jobs)
         /\ \A i \in 1..Len(jobs) : jobs'[i].doc = jobs[i].doc
         /\ DocImgs' = DocImgs
<1>1. jobs \in Seq(Jobs) BY DEF TypeOK
<1> HIDE DEF Jobs
<1>2. /\ jobs' \in Seq(Jobs) /\ Len(jobs') = Len(jobs) /\ jobs'[k] = job
      /\ \A i \in 1..Len(jobs) : i # k => jobs'[i] = jobs[i]
  BY <1>1, ReplacedInSeq
<1>3. \A i \in 1..Len(jobs) : jobs'[i].doc = jobs[i].doc BY <1>2
<1>4. TasksOK' BY <1>2 DEF TasksOK
<1>5. DocImgs' = DocImgs BY <1>2, <1>3 DEF DocImgs
<1> QED BY <1>2, <1>3, <1>4, <1>5

(* The state of a task after any step of it.                               *)
LEMMA TaskJob ==
  ASSUME TypeOK, TasksOK, NEW k \in 1..Len(jobs), Task(k)
  PROVE  /\ Up /\ UNCHANGED <<pc, scan, watch, batch, launches>>
         /\ \E job \in Jobs : /\ jobs' = [jobs EXCEPT ![k] = job]
                              /\ job.doc = jobs[k].doc
                              /\ TaskOK(job)
<1>0. /\ jobs[k] \in Jobs /\ jobs[k].next # 0
      /\ jobs[k].doc \in Seq(Valid) /\ jobs[k].next \in Nat
      /\ jobs[k].attempt \in 0..Attempts /\ jobs[k].asleep \in BOOLEAN
      /\ jobs[k].phase \in {"saving", "moving"} \cup Ended
  BY JobFacts DEF TasksOK, TaskOK
<1>1. Attempts \in Nat \ {0} /\ 0 \in 0..Attempts BY ServiceAssumption
<1>2. Up /\ UNCHANGED <<pc, scan, watch, batch, launches>>
  BY DEF Task, IOException, Wake, Save, SaveGivesUp, SaveThrows, Move, Moving,
         MoveGivesUp, MoveThrows, MoveDone, Awake, Change
<1> DEFINE Good(job) == /\ job \in Jobs /\ jobs' = [jobs EXCEPT ![k] = job]
                        /\ job.doc = jobs[k].doc
                        /\ TaskOK(job)
<1>3. CASE IOException(k)
  <2> DEFINE job == [jobs[k] EXCEPT !.asleep = TRUE]
  <2>1. job \in Jobs /\ job.doc = jobs[k].doc /\ job.attempt = jobs[k].attempt
      /\ job.next = jobs[k].next
    BY <1>0 DEF Jobs
  <2>2. jobs' = [jobs EXCEPT ![k] = job] /\ jobs[k].attempt < Attempts
    BY <1>3 DEF IOException, Change
  <2>3. Good(job) BY <1>0, <2>1, <2>2 DEF TaskOK
  <2> QED BY <1>2, <2>3
<1>4. CASE Wake(k)
  <2> DEFINE job == [jobs[k] EXCEPT !.asleep = FALSE, !.attempt = @ + 1]
  <2>1. jobs[k].attempt < Attempts BY <1>4 DEF Wake, TasksOK, TaskOK
  <2>2. jobs[k].attempt + 1 \in 0..Attempts BY <1>0, <1>1, <2>1
  <2>3. job \in Jobs /\ job.doc = jobs[k].doc /\ job.asleep = FALSE
      /\ job.next = jobs[k].next
    BY <1>0, <2>2 DEF Jobs
  <2>4. jobs' = [jobs EXCEPT ![k] = job] BY <1>4 DEF Wake, Change
  <2>5. Good(job) BY <1>0, <2>3, <2>4 DEF TaskOK
  <2> QED BY <1>2, <2>5
<1>5. ASSUME NEW p \in Ended, ~jobs[k].asleep,
             jobs' = [jobs EXCEPT ![k] = [jobs[k] EXCEPT !.phase = p]]
      PROVE  Good([jobs[k] EXCEPT !.phase = p])
  BY <1>0, <1>5 DEF Jobs, TaskOK
<1>6. CASE Save(k) \/ SaveGivesUp(k) \/ MoveThrows(k) \/ MoveDone(k)
  <2>1. PICK p \in Ended :
          ~jobs[k].asleep /\ jobs' = [jobs EXCEPT ![k] = [jobs[k] EXCEPT !.phase = p]]
    BY <1>6 DEF Save, SaveGivesUp, MoveThrows, MoveDone, Moving, Awake, Change, Ended
  <2>2. Good([jobs[k] EXCEPT !.phase = p]) BY <1>5, <2>1
  <2> QED BY <1>2, <2>2
<1>7. CASE SaveThrows(k)
  <2> DEFINE job == [jobs[k] EXCEPT !.phase = "moving", !.attempt = 0]
  <2>1. ~jobs[k].asleep /\ jobs' = [jobs EXCEPT ![k] = job]
    BY <1>7 DEF SaveThrows, Awake, Change
  <2>2. job \in Jobs /\ job.doc = jobs[k].doc /\ job.asleep = jobs[k].asleep
      /\ job.next # 0
    BY <1>0, <1>1 DEF Jobs
  <2>3. Good(job) BY <2>1, <2>2 DEF TaskOK
  <2> QED BY <1>2, <2>3
<1>8. CASE Move(k) \/ MoveGivesUp(k)
  <2> DEFINE job == [jobs[k] EXCEPT !.next = @ + 1, !.attempt = 0]
  <2>1. ~jobs[k].asleep /\ jobs' = [jobs EXCEPT ![k] = job]
    BY <1>8 DEF Move, MoveGivesUp, Moving, Awake, Change
  <2>2. jobs[k].next + 1 \in Nat /\ jobs[k].next + 1 # 0 BY <1>0
  <2>3. job \in Jobs /\ job.doc = jobs[k].doc /\ job.asleep = jobs[k].asleep
        /\ job.next = jobs[k].next + 1
    BY <1>0, <1>1, <2>2 DEF Jobs
  <2>4. Good(job) BY <2>1, <2>2, <2>3 DEF TaskOK
  <2> QED BY <1>2, <2>4
<1> QED BY <1>3, <1>4, <1>6, <1>7, <1>8 DEF Task

(* What a step of a task does to the files.                                *)
LEMMA TaskFiles ==
  ASSUME TypeOK, TasksOK, NEW k \in 1..Len(jobs), Task(k)
  PROVE  \/ UNCHANGED disk
         \/ \E n \in DocImgs \cap dir : /\ dir' = dir \ {n}
                                        /\ broken' = broken \cup {n}
                                        /\ writing' = writing
<1>1. CASE Move(k)
  <2> DEFINE i == jobs[k].next
             n == jobs[k].doc[i]
  <2>1. /\ n \in dir /\ dir' = dir \ {n} /\ broken' = broken \cup {n}
        /\ writing' = writing /\ i <= Len(jobs[k].doc)
    BY <1>1 DEF Move, Moving
  <2>2. jobs[k].doc \in Seq(Valid) /\ i \in Nat BY JobFacts
  <2>3. i \in 1..Len(jobs[k].doc) BY <2>1, <2>2 DEF TasksOK, TaskOK
  <2>4. n \in Range(jobs[k].doc) /\ n \in Valid BY <2>2, <2>3 DEF Range
  <2>5. n \in DocImgs \cap dir BY <2>1, <2>4 DEF DocImgs
  <2> QED BY <2>1, <2>5
<1> QED BY <1>1 DEF Task, IOException, Wake, Save, SaveGivesUp, SaveThrows,
                    MoveGivesUp, MoveThrows, MoveDone, disk

-----------------------------------------------------------------------------
(* CreateDoc and ProcNewImg.                                               *)
LEMMA Closing ==
  ASSUME TypeOK, TasksOK, CreatePdf
  PROVE  jobs' \in Seq(Jobs) /\ TasksOK' /\ DocImgs' = DocImgs \cup Range(imgs)
<1>0. jobs \in Seq(Jobs) /\ imgs \in Seq(Valid) BY DEF TypeOK
<1>1. CASE imgs = << >>
  <2>1. jobs' = jobs BY <1>1 DEF CreatePdf
  <2> QED BY <1>0, <1>1, <2>1, EmptyRange DEF TasksOK, DocImgs
<1>2. CASE imgs # << >>
  <2> DEFINE job == [doc |-> imgs, phase |-> "saving", attempt |-> 0,
                     asleep |-> FALSE, next |-> 1]
  <2>1. job \in Jobs BY <1>0, ServiceAssumption DEF Jobs
  <2>2. job.doc = imgs /\ TaskOK(job) BY DEF TaskOK
  <2>3. jobs' = Append(jobs, job) BY <1>2 DEF CreatePdf
  <2> HIDE DEF job, Jobs
  <2>4. /\ jobs' \in Seq(Jobs) /\ Len(jobs) \in Nat /\ Len(jobs') = Len(jobs) + 1
        /\ \A k \in 1..Len(jobs) : jobs'[k] = jobs[k]
        /\ jobs'[Len(jobs) + 1] = job
    BY <1>0, <2>1, <2>3, AppendProperties
  <2>5. \A k \in 1..Len(jobs') : k \in 1..Len(jobs) \/ k = Len(jobs) + 1
    BY <2>4
  <2>6. Len(jobs) + 1 \in 1..Len(jobs') /\ 1..Len(jobs) \subseteq 1..Len(jobs')
    BY <2>4
  <2>7. TasksOK' BY <2>2, <2>4, <2>5 DEF TasksOK
  <2>8. Range(imgs) \subseteq Valid BY <1>0, RangeType
  <2>9. DocImgs' \subseteq DocImgs \cup Range(imgs)
    BY <2>2, <2>4, <2>5 DEF DocImgs
  <2>10. DocImgs \cup Range(imgs) \subseteq DocImgs'
    <3>1. DocImgs \subseteq DocImgs' BY <2>4, <2>6 DEF DocImgs
    <3>2. Range(imgs) \subseteq DocImgs' BY <2>2, <2>4, <2>6, <2>8 DEF DocImgs
    <3> QED BY <3>1, <3>2
  <2> QED BY <2>4, <2>7, <2>9, <2>10
<1> QED BY <1>1, <1>2

LEMMA Accepting ==
  ASSUME TypeOK, NEW n \in Valid, NEW by \in {"scan", "event"}, AddImg(n, by)
  PROVE  /\ prevImg' \in Valid \cup {None} /\ elapsed' \in Nat
         /\ taken' \in Seq(TakenRecord)
         /\ ByEvent \subseteq ByEvent'
         /\ by = "event" => n \in ByEvent'
<1> DEFINE r == [img |-> n, by |-> by]
<1>1. taken \in Seq(TakenRecord) BY DEF TypeOK, TakenRecord
<1>2. r \in TakenRecord /\ r.img = n /\ r.by = by BY DEF TakenRecord
<1>3. taken' = Append(taken, r) /\ prevImg' = n /\ elapsed' = 0 BY DEF AddImg
<1> HIDE DEF r, TakenRecord
<1>4. /\ taken' \in Seq(TakenRecord) /\ Len(taken) \in Nat
      /\ Len(taken') = Len(taken) + 1
      /\ \A j \in 1..Len(taken) : taken'[j] = taken[j]
      /\ taken'[Len(taken) + 1] = r
  BY <1>1, <1>2, <1>3, AppendProperties
<1>5. Len(taken) + 1 \in 1..Len(taken') /\ 1..Len(taken) \subseteq 1..Len(taken')
  BY <1>4
<1>6. ByEvent \subseteq ByEvent' BY <1>4, <1>5 DEF ByEvent
<1>7. by = "event" => n \in ByEvent' BY <1>2, <1>4, <1>5 DEF ByEvent
<1> QED BY <1>3, <1>4, <1>6, <1>7

(* Where the images are after a report of n has been handled.              *)
Placed(n, by) ==
  /\ Range(imgs') \subseteq Range(imgs) \cup {n}
  /\ DocImgs \subseteq DocImgs' /\ DocImgs' \subseteq DocImgs \cup Range(imgs)
  /\ Range(imgs) \subseteq Range(imgs') \cup DocImgs'
  /\ Range(imgs') \cap DocImgs' = {}
  /\ DocImgs' \subseteq (dir \cup broken) \ writing
  /\ ByEvent \subseteq ByEvent'
  /\ n \in Valid => n \in Range(imgs') /\ (by = "event" => n \in ByEvent')

LEMMA Processing ==
  ASSUME TypeOK, TasksOK, PlacesOK, FilesOK,
         NEW n \in dir, n \notin Range(imgs) \cup DocImgs,
         NEW by \in {"scan", "event"}, ProcNewImg(n, by)
  PROVE  /\ prevImg' \in Valid \cup {None} /\ imgs' \in Seq(Valid)
         /\ elapsed' \in Nat /\ jobs' \in Seq(Jobs)
         /\ taken' \in Seq(TakenRecord)
         /\ TasksOK' /\ Placed(n, by)
<1>0. /\ jobs \in Seq(Jobs) /\ imgs \in Seq(Valid) /\ taken \in Seq(TakenRecord)
      /\ prevImg \in Valid \cup {None} /\ elapsed \in Nat
  BY DEF TypeOK, TakenRecord
<1>1. Range(imgs) \cap DocImgs = {} /\ DocImgs \subseteq (dir \cup broken) \ writing
  BY DEF PlacesOK, FilesOK
<1>2. CASE ProcIgnored(n)
  <2>1. n \notin Valid /\ UNCHANGED <<prevImg, imgs, taken, elapsed, jobs>>
    BY <1>2 DEF ProcIgnored, Validate, batch
  <2>2. DocImgs' = DocImgs /\ ByEvent' = ByEvent BY <2>1 DEF DocImgs, ByEvent
  <2>3. TasksOK' BY <2>1 DEF TasksOK
  <2>4. Placed(n, by) BY <1>1, <2>1, <2>2 DEF Placed
  <2> QED BY <1>0, <2>1, <2>3, <2>4
<1>3. CASE ProcExtends(n, by)
  <2>1. /\ n \in Valid /\ AddImg(n, by) /\ imgs' = Append(imgs, n) /\ jobs' = jobs
    BY <1>3 DEF ProcExtends, Validate
  <2>2. Range(imgs') = Range(imgs) \cup {n} BY <1>0, <2>1, RangeAppend
  <2>3. imgs' \in Seq(Valid) BY <1>0, <2>1
  <2>4. DocImgs' = DocImgs BY <2>1 DEF DocImgs
  <2>5. TasksOK' BY <2>1 DEF TasksOK
  <2>6. /\ prevImg' \in Valid \cup {None} /\ elapsed' \in Nat
        /\ taken' \in Seq(TakenRecord) /\ ByEvent \subseteq ByEvent'
        /\ by = "event" => n \in ByEvent'
    BY <2>1, Accepting
  <2>7. Placed(n, by) BY <1>1, <2>2, <2>4, <2>6 DEF Placed
  <2> QED BY <1>0, <2>1, <2>3, <2>5, <2>6, <2>7
<1>4. CASE ProcCuts(n, by)
  <2>1. /\ n \in Valid /\ AddImg(n, by) /\ imgs' = <<n>> /\ CreatePdf
        /\ Range(imgs) \subseteq dir \ writing
    BY <1>4 DEF ProcCuts, Validate, Readable
  <2>2. Range(imgs') = {n} /\ imgs' \in Seq(Valid) BY <2>1, OneRange
  <2>3. jobs' \in Seq(Jobs) /\ TasksOK' /\ DocImgs' = DocImgs \cup Range(imgs)
    BY <2>1, Closing
  <2>4. /\ prevImg' \in Valid \cup {None} /\ elapsed' \in Nat
        /\ taken' \in Seq(TakenRecord) /\ ByEvent \subseteq ByEvent'
        /\ by = "event" => n \in ByEvent'
    BY <2>1, Accepting
  <2>5. Placed(n, by) BY <1>1, <2>1, <2>2, <2>3, <2>4 DEF Placed
  <2> QED BY <2>2, <2>3, <2>4, <2>5
<1> QED BY <1>2, <1>3, <1>4 DEF ProcNewImg
-----------------------------------------------------------------------------
(* Every step keeps the invariant.                                         *)
LEMMA ServiceInit == Init => ServiceInv
<1> SUFFICES ASSUME Init PROVE ServiceInv OBVIOUS
<1>1. /\ pc = "down" /\ scan = << >> /\ events = << >> /\ imgs = << >>
      /\ jobs = << >> /\ taken = << >> /\ watching = FALSE
      /\ dir \subseteq Images /\ writing = {} /\ broken = {} /\ missed = {}
      /\ prevImg = None /\ elapsed = 0 /\ launches = 0
  BY DEF Init
<1>2. TypeOK
  <2>1. /\ scan \in Seq(Images) /\ events \in Seq(Images) /\ imgs \in Seq(Valid)
        /\ jobs \in Seq(Jobs)
        /\ taken \in Seq([img : Valid, by : {"scan", "event"}])
    BY <1>1, Empty
  <2> HIDE DEF Jobs
  <2> QED BY <1>1, <2>1 DEF TypeOK
<1>3. Range(scan) = {} /\ Range(events) = {} /\ Range(imgs) = {} /\ 1..Len(jobs) = {}
  BY <1>1, EmptyRange
<1>4. DocImgs = {} BY <1>3 DEF DocImgs
<1>5. PlacesOK BY <1>1, <1>3, <1>4, EmptyRange DEF PlacesOK
<1>6. FilesOK BY <1>3, <1>4 DEF FilesOK
<1>7. TasksOK BY <1>3 DEF TasksOK
<1>8. PhasesOK /\ Accounted BY <1>1 DEF PhasesOK, Accounted
<1> QED BY <1>2, <1>5, <1>6, <1>7, <1>8 DEF ServiceInv

(* The end of a process, and the start of one: nothing of it is left.      *)
LEMMA DieOK ==
  ASSUME ServiceInv, NEW end \in {"down", "crashed"}, Die(end)
  PROVE  ServiceInv'
<1>1. /\ pc' = end /\ scan' = << >> /\ events' = << >> /\ imgs' = << >>
      /\ jobs' = << >> /\ taken' = << >> /\ watching' = FALSE /\ missed' = {}
      /\ prevImg' = None /\ elapsed' = 0 /\ launches' = launches
      /\ dir' = dir /\ writing' = writing /\ broken' = broken
  BY DEF Die, disk
<1>2. TypeOK'
  <2>1. /\ scan' \in Seq(Images) /\ events' \in Seq(Images) /\ imgs' \in Seq(Valid)
        /\ jobs' \in Seq(Jobs)
        /\ taken' \in Seq([img : Valid, by : {"scan", "event"}])
    BY <1>1, Empty
  <2> HIDE DEF Jobs
  <2> QED BY <1>1, <2>1 DEF TypeOK, ServiceInv
<1>3. Range(scan') = {} /\ Range(events') = {} /\ Range(imgs') = {} /\ 1..Len(jobs') = {}
  BY <1>1, EmptyRange
<1>4. DocImgs' = {} BY <1>3 DEF DocImgs
<1>5. PlacesOK' BY <1>1, <1>3, <1>4, EmptyRange DEF PlacesOK
<1>6. FilesOK' BY <1>3, <1>4 DEF FilesOK
<1>7. TasksOK' BY <1>3 DEF TasksOK
<1>8. PhasesOK' /\ Accounted' BY <1>1 DEF PhasesOK, Accounted
<1> QED BY <1>2, <1>5, <1>6, <1>7, <1>8 DEF ServiceInv

(* What stays when neither files, nor queues, nor documents change.        *)
LEMMA SameBatch ==
  ASSUME UNCHANGED <<disk, scan, events, imgs, jobs, taken>>
  PROVE  /\ DocImgs' = DocImgs /\ ByEvent' = ByEvent
         /\ PlacesOK => PlacesOK'
         /\ FilesOK => FilesOK'
         /\ TasksOK => TasksOK'
<1>1. DocImgs' = DocImgs /\ ByEvent' = ByEvent BY DEF DocImgs, ByEvent
<1> QED BY <1>1 DEF PlacesOK, FilesOK, TasksOK, disk

LEMMA LaunchOK ==
  ASSUME ServiceInv, Launch PROVE ServiceInv'
<1> USE DEF ServiceInv
<1>1. /\ ~Up /\ pc' = "new" /\ launches' = launches + 1
      /\ UNCHANGED <<disk, scan, watch, batch, jobs>>
  BY DEF Launch
<1>2. TypeOK' BY <1>1 DEF TypeOK, disk, watch, batch
<1>3. PhasesOK' BY <1>1 DEF PhasesOK, Up, watch, batch
<1>4. PlacesOK' /\ FilesOK' /\ TasksOK'
  BY <1>1, SameBatch DEF watch, batch
<1>5. Accounted' BY <1>1 DEF Accounted
<1> QED BY <1>2, <1>3, <1>4, <1>5

(* Start begins: all files of the directory are in the scan.               *)
LEMMA StartScanOK ==
  ASSUME ServiceInv, StartScan PROVE ServiceInv'
<1> USE DEF ServiceInv
<1>1. /\ pc = "new" /\ pc' = "scanning" /\ scan' \in SetToSeqs(dir)
      /\ prevImg' = None /\ imgs' = << >>
      /\ UNCHANGED <<disk, watch, taken, elapsed, launches, jobs>>
  BY DEF StartScan
<1>2. scan' \in Seq(Images) /\ Range(scan') = dir /\ IsInjective(scan')
  BY <1>1, ScanType, ScanRange DEF TypeOK
<1>3. TypeOK'
  <2>1. imgs' \in Seq(Valid) BY <1>1, Empty
  <2> HIDE DEF Jobs
  <2> QED BY <1>1, <1>2, <2>1 DEF TypeOK, disk, watch
<1>4. events = << >> /\ jobs = << >> /\ ~watching BY <1>1 DEF PhasesOK
<1>5. PhasesOK' BY <1>1, <1>4 DEF PhasesOK, Up, watch
<1>6. Range(events') = {} /\ Range(imgs') = {} /\ 1..Len(jobs') = {}
      /\ IsInjective(events')
  BY <1>1, <1>4, EmptyRange DEF watch
<1>7. DocImgs' = {} BY <1>6 DEF DocImgs
<1>8. PlacesOK' BY <1>2, <1>6, <1>7 DEF PlacesOK
<1>9. FilesOK' BY <1>1, <1>2, <1>6, <1>7 DEF FilesOK, disk
<1>10. TasksOK' BY <1>6 DEF TasksOK
<1>11. Accounted' BY <1>1, <1>2 DEF Accounted, disk
<1> QED BY <1>3, <1>5, <1>8, <1>9, <1>10, <1>11

(* A report is handled, of the scan or of the watcher.                     *)
LEMMA ScanNextOK ==
  ASSUME ServiceInv, ScanNext PROVE ServiceInv'
<1> USE DEF ServiceInv
<1> DEFINE n == Head(scan)
<1>1. /\ pc = "scanning" /\ scan # << >> /\ ProcNewImg(n, "scan")
      /\ scan' = Tail(scan) /\ UNCHANGED <<disk, pc, watch, launches>>
  BY DEF ScanNext
<1>2. /\ n \in Range(scan) /\ Range(scan') = Range(scan) \ {n}
      /\ IsInjective(scan') /\ scan' \in Seq(Images)
  <2>1. scan \in Seq(Images) /\ IsInjective(scan) BY DEF TypeOK, PlacesOK
  <2>2. Tail(scan) \in Seq(Images) BY <1>1, <2>1
  <2> HIDE DEF n
  <2> QED BY <1>1, <2>1, <2>2, TailRange DEF n
<1>3. n \in dir /\ n \notin Range(imgs) \cup DocImgs
  BY <1>2 DEF FilesOK, PlacesOK
<1>4. /\ prevImg' \in Valid \cup {None} /\ imgs' \in Seq(Valid)
      /\ elapsed' \in Nat /\ jobs' \in Seq(Jobs)
      /\ taken' \in Seq(TakenRecord) /\ TasksOK' /\ Placed(n, "scan")
  BY <1>1, <1>3, Processing
<1> HIDE DEF n, Jobs
<1>5. events = << >> /\ ~watching BY <1>1 DEF PhasesOK
<1>6. TypeOK' BY <1>1, <1>2, <1>4 DEF TypeOK, TakenRecord, disk, watch
<1>7. PhasesOK' BY <1>1, <1>5 DEF PhasesOK, Up, watch
<1>8. Range(events') = {} /\ IsInjective(events')
  BY <1>1, <1>5, EmptyRange DEF watch
<1>9. PlacesOK' BY <1>2, <1>4, <1>8 DEF PlacesOK, Placed
<1>10. FilesOK' BY <1>1, <1>2, <1>4, <1>8 DEF FilesOK, Placed, disk
<1>11. Accounted'
  <2> SUFFICES ASSUME NEW m \in dir \cap Valid
               PROVE  m \in Range(scan') \cup Range(events') \cup DocImgs' \cup missed'
                              \cup ByEvent' \cup Range(imgs')
    BY <1>1 DEF Accounted, disk
  <2>1. m \in Range(scan) \cup Range(events) \cup DocImgs \cup missed \cup ByEvent
                \cup Range(imgs)
    BY <1>1 DEF Accounted
  <2>2. Range(events) = {} /\ missed' = missed BY <1>1, <1>5, EmptyRange DEF watch
  <2> QED BY <1>2, <1>4, <2>1, <2>2 DEF Placed
<1> QED BY <1>4, <1>6, <1>7, <1>9, <1>10, <1>11

LEMMA OnCreatedOK ==
  ASSUME ServiceInv, WatcherOnCreated PROVE ServiceInv'
<1> USE DEF ServiceInv
<1> DEFINE n == Head(events)
<1>1. /\ watching /\ events # << >> /\ ProcNewImg(n, "event")
      /\ events' = Tail(events)
      /\ UNCHANGED <<disk, pc, scan, watching, missed, launches>>
  BY DEF WatcherOnCreated
<1>2. /\ n \in Range(events) /\ Range(events') = Range(events) \ {n}
      /\ IsInjective(events') /\ events' \in Seq(Images)
  <2>1. events \in Seq(Images) /\ IsInjective(events) BY DEF TypeOK, PlacesOK
  <2>2. Tail(events) \in Seq(Images) BY <1>1, <2>1
  <2> HIDE DEF n
  <2> QED BY <1>1, <2>1, <2>2, TailRange DEF n
<1>3. n \in dir /\ n \notin Range(imgs) \cup DocImgs
  BY <1>2 DEF FilesOK, PlacesOK
<1>4. /\ prevImg' \in Valid \cup {None} /\ imgs' \in Seq(Valid)
      /\ elapsed' \in Nat /\ jobs' \in Seq(Jobs)
      /\ taken' \in Seq(TakenRecord) /\ TasksOK' /\ Placed(n, "event")
  BY <1>1, <1>3, Processing
<1> HIDE DEF n, Jobs
<1>5. pc \in {"enabled", "started"} /\ scan = << >> BY <1>1 DEF PhasesOK
<1>6. TypeOK' BY <1>1, <1>2, <1>4 DEF TypeOK, TakenRecord, disk
<1>7. PhasesOK' BY <1>1, <1>5 DEF PhasesOK, Up
<1>8. Range(scan') = {} /\ IsInjective(scan')
  BY <1>1, <1>5, EmptyRange
<1>9. PlacesOK' BY <1>2, <1>4, <1>8 DEF PlacesOK, Placed
<1>10. FilesOK' BY <1>1, <1>2, <1>4, <1>8 DEF FilesOK, Placed, disk
<1>11. Accounted'
  <2> SUFFICES ASSUME NEW m \in dir \cap Valid
               PROVE  m \in Range(scan') \cup Range(events') \cup DocImgs' \cup missed'
                              \cup ByEvent'
    BY <1>1 DEF Accounted, disk
  <2>1. m \in Range(scan) \cup Range(events) \cup DocImgs \cup missed \cup ByEvent
    BY <1>5 DEF Accounted
  <2>2. Range(scan) = {} /\ missed' = missed BY <1>1, <1>5, EmptyRange
  <2>3. m = n => m \in ByEvent' BY <1>4 DEF Placed
  <2> QED BY <1>2, <1>4, <2>1, <2>2, <2>3 DEF Placed
<1> QED BY <1>4, <1>6, <1>7, <1>9, <1>10, <1>11

(* The scan ends: what it collected is a document.                         *)
LEMMA ScanDoneOK ==
  ASSUME ServiceInv, ScanDone PROVE ServiceInv'
<1> USE DEF ServiceInv
<1>1. /\ pc = "scanning" /\ scan = << >> /\ pc' = "enabling" /\ imgs' = << >>
      /\ CreatePdf /\ Range(imgs) \subseteq dir \ writing
      /\ UNCHANGED <<disk, scan, watch, prevImg, taken, elapsed, launches>>
  BY DEF ScanDone, Readable
<1>2. jobs' \in Seq(Jobs) /\ TasksOK' /\ DocImgs' = DocImgs \cup Range(imgs)
  BY <1>1, Closing
<1> HIDE DEF Jobs
<1>3. TypeOK'
  <2>1. imgs' \in Seq(Valid) BY <1>1, Empty
  <2> QED BY <1>1, <1>2, <2>1 DEF TypeOK, disk, watch
<1>4. events = << >> /\ ~watching BY <1>1 DEF PhasesOK
<1>5. PhasesOK' BY <1>1, <1>4 DEF PhasesOK, Up, watch
<1>6. Range(scan') = {} /\ Range(events') = {} /\ Range(imgs') = {}
      /\ IsInjective(scan') /\ IsInjective(events')
  BY <1>1, <1>4, EmptyRange DEF watch
<1>7. PlacesOK' BY <1>6 DEF PlacesOK
<1>8. FilesOK' BY <1>1, <1>2, <1>6 DEF FilesOK, disk
<1>9. ByEvent' = ByEvent BY <1>1 DEF ByEvent
<1>10. Accounted'
  <2>1. Range(scan) = {} /\ Range(events) = {} BY <1>1, <1>4, EmptyRange
  <2>2. \A m \in dir \cap Valid :
          m \in Range(scan) \cup Range(events) \cup DocImgs \cup missed \cup ByEvent
                \cup Range(imgs)
    BY <1>1 DEF Accounted
  <2> QED BY <1>1, <1>2, <1>9, <2>1, <2>2 DEF Accounted, disk, watch
<1> QED BY <1>2, <1>3, <1>5, <1>7, <1>8, <1>10

(* The watcher is switched on, Start returns, and Stop switches it off.    *)
LEMMA EnableOK ==
  ASSUME ServiceInv, Enable \/ StartDone PROVE ServiceInv'
<1> USE DEF ServiceInv
<1>1. /\ pc \in {"enabling", "enabled"} /\ pc' \in {"enabled", "started"}
      /\ watching' = TRUE
      /\ UNCHANGED <<disk, scan, events, missed, prevImg, imgs, taken, launches, jobs>>
      /\ elapsed' \in Nat
  BY DEF Enable, StartDone, PhasesOK, TypeOK, batch, watch
<1> HIDE DEF Jobs
<1>2. TypeOK' BY <1>1 DEF TypeOK, disk
<1>3. PhasesOK' BY <1>1 DEF PhasesOK, Up
<1>4. PlacesOK' /\ FilesOK' /\ TasksOK' /\ DocImgs' = DocImgs /\ ByEvent' = ByEvent
  BY <1>1, SameBatch
<1>5. Accounted' BY <1>1, <1>4 DEF Accounted, disk
<1> QED BY <1>2, <1>3, <1>4, <1>5

LEMMA StopOK ==
  ASSUME ServiceInv, Stop PROVE ServiceInv'
<1> USE DEF ServiceInv
<1>1. /\ pc = "started" /\ pc' = "stopped" /\ watching' = FALSE /\ events' = << >>
      /\ UNCHANGED <<disk, scan, missed, batch, launches, jobs>>
  BY DEF Stop
<1> HIDE DEF Jobs
<1>2. TypeOK'
  <2>1. events' \in Seq(Images) BY <1>1, Empty
  <2> QED BY <1>1, <2>1 DEF TypeOK, disk, batch
<1>3. PhasesOK' BY <1>1 DEF PhasesOK, Up, batch
<1>4. DocImgs' = DocImgs BY <1>1 DEF DocImgs
<1>5. Range(events') = {} /\ IsInjective(events') BY <1>1, EmptyRange
<1>6. PlacesOK' BY <1>1, <1>4, <1>5 DEF PlacesOK, batch
<1>7. FilesOK' BY <1>1, <1>4, <1>5 DEF FilesOK, disk, batch
<1>8. TasksOK' BY <1>1 DEF TasksOK
<1>9. Accounted' BY <1>1 DEF Accounted
<1> QED BY <1>2, <1>3, <1>6, <1>7, <1>8, <1>9

(* A task goes on, and may move an image of its own document.              *)
LEMMA TaskStepOK ==
  ASSUME ServiceInv, NEW k \in 1..Len(jobs), Task(k) PROVE ServiceInv'
<1> USE DEF ServiceInv
<1>1. /\ Up /\ UNCHANGED <<pc, scan, watch, batch, launches>>
      /\ \E job \in Jobs : /\ jobs' = [jobs EXCEPT ![k] = job]
                           /\ job.doc = jobs[k].doc
                           /\ TaskOK(job)
  BY TaskJob
<1>2. PICK job \in Jobs : /\ jobs' = [jobs EXCEPT ![k] = job]
                          /\ job.doc = jobs[k].doc
                          /\ TaskOK(job)
  BY <1>1
<1>3. jobs' \in Seq(Jobs) /\ Len(jobs') = Len(jobs) /\ TasksOK' /\ DocImgs' = DocImgs
  BY <1>2, JobChange
<1> HIDE DEF Jobs
<1>4. ByEvent' = ByEvent BY <1>1 DEF ByEvent, batch
<1>5. PhasesOK'
  <2>1. jobs # << >> BY <1>3 DEF TypeOK
  <2>2. Up' /\ pc' # "new" BY <1>1, <2>1 DEF PhasesOK, Up
  <2> QED BY <1>1, <2>2 DEF PhasesOK, watch
<1>6. PlacesOK' BY <1>1, <1>3 DEF PlacesOK, watch, batch
<1>7. \/ UNCHANGED disk
      \/ \E n \in DocImgs \cap dir : /\ dir' = dir \ {n}
                                     /\ broken' = broken \cup {n}
                                     /\ writing' = writing
  BY TaskFiles
<1>8. CASE UNCHANGED disk
  <2>1. TypeOK' BY <1>1, <1>3, <1>8 DEF TypeOK, disk, watch, batch
  <2>2. FilesOK' BY <1>1, <1>3, <1>8 DEF FilesOK, disk, watch, batch
  <2>3. Accounted' BY <1>1, <1>3, <1>4, <1>8 DEF Accounted, disk, watch, batch
  <2> QED BY <1>3, <1>5, <1>6, <2>1, <2>2, <2>3
<1>9. ASSUME NEW n \in DocImgs \cap dir,
             dir' = dir \ {n}, broken' = broken \cup {n}, writing' = writing
      PROVE  ServiceInv'
  <2>1. n \notin writing BY <1>9 DEF FilesOK
  <2>2. n \in Images BY <1>9 DEF TypeOK
  <2>3. TypeOK' BY <1>1, <1>3, <1>9, <2>1, <2>2 DEF TypeOK, watch, batch
  <2>4. n \notin Range(scan) \cup Range(events) \cup Range(imgs)
    BY <1>9 DEF PlacesOK
  <2>5. FilesOK' BY <1>1, <1>3, <1>9, <2>4 DEF FilesOK, watch, batch
  <2>6. Accounted' BY <1>1, <1>3, <1>4, <1>9 DEF Accounted, watch, batch
  <2> QED BY <1>3, <1>5, <1>6, <2>3, <2>5, <2>6
<1> QED BY <1>7, <1>8, <1>9

(* Files, their writers and the clock.                                     *)
LEMMA CreateFileOK ==
  ASSUME ServiceInv, NEW n \in Images, CreateFile(n) PROVE ServiceInv'
<1> USE DEF ServiceInv
<1> HIDE DEF Jobs
<1>1. /\ n \notin dir \cup broken /\ dir' = dir \cup {n}
      /\ writing' = writing \cup {n} /\ broken' = broken
      /\ events' = IF watching THEN Append(events, n) ELSE events
      /\ missed' = IF ~watching /\ pc \in {"scanning", "enabling"}
                   THEN missed \cup {n} ELSE missed
      /\ UNCHANGED <<pc, scan, watching, batch, launches, jobs>>
  BY DEF CreateFile
<1>2. n \notin Range(events) \cup Range(scan) \cup Range(imgs) \cup DocImgs
  BY <1>1 DEF FilesOK
<1>3. /\ events' \in Seq(Images) /\ IsInjective(events')
      /\ Range(events') = Range(events) \cup (IF watching THEN {n} ELSE {})
  <2>1. events \in Seq(Images) /\ IsInjective(events) /\ n \notin Range(events)
    BY <1>2 DEF TypeOK, PlacesOK
  <2>2. CASE watching
    <3>1. events' = Append(events, n) BY <1>1, <2>2
    <3>2. events' \in Seq(Images) BY <2>1, <3>1
    <3> QED BY <2>1, <2>2, <3>1, <3>2, RangeAppend, AppendFresh
  <2>3. CASE ~watching BY <1>1, <2>1, <2>3
  <2> QED BY <2>2, <2>3
<1>4. DocImgs' = DocImgs /\ ByEvent' = ByEvent BY <1>1 DEF DocImgs, ByEvent, batch
<1>5. TypeOK' BY <1>1, <1>3 DEF TypeOK, batch
<1>6. PhasesOK' BY <1>1 DEF PhasesOK, Up, batch
<1>7. PlacesOK' BY <1>1, <1>2, <1>3, <1>4 DEF PlacesOK, batch
<1>8. FilesOK' BY <1>1, <1>2, <1>3, <1>4 DEF FilesOK, batch
<1>9. TasksOK' BY <1>1 DEF TasksOK
<1>10. Accounted'
  <2>1. pc \in {"enabled", "started"} => watching BY DEF PhasesOK
  <2> QED BY <1>1, <1>3, <1>4, <2>1 DEF Accounted, batch
<1> QED BY <1>5, <1>6, <1>7, <1>8, <1>9, <1>10

LEMMA WorldOK ==
  ASSUME ServiceInv,
         \/ \E n \in Images : FinishFile(n)
         \/ \E d \in Ticks : Tick(d)
         \/ UNCHANGED vars
  PROVE  ServiceInv'
<1> USE DEF ServiceInv
<1> HIDE DEF Jobs
<1>1. /\ dir' = dir /\ broken' = broken /\ writing' \subseteq writing
      /\ UNCHANGED <<pc, scan, watch, prevImg, imgs, taken, launches, jobs>>
      /\ elapsed' \in Nat
  <2>1. CASE \E n \in Images : FinishFile(n)
    BY <2>1 DEF FinishFile, TypeOK, batch
  <2>2. CASE \E d \in Ticks : Tick(d)
    BY <2>2, ServiceAssumption DEF Tick, TypeOK, disk
  <2>3. CASE UNCHANGED vars BY <2>3 DEF vars, TypeOK, disk, batch
  <2> QED BY <2>1, <2>2, <2>3
<1>2. DocImgs' = DocImgs /\ ByEvent' = ByEvent BY <1>1 DEF DocImgs, ByEvent
<1>3. TypeOK' BY <1>1 DEF TypeOK, watch
<1>4. PhasesOK' BY <1>1 DEF PhasesOK, Up, watch
<1>5. PlacesOK' BY <1>1, <1>2 DEF PlacesOK, watch
<1>6. FilesOK' BY <1>1, <1>2 DEF FilesOK, watch
<1>7. TasksOK' BY <1>1 DEF TasksOK
<1>8. Accounted' BY <1>1, <1>2 DEF Accounted, watch
<1> QED BY <1>3, <1>4, <1>5, <1>6, <1>7, <1>8

LEMMA ServiceNext == ServiceInv /\ [Next]_vars => ServiceInv'
<1> SUFFICES ASSUME ServiceInv, [Next]_vars PROVE ServiceInv' OBVIOUS
<1>1. CASE Launch BY <1>1, LaunchOK
<1>2. CASE Exit \/ ScanThrows \/ WatcherThrows
  BY <1>2, DieOK DEF Exit, ScanThrows, WatcherThrows
<1>3. CASE StartScan BY <1>3, StartScanOK
<1>4. CASE ScanNext BY <1>4, ScanNextOK
<1>5. CASE ScanDone BY <1>5, ScanDoneOK
<1>6. CASE Enable \/ StartDone BY <1>6, EnableOK
<1>7. CASE Stop BY <1>7, StopOK
<1>8. CASE WatcherOnCreated BY <1>8, OnCreatedOK
<1>9. ASSUME NEW k \in 1..Len(jobs), Task(k) PROVE ServiceInv'
  BY <1>9, TaskStepOK
<1>10. ASSUME NEW n \in Images, CreateFile(n) PROVE ServiceInv'
  BY <1>10, CreateFileOK
<1>11. CASE (\E n \in Images : FinishFile(n)) \/ (\E d \in Ticks : Tick(d))
            \/ UNCHANGED vars
  BY <1>11, WorldOK
<1> QED BY <1>1, <1>2, <1>3, <1>4, <1>5, <1>6, <1>7, <1>8, <1>9, <1>10, <1>11
        DEF Next, Start

LEMMA ServiceAlways == Spec => []ServiceInv
  BY ServiceInit, ServiceNext, PTL DEF Spec
-----------------------------------------------------------------------------
(* Every variable keeps its type: a file is in one directory at most, and  *)
(* the retries of a task stay within Attempts.                             *)
THEOREM ServiceTypeCorrect == Spec => []TypeOK
<1>1. ServiceInv => TypeOK BY DEF ServiceInv
<1> QED BY ServiceAlways, <1>1, PTL

(* No task takes an image away that another document still waits for.      *)
THEOREM CollectedStay == Spec => []CollectedAreThere
<1>1. ServiceInv => CollectedAreThere
  BY DEF ServiceInv, FilesOK, CollectedAreThere
<1> QED BY ServiceAlways, <1>1, PTL

(* When Start has returned every valid file is in a document, reported by  *)
(* an event, or appeared between scan and watcher.                         *)
THEOREM StartTakesEvery == Spec => []StartTakesAll
<1>1. ServiceInv => StartTakesAll
  <2> SUFFICES ASSUME ServiceInv, pc = "started", NEW n \in dir \cap Valid
               PROVE  \/ \E k \in 1..Len(jobs) : n \in Range(jobs[k].doc)
                      \/ \E j \in 1..Len(taken) : taken[j].img = n /\ taken[j].by = "event"
                      \/ n \in Range(events) \/ n \in missed
    BY DEF StartTakesAll
  <2>1. scan = << >> BY DEF ServiceInv, PhasesOK
  <2>2. Range(scan) = {} BY <2>1, EmptyRange
  <2>3. n \in Range(events) \cup DocImgs \cup missed \cup ByEvent
    BY <2>2 DEF ServiceInv, Accounted
  <2> QED BY <2>3 DEF DocImgs, ByEvent
<1> QED BY ServiceAlways, <1>1, PTL
-----------------------------------------------------------------------------
(* The stream of documents.                                                *)
Closed == [k \in 1..Len(jobs) |-> jobs[k].doc]

(* A document handed over is appended to those that were.                  *)
LEMMA ClosedAppend ==
  ASSUME TypeOK, CreatePdf, imgs # << >>
  PROVE  Closed' = Append(Closed, imgs)
<1> DEFINE job == [doc |-> imgs, phase |-> "saving", attempt |-> 0,
                   asleep |-> FALSE, next |-> 1]
<1>1. jobs \in Seq(Jobs) /\ imgs \in Seq(Valid) BY DEF TypeOK
<1>2. job \in Jobs /\ job.doc = imgs BY <1>1, ServiceAssumption DEF Jobs
<1>3. jobs' = Append(jobs, job) BY DEF CreatePdf
<1> HIDE DEF job, Jobs
<1>4. /\ Len(jobs) \in Nat /\ Len(jobs') = Len(jobs) + 1
      /\ \A k \in 1..Len(jobs) : jobs'[k] = jobs[k]
      /\ jobs'[Len(jobs) + 1] = job
  BY <1>1, <1>2, <1>3, AppendProperties
<1>5. \A k \in 1..Len(jobs) : jobs[k].doc \in Seq(Valid) BY JobFacts
<1>6. Closed \in Seq(Seq(Valid)) /\ Len(Closed) = Len(jobs)
  BY <1>4, <1>5 DEF Closed
<1>7. /\ Closed' \in Seq(Seq(Valid)) /\ Len(Closed') = Len(Closed) + 1
      /\ \A k \in 1..Len(Closed) : Closed'[k] = Closed[k]
      /\ Closed'[Len(Closed) + 1] = imgs
  <2>1. Closed' = [k \in 1..Len(jobs) + 1 |-> jobs'[k].doc] BY <1>4 DEF Closed
  <2>2. \A k \in 1..Len(jobs) + 1 :
          jobs'[k].doc = IF k = Len(jobs) + 1 THEN imgs ELSE jobs[k].doc
    BY <1>2, <1>4
  <2>3. \A k \in 1..Len(jobs) + 1 : jobs'[k].doc \in Seq(Valid)
    BY <1>1, <1>4, <1>5, <2>2
  <2>4. Closed' \in Seq(Seq(Valid)) /\ Len(Closed') = Len(jobs) + 1
    BY <1>4, <2>1, <2>3
  <2>5. \A k \in 1..Len(jobs) : Closed[k] = jobs[k].doc BY DEF Closed
  <2> QED BY <1>4, <1>6, <2>1, <2>2, <2>4, <2>5
<1> QED BY <1>1, <1>6, <1>7, IsAppended

(* An image accepted is appended to those that were.                       *)
LEMMA TakenAppend ==
  ASSUME TypeOK, NEW n \in Valid, NEW by \in {"scan", "event"}, AddImg(n, by)
  PROVE  TakenImgs' = Append(TakenImgs, n)
<1> DEFINE r == [img |-> n, by |-> by]
<1>1. taken \in Seq(TakenRecord) BY DEF TypeOK, TakenRecord
<1>2. r \in TakenRecord /\ r.img = n BY DEF TakenRecord
<1>3. taken' = Append(taken, r) BY DEF AddImg
<1> HIDE DEF r, TakenRecord
<1>4. /\ Len(taken) \in Nat /\ Len(taken') = Len(taken) + 1
      /\ \A j \in 1..Len(taken) : taken'[j] = taken[j]
      /\ taken'[Len(taken) + 1] = r
      /\ \A j \in 1..Len(taken) : taken[j] \in TakenRecord
  BY <1>1, <1>2, <1>3, AppendProperties
<1>5. \A j \in 1..Len(taken) : taken[j].img \in Valid BY <1>4 DEF TakenRecord
<1>6. TakenImgs \in Seq(Valid) /\ Len(TakenImgs) = Len(taken)
  BY <1>4, <1>5 DEF TakenImgs
<1>7. /\ TakenImgs' \in Seq(Valid) /\ Len(TakenImgs') = Len(TakenImgs) + 1
      /\ \A j \in 1..Len(TakenImgs) : TakenImgs'[j] = TakenImgs[j]
      /\ TakenImgs'[Len(TakenImgs) + 1] = n
  <2>1. TakenImgs' = [j \in 1..Len(taken) + 1 |-> taken'[j].img]
    BY <1>4 DEF TakenImgs
  <2>2. \A j \in 1..Len(taken) + 1 :
          taken'[j].img = IF j = Len(taken) + 1 THEN n ELSE taken[j].img
    BY <1>2, <1>4
  <2>3. \A j \in 1..Len(taken) + 1 : taken'[j].img \in Valid
    BY <1>4, <1>5, <2>2
  <2>4. TakenImgs' \in Seq(Valid) /\ Len(TakenImgs') = Len(taken) + 1
    BY <1>4, <2>1, <2>3
  <2>5. \A j \in 1..Len(taken) : TakenImgs[j] = taken[j].img BY DEF TakenImgs
  <2> QED BY <1>4, <1>6, <2>1, <2>2, <2>4, <2>5
<1> QED BY <1>6, <1>7, IsAppended

(* The steps of the stream, in the terms of the service.                   *)
StreamStays   == UNCHANGED <<TakenImgs, Closed, imgs>>
StreamRestart == TakenImgs' = << >> /\ Closed' = << >> /\ imgs' = << >>

LEMMA StreamSteps ==
  /\ StreamStays => UNCHANGED Stream!vars
  /\ StreamRestart => Stream!Next
  /\ /\ imgs # << >> /\ imgs' = << >> /\ Closed' = Append(Closed, imgs)
     /\ UNCHANGED TakenImgs
     => Stream!Next
  /\ \A n \in Valid :
       /\ TakenImgs' = Append(TakenImgs, n)
       /\ \/ imgs' = Append(imgs, n) /\ UNCHANGED Closed
          \/ imgs # << >> /\ imgs' = <<n>> /\ Closed' = Append(Closed, imgs)
       => Stream!Next
BY DEF StreamStays, StreamRestart, Closed, Stream!vars, Stream!Next,
       Stream!NewSession, Stream!Flush, Stream!Extend, Stream!Cut

(* A report handled extends the open document, cuts it, or is ignored.     *)
LEMMA ProcessingStream ==
  ASSUME TypeOK, NEW n \in Images, NEW by \in {"scan", "event"}, ProcNewImg(n, by)
  PROVE  StreamStays \/ Stream!Next
<1>1. CASE ProcIgnored(n)
  BY <1>1 DEF ProcIgnored, batch, StreamStays, TakenImgs, Closed
<1>2. CASE ProcExtends(n, by)
  <2>1. n \in Valid /\ AddImg(n, by) /\ imgs' = Append(imgs, n) /\ jobs' = jobs
    BY <1>2 DEF ProcExtends, Validate
  <2>2. TakenImgs' = Append(TakenImgs, n) BY <2>1, TakenAppend
  <2>3. Closed' = Closed BY <2>1 DEF Closed
  <2> QED BY <2>1, <2>2, <2>3, StreamSteps
<1>3. CASE ProcCuts(n, by)
  <2>1. n \in Valid /\ AddImg(n, by) /\ CreatePdf /\ imgs' = <<n>>
    BY <1>3 DEF ProcCuts, Validate
  <2>2. TakenImgs' = Append(TakenImgs, n) BY <2>1, TakenAppend
  <2>3. CASE imgs = << >>
    <3>1. Closed' = Closed BY <2>1, <2>3 DEF CreatePdf, Closed
    <3>2. imgs' = Append(imgs, n) BY <2>1, <2>3
    <3> QED BY <2>1, <2>2, <3>1, <3>2, StreamSteps
  <2>4. CASE imgs # << >>
    <3>1. Closed' = Append(Closed, imgs) BY <2>1, <2>4, ClosedAppend
    <3> QED BY <2>1, <2>2, <2>4, <3>1, StreamSteps
  <2> QED BY <2>3, <2>4
<1> QED BY <1>1, <1>2, <1>3 DEF ProcNewImg

LEMMA StreamStep == ServiceInv /\ [Next]_vars => [Stream!Next]_(Stream!vars)
<1> SUFFICES ASSUME ServiceInv, [Next]_vars
             PROVE  [Stream!Next]_(Stream!vars)
  OBVIOUS
<1>0. SUFFICES StreamStays \/ Stream!Next BY StreamSteps
<1>1. TypeOK BY DEF ServiceInv
<1>2. ASSUME UNCHANGED <<imgs, taken, jobs>> PROVE StreamStays
  BY <1>2 DEF StreamStays, TakenImgs, Closed
<1>3. CASE Launch \/ Enable \/ StartDone \/ Stop \/ UNCHANGED vars
           \/ (\E n \in Images : CreateFile(n) \/ FinishFile(n))
           \/ (\E d \in Ticks : Tick(d))
  BY <1>2, <1>3 DEF Launch, Enable, StartDone, Stop, vars, CreateFile, FinishFile,
                    Tick, batch
<1>4. CASE StartScan
  <2>1. imgs = << >> BY <1>4 DEF StartScan, ServiceInv, PhasesOK
  <2> QED BY <1>2, <1>4, <2>1 DEF StartScan
<1>5. CASE Exit \/ ScanThrows \/ WatcherThrows
  <2>1. taken' = << >> /\ jobs' = << >> /\ imgs' = << >>
    BY <1>5 DEF Exit, ScanThrows, WatcherThrows, Die
  <2>2. TakenImgs' = << >> /\ Closed' = << >> BY <2>1 DEF TakenImgs, Closed
  <2> QED BY <2>1, <2>2, StreamSteps DEF StreamRestart
<1>6. CASE ScanNext
  <2>1. scan # << >> /\ scan \in Seq(Images) /\ ProcNewImg(Head(scan), "scan")
    BY <1>1, <1>6 DEF ScanNext, TypeOK
  <2>2. Head(scan) \in Images BY <2>1
  <2> QED BY <1>1, <2>1, <2>2, ProcessingStream
<1>7. CASE WatcherOnCreated
  <2>1. events # << >> /\ events \in Seq(Images) /\ ProcNewImg(Head(events), "event")
    BY <1>1, <1>7 DEF WatcherOnCreated, TypeOK
  <2>2. Head(events) \in Images BY <2>1
  <2> QED BY <1>1, <2>1, <2>2, ProcessingStream
<1>8. CASE ScanDone
  <2>1. CreatePdf /\ imgs' = << >> /\ taken' = taken BY <1>8 DEF ScanDone
  <2>2. TakenImgs' = TakenImgs BY <2>1 DEF TakenImgs
  <2>3. CASE imgs = << >>
    <3>1. jobs' = jobs BY <2>1, <2>3 DEF CreatePdf
    <3> QED BY <1>2, <2>1, <2>3, <3>1
  <2>4. CASE imgs # << >>
    <3>1. Closed' = Append(Closed, imgs) BY <1>1, <2>1, <2>4, ClosedAppend
    <3> QED BY <2>1, <2>2, <2>4, <3>1, StreamSteps
  <2> QED BY <2>3, <2>4
<1>9. ASSUME NEW k \in 1..Len(jobs), Task(k) PROVE StreamStays
  <2>1. /\ UNCHANGED batch
        /\ \E job \in Jobs : /\ jobs' = [jobs EXCEPT ![k] = job]
                             /\ job.doc = jobs[k].doc
                             /\ TaskOK(job)
    BY <1>9, TaskJob DEF ServiceInv
  <2>2. PICK job \in Jobs : /\ jobs' = [jobs EXCEPT ![k] = job]
                            /\ job.doc = jobs[k].doc
                            /\ TaskOK(job)
    BY <2>1
  <2>3. /\ Len(jobs') = Len(jobs)
        /\ \A i \in 1..Len(jobs) : jobs'[i].doc = jobs[i].doc
    BY <2>2, JobChange DEF ServiceInv
  <2>4. Closed' = Closed BY <2>3 DEF Closed
  <2> QED BY <2>1, <2>4 DEF StreamStays, TakenImgs, batch
<1> QED BY <1>3, <1>4, <1>5, <1>6, <1>7, <1>8, <1>9 DEF Next, Start

(* The documents given to GenerateAsync are the stream of accepted images, *)
(* cut: the service implements DocumentStream whatever its tasks do.       *)
THEOREM ServiceImplementsStream == Spec => ServiceStream
<1>1. Init => Stream!Init
  <2> SUFFICES ASSUME Init PROVE Stream!Init OBVIOUS
  <2>1. taken = << >> /\ jobs = << >> /\ imgs = << >> BY DEF Init
  <2>2. TakenImgs = << >> /\ Closed = << >> BY <2>1 DEF TakenImgs, Closed
  <2> QED BY <2>1, <2>2 DEF Stream!Init, Closed
<1>2. Spec => Stream!Spec
  BY <1>1, ServiceAlways, StreamStep, PTL DEF Spec, Stream!Spec
<1> QED BY <1>2 DEF ServiceStream
=============================================================================
