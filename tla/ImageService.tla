---------------------------- MODULE ImageService ----------------------------
(***************************************************************************)
(* WindowsServices: the Windows service that turns the images of InDir     *)
(* into PDF files (PdfPackage/File/DirectoryListener.cs), with the pool    *)
(* tasks that save the documents, retry, and move the images of a document *)
(* that cannot be saved to BrokenDir (PdfPackage/Pdf/PdfSharpGenerator.cs).*)
(* AspectOrientedProgramming holds the same two classes behind an          *)
(* interceptor that logs each call and rethrows its exception.             *)
(*                                                                         *)
(* The images of a document are read on the caller's thread, the scan's or *)
(* the watcher's; an exception there ends the process.  The document of no *)
(* images (CreateDoc with an empty _imgs) cannot be saved, has nothing to  *)
(* move, and is left out.  Here the watcher's buffer does not overflow.    *)
(***************************************************************************)
EXTENDS ImageNames, Sequences, SequencesExt

CONSTANTS Timeout,      \* the constant of line 20
          MsPerSecond,  \* 1000 in the code
          Attempts,     \* 4 in the code
          Ticks,        \* by how much the clock may advance at once
          MaxElapsed, MaxLaunches  \* bounds of the exploration

ASSUME ServiceAssumption == /\ IntMax \in Nat
                            /\ Timeout \in Nat
                            /\ MsPerSecond \in Nat \ {0}
                            /\ Attempts \in Nat \ {0}
                            /\ Ticks \subseteq Nat \ {0}
                            /\ MaxElapsed \in Nat /\ MaxLaunches \in Nat

VARIABLES
  dir,       \* the files of InDir
  writing,   \* those their writer has not finished
  broken,    \* the files of BrokenDir
  pc,        \* where Start, or the process, is
  scan,      \* the names of Start's foreach still to come
  watching,  \* _watcher.EnableRaisingEvents
  events,    \* Created events not raised yet
  prevImg,   \* _prevImg
  imgs,      \* _imgs
  elapsed,   \* _stopwatch.ElapsedMilliseconds
  launches,  \* processes started so far
  jobs,      \* the calls of GenerateAsync in this process, with their tasks
  taken,     \* history: every image accepted in this process
  missed     \* history: files no scan and no event will report

disk  == <<dir, writing, broken>>
watch == <<watching, events, missed>>
batch == <<prevImg, imgs, taken, elapsed>>
vars  == <<disk, pc, scan, watch, batch, launches, jobs>>

Up == pc \notin {"down", "crashed"}

Ended == {"saved", "gave_up", "moved", "faulted"}
Jobs == [doc : Seq(Valid), phase : {"saving", "moving"} \cup Ended,
         attempt : 0..Attempts, asleep : BOOLEAN, next : Nat]

TypeOK ==
  /\ dir \subseteq Images /\ writing \subseteq dir
  /\ broken \subseteq Images \ dir
  /\ pc \in {"down", "new", "scanning", "enabling", "enabled", "started",
             "stopped", "crashed"}
  /\ scan \in Seq(Images) /\ events \in Seq(Images)
  /\ watching \in BOOLEAN
  /\ prevImg \in Valid \cup {None}
  /\ imgs \in Seq(Valid)
  /\ elapsed \in Nat /\ launches \in Nat
  /\ jobs \in Seq(Jobs)
  /\ taken \in Seq([img : Valid, by : {"scan", "event"}])
  /\ missed \subseteq Images

Init ==
  /\ dir \in SUBSET Images /\ writing = {} /\ broken = {}
  /\ pc = "down" /\ scan = << >> /\ watching = FALSE /\ events = << >>
  /\ prevImg = None /\ imgs = << >> /\ taken = << >> /\ jobs = << >>
  /\ elapsed = 0 /\ launches = 0 /\ missed = {}
-----------------------------------------------------------------------------
(* The process: a new one has every field at its first value.              *)

Launch ==
  /\ ~Up /\ launches < MaxLaunches
  /\ launches' = launches + 1 /\ pc' = "new"
  /\ UNCHANGED <<disk, scan, watch, batch, jobs>>

(* The tasks run on background threads: they end with the process.         *)
Die(end) ==
  /\ pc' = end /\ scan' = << >> /\ watching' = FALSE /\ events' = << >>
  /\ prevImg' = None /\ imgs' = << >> /\ taken' = << >> /\ elapsed' = 0
  /\ jobs' = << >> /\ missed' = {}
  /\ UNCHANGED <<disk, launches>>

Exit == Up /\ Die("down")
-----------------------------------------------------------------------------
(* CreateDoc and ProcNewImg.                                               *)

CurrentDelay == elapsed \div MsPerSecond

Overdue == CurrentDelay > Timeout

ConvertThrows(n) == /\ prevImg # None /\ ~Overdue
                    /\ ~(Convertible(prevImg) /\ Convertible(n))

IsEndOfDoc(n) == prevImg # None /\ (Overdue \/ ~InRow(prevImg, n))

\* XImage.FromFile finds each image, complete.
Readable == Range(imgs) \subseteq dir \ writing

(* GenerateAsync, which nobody awaits.                                     *)
CreatePdf ==
  jobs' = IF imgs = << >> THEN jobs
          ELSE Append(jobs, [doc |-> imgs, phase |-> "saving", attempt |-> 0,
                             asleep |-> FALSE, next |-> 1])

AddImg(n, by) ==
  /\ prevImg' = n
  /\ elapsed' = 0
  /\ taken' = Append(taken, [img |-> n, by |-> by])

ProcIgnored(n) == ~Validate(n) /\ UNCHANGED <<batch, jobs>>

ProcExtends(n, by) ==
  /\ Validate(n) /\ ~ConvertThrows(n) /\ ~IsEndOfDoc(n)
  /\ AddImg(n, by)
  /\ imgs' = Append(imgs, n)
  /\ UNCHANGED jobs

\* Mutant: _imgs is not cleared.
ProcCutsNoClear(n, by) ==
  /\ Validate(n) /\ ~ConvertThrows(n) /\ IsEndOfDoc(n) /\ Readable
  /\ CreatePdf
  /\ AddImg(n, by)
  /\ imgs' = Append(imgs, n)

\* Mutant: the image is added before the document is closed.
ProcCutsBehind(n, by) ==
  /\ Validate(n) /\ ~ConvertThrows(n) /\ IsEndOfDoc(n) /\ Readable
  /\ jobs' = Append(jobs, [doc |-> Append(imgs, n), phase |-> "saving", attempt |-> 0,
                           asleep |-> FALSE, next |-> 1])
  /\ AddImg(n, by)
  /\ imgs' = << >>

ProcCuts(n, by) ==
  /\ Validate(n) /\ ~ConvertThrows(n) /\ IsEndOfDoc(n) /\ Readable
  /\ CreatePdf
  /\ AddImg(n, by)
  /\ imgs' = <<n>>

ProcNewImg(n, by) == ProcIgnored(n) \/ ProcExtends(n, by) \/ ProcCuts(n, by)

(* Convert or XImage.FromFile throws, and nothing catches.                 *)
ProcThrows(n) == Validate(n) /\ (ConvertThrows(n) \/ (IsEndOfDoc(n) /\ ~Readable))
-----------------------------------------------------------------------------
(* ServiceControl.Start and Stop.                                          *)

StartScan ==
  /\ pc = "new"
  /\ pc' = "scanning"
  /\ prevImg' = None /\ imgs' = << >>
  /\ scan' \in SetToSeqs(dir)
  /\ UNCHANGED <<disk, watch, taken, elapsed, launches, jobs>>

ScanNext ==
  /\ pc = "scanning" /\ scan # << >>
  /\ ProcNewImg(Head(scan), "scan")
  /\ scan' = Tail(scan)
  /\ UNCHANGED <<disk, pc, watch, launches>>

ScanThrows ==
  /\ pc = "scanning"
  /\ IF scan # << >> THEN ProcThrows(Head(scan)) ELSE ~Readable
  /\ Die("crashed")

\* Mutant: the last document of the scan stays open.
ScanDoneNoDoc ==
  /\ pc = "scanning" /\ scan = << >> /\ Readable
  /\ pc' = "enabling"
  /\ UNCHANGED <<disk, scan, watch, batch, launches, jobs>>

(* CreateDoc after the loop.  _prevImg keeps the last image of the scan.   *)
ScanDone ==
  /\ pc = "scanning" /\ scan = << >> /\ Readable
  /\ pc' = "enabling"
  /\ CreatePdf /\ imgs' = << >>
  /\ UNCHANGED <<disk, scan, watch, prevImg, taken, elapsed, launches>>

Enable ==
  /\ pc = "enabling"
  /\ pc' = "enabled" /\ watching' = TRUE
  /\ UNCHANGED <<disk, scan, events, missed, batch, launches, jobs>>

StartDone ==
  /\ pc = "enabled"
  /\ pc' = "started" /\ elapsed' = 0
  /\ UNCHANGED <<disk, scan, watch, prevImg, imgs, taken, launches, jobs>>

Stop ==
  /\ pc = "started"
  /\ pc' = "stopped" /\ watching' = FALSE /\ events' = << >>
  /\ UNCHANGED <<disk, scan, missed, batch, launches, jobs>>

WatcherOnCreated ==
  /\ watching /\ events # << >>
  /\ ProcNewImg(Head(events), "event")
  /\ events' = Tail(events)
  /\ UNCHANGED <<disk, pc, scan, watching, missed, launches>>

WatcherThrows ==
  /\ watching /\ events # << >> /\ ProcThrows(Head(events))
  /\ Die("crashed")
-----------------------------------------------------------------------------
(* The task of GenerateAsync.  TrySave runs its action up to Attempts      *)
(* times, sleeps a minute after each IOException, and returns whether or   *)
(* not it succeeded; any other exception leaves it.                        *)

Change(k, job) ==
  /\ jobs' = [jobs EXCEPT ![k] = job]
  /\ UNCHANGED <<pc, scan, watch, batch, launches>>

Awake(k, phase) == /\ Up /\ k \in 1..Len(jobs)
                   /\ jobs[k].phase = phase /\ ~jobs[k].asleep

IOException(k) ==
  /\ \E phase \in {"saving", "moving"} : Awake(k, phase)
  /\ jobs[k].attempt < Attempts
  /\ Change(k, [jobs[k] EXCEPT !.asleep = TRUE])
  /\ UNCHANGED disk

\* Mutant: the attempts are not counted.
WakeUncounted(k) ==
  /\ Up /\ k \in 1..Len(jobs) /\ jobs[k].asleep
  /\ Change(k, [jobs[k] EXCEPT !.asleep = FALSE])
  /\ UNCHANGED disk

Wake(k) ==
  /\ Up /\ k \in 1..Len(jobs) /\ jobs[k].asleep
  /\ Change(k, [jobs[k] EXCEPT !.asleep = FALSE, !.attempt = @ + 1])
  /\ UNCHANGED disk

Save(k) ==
  /\ Awake(k, "saving") /\ jobs[k].attempt < Attempts
  /\ Change(k, [jobs[k] EXCEPT !.phase = "saved"])
  /\ UNCHANGED disk

SaveGivesUp(k) ==
  /\ Awake(k, "saving") /\ jobs[k].attempt = Attempts
  /\ Change(k, [jobs[k] EXCEPT !.phase = "gave_up"])
  /\ UNCHANGED disk

(* catch (Exception): MoveTo(BrokenDir, imgPaths).                         *)
SaveThrows(k) ==
  /\ Awake(k, "saving") /\ jobs[k].attempt < Attempts
  /\ Change(k, [jobs[k] EXCEPT !.phase = "moving", !.attempt = 0])
  /\ UNCHANGED disk

(* MoveTo, one image: moved, or given up after Attempts.                   *)
Moving(k) == Awake(k, "moving") /\ jobs[k].next <= Len(jobs[k].doc)

Move(k) ==
  /\ Moving(k) /\ jobs[k].attempt < Attempts
  /\ LET n == jobs[k].doc[jobs[k].next] IN
       /\ n \in dir
       /\ dir' = dir \ {n} /\ broken' = broken \cup {n}
  /\ Change(k, [jobs[k] EXCEPT !.next = @ + 1, !.attempt = 0])
  /\ UNCHANGED writing

MoveGivesUp(k) ==
  /\ Moving(k) /\ jobs[k].attempt = Attempts
  /\ Change(k, [jobs[k] EXCEPT !.next = @ + 1, !.attempt = 0])
  /\ UNCHANGED disk

MoveThrows(k) ==
  /\ Moving(k) /\ jobs[k].attempt < Attempts
  /\ Change(k, [jobs[k] EXCEPT !.phase = "faulted"])
  /\ UNCHANGED disk

MoveDone(k) ==
  /\ Awake(k, "moving") /\ jobs[k].next > Len(jobs[k].doc)
  /\ Change(k, [jobs[k] EXCEPT !.phase = "moved"])
  /\ UNCHANGED disk

Task(k) == \/ IOException(k) \/ Wake(k) \/ Save(k) \/ SaveGivesUp(k)
           \/ SaveThrows(k) \/ Move(k) \/ MoveGivesUp(k) \/ MoveThrows(k)
           \/ MoveDone(k)
-----------------------------------------------------------------------------
(* External: files appear and are written to their end; the stopwatch runs *)
(* on.                                                                     *)

CreateFile(n) ==
  /\ n \notin dir \cup broken
  /\ dir' = dir \cup {n} /\ writing' = writing \cup {n}
  /\ events' = IF watching THEN Append(events, n) ELSE events
  /\ missed' = IF ~watching /\ pc \in {"scanning", "enabling"}
               THEN missed \cup {n} ELSE missed
  /\ UNCHANGED <<broken, pc, scan, watching, batch, launches, jobs>>

FinishFile(n) ==
  /\ n \in writing
  /\ writing' = writing \ {n}
  /\ UNCHANGED <<dir, broken, pc, scan, watch, batch, launches, jobs>>

Tick(d) ==
  /\ Up /\ elapsed + d <= MaxElapsed
  /\ elapsed' = elapsed + d
  /\ UNCHANGED <<disk, pc, scan, watch, prevImg, imgs, taken, launches, jobs>>

Start == StartScan \/ ScanNext \/ ScanThrows \/ ScanDone \/ Enable \/ StartDone

Next == \/ Launch \/ Exit \/ Start \/ Stop \/ WatcherOnCreated \/ WatcherThrows
        \/ \E k \in 1..Len(jobs) : Task(k)
        \/ \E n \in Images : CreateFile(n) \/ FinishFile(n)
        \/ \E d \in Ticks : Tick(d)

Spec == Init /\ [][Next]_vars

(* A task the pool has started goes on.                                    *)
FairSpec == Spec /\ \A k \in 1..Cardinality(Valid) : WF_vars(Task(k))
-----------------------------------------------------------------------------
TakenImgs == [j \in 1..Len(taken) |-> taken[j].img]

(* The service cuts the stream of its images like any listener, and closes *)
(* what its scan collected.                                                *)
Stream == INSTANCE DocumentStream WITH
            Images <- Valid, accepted <- TakenImgs,
            closed <- [k \in 1..Len(jobs) |-> jobs[k].doc], open <- imgs
ServiceStream == Stream!Spec

(* An image that waits in _imgs is still in the directory when its         *)
(* document is read, although the tasks of earlier documents move files    *)
(* away at any time.                                                       *)
CollectedAreThere == Up => Range(imgs) \subseteq dir

(* Once Start has returned, no image waits for one that may never come:    *)
(* each valid file it found is in a document of its own process, and the   *)
(* others were reported by an event or appeared before the watcher looked. *)
StartTakesAll ==
  pc = "started" =>
    \A n \in dir \cap Valid :
      \/ \E k \in 1..Len(jobs) : n \in Range(jobs[k].doc)
      \/ \E j \in 1..Len(taken) : taken[j].img = n /\ taken[j].by = "event"
      \/ n \in Range(events) \/ n \in missed

(* Every task ends, saved, given up, moved or faulted, while the service   *)
(* runs: the retries are finite, image after image.                        *)
JobsEnd ==
  \A k \in 1..Cardinality(Valid) :
    Up /\ Len(jobs) >= k ~> ~Up \/ (Len(jobs) >= k /\ jobs[k].phase \in Ended)

(* Line 20: "private const long Timeout = 100000; // 100 seconds".  Once   *)
(* Start has returned no image extends a document when the stopwatch,      *)
(* restarted at the image before it, shows more than 100 seconds.          *)
TimeoutIs100Seconds ==
  [][pc = "started" /\ imgs # << >> /\ Len(imgs') > Len(imgs) =>
       elapsed <= 100 * MsPerSecond]_vars
=============================================================================
