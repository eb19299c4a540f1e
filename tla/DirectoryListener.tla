-------------------------- MODULE DirectoryListener --------------------------
(***************************************************************************)
(* Messaging/Library/FolderListener/DirectoryListener.cs: a process scans  *)
(* the input directory, then follows it with a FileSystemWatcher, and cuts *)
(* the images it accepts into documents.                                   *)
(*                                                                         *)
(* Two threads run ProcNewImg: "main" inside Start's scan and "watcher"    *)
(* inside WatcherOnCreated.  The watcher raises one event at a time, and   *)
(* none before Start enables it.  The broker's thread writes               *)
(* Settings.Timeout at any time.                                           *)
(***************************************************************************)
EXTENDS ImageNames, Sequences, SequencesExt

CONSTANTS Timeouts,        \* values Settings.Timeout may take
          DefaultTimeout,  \* the value MessagingClient/Program.cs sets
          MsPerSecond,     \* 1000 in the code
          BufferSize,      \* events the watcher's buffer holds
          MaxTime, MaxLaunches  \* bounds of the exploration

ASSUME NumbersAssumption == /\ IntMax \in Nat
                            /\ DefaultTimeout \in Timeouts
                            /\ Timeouts \subseteq Int32
                            /\ MsPerSecond \in Nat \ {0}
                            /\ BufferSize \in Nat \ {0}
                            /\ MaxTime \in Nat
                            /\ MaxLaunches \in Nat

VARIABLES
  dir,       \* the files of InDir
  pc,        \* where the main thread, or the process, is
  handler,   \* the thread inside ProcNewImg, or "none"
  scan,      \* the names of Start's foreach still to come
  watching,  \* _watcher.EnableRaisingEvents
  events,    \* Created events not raised yet
  cur,       \* _currentImg
  prevImg,   \* _prevImg
  imgs,      \* _imgs
  timeout,   \* Settings.Timeout
  status,    \* Settings.CurrentStatus
  now,       \* the machine's clock, in milliseconds
  swStart,   \* when _stopwatch was last (re)started
  launches,  \* processes started so far
  docs,      \* the lists given to OnFileReady in this process
  taken,     \* history: every image accepted in this process
  ends,      \* history: Len(taken) at each OnFileReady
  missed     \* history: files no scan and no event will report

thread  == <<pc, handler, scan, cur>>
watcher == <<watching, events>>
batch   == <<prevImg, imgs, docs, taken, ends>>
world   == <<dir, now, launches>>
vars    == <<thread, watcher, batch, world, timeout, status, swStart, missed>>

Up == pc \notin {"down", "crashed"}

TakenRecord == [img : Valid, at : Nat, delay : Nat, limit : Timeouts,
                settled : BOOLEAN]

TypeOK ==
  /\ dir \subseteq Images
  /\ pc \in {"down", "new", "scanning", "enabling", "enabled", "started",
             "stopped", "crashed"}
  /\ handler \in {"none", "main", "watcher"}
  /\ scan \in Seq(Images)
  /\ watching \in BOOLEAN
  /\ events \in Seq(Images)
  /\ cur \in Images \cup {None}
  /\ handler # "none" => cur \in Images
  /\ prevImg \in Valid \cup {None}
  /\ imgs \in Seq(Valid)
  /\ timeout \in Timeouts
  /\ status \in {"created", "just_started", "processing", "waiting", "stopped"}
  /\ now \in Nat
  /\ swStart \in Nat /\ swStart <= now
  /\ launches \in Nat
  /\ docs \in Seq(Seq(Valid))
  /\ taken \in Seq(TakenRecord)
  /\ ends \in Seq(Nat)
  /\ missed \subseteq Images
-----------------------------------------------------------------------------
(* The end of a document.                                                  *)

\* _stopwatch.ElapsedMilliseconds / 1000
CurrentDelay == (now - swStart) \div MsPerSecond

\* Mutant: at the timeout already.
OverdueAtTimeout == CurrentDelay >= timeout

Overdue == CurrentDelay > timeout

\* PathConverter.Convert throws, called for the last image or for this one.
ConvertThrows(n) == /\ prevImg # None /\ ~Overdue
                    /\ ~(Convertible(prevImg) /\ Convertible(n))

IsEndOfDoc(n) == prevImg # None /\ (Overdue \/ ~InRow(prevImg, n))
-----------------------------------------------------------------------------
Init ==
  /\ dir \in SUBSET Images
  /\ pc = "down" /\ handler = "none" /\ scan = << >> /\ cur = None
  /\ watching = FALSE /\ events = << >>
  /\ prevImg = None /\ imgs = << >> /\ docs = << >> /\ taken = << >>
  /\ ends = << >>
  /\ timeout = DefaultTimeout /\ status = "created"
  /\ now = 0 /\ swStart = 0 /\ launches = 0 /\ missed = {}

\* Mutant: the constructor enables the watcher.
LaunchWatching ==
  /\ ~Up /\ launches < MaxLaunches
  /\ launches' = launches + 1
  /\ pc' = "new" /\ handler' = "none" /\ scan' = << >> /\ cur' = None
  /\ watching' = TRUE /\ events' = << >>
  /\ prevImg' = None /\ imgs' = << >> /\ docs' = << >> /\ taken' = << >>
  /\ ends' = << >> /\ missed' = {}
  /\ timeout' = DefaultTimeout /\ status' = "created" /\ swStart' = now
  /\ UNCHANGED <<dir, now>>

(* A new process: constructors, every field at its first value.            *)
Launch ==
  /\ ~Up /\ launches < MaxLaunches
  /\ launches' = launches + 1
  /\ pc' = "new" /\ handler' = "none" /\ scan' = << >> /\ cur' = None
  /\ watching' = FALSE /\ events' = << >>
  /\ prevImg' = None /\ imgs' = << >> /\ docs' = << >> /\ taken' = << >>
  /\ ends' = << >> /\ missed' = {}
  /\ timeout' = DefaultTimeout /\ status' = "created" /\ swStart' = now
  /\ UNCHANGED <<dir, now>>

(* The process is closed or killed between any two steps.                  *)
Die(end) ==
  /\ pc' = end /\ handler' = "none" /\ scan' = << >> /\ cur' = None
  /\ watching' = FALSE /\ events' = << >>
  /\ UNCHANGED <<batch, world, timeout, status, swStart, missed>>

Kill == Up /\ Die("down")

\* Mutant: only files that are new to a running client count.
StartWithoutScan ==
  /\ pc = "new"
  /\ pc' = "scanning"
  /\ status' = "just_started"
  /\ cur' = None /\ prevImg' = None /\ imgs' = << >>
  /\ scan' = << >>
  /\ UNCHANGED <<handler, watcher, docs, taken, ends, world, timeout, swStart,
                 missed>>

(* Start, up to the eager GetFiles; its order is the file system's.        *)
StartScan ==
  /\ pc = "new"
  /\ pc' = "scanning"
  /\ status' = "just_started"
  /\ cur' = None /\ prevImg' = None /\ imgs' = << >>
  /\ scan' \in SetToSeqs(dir)
  /\ UNCHANGED <<handler, watcher, docs, taken, ends, world, timeout, swStart,
                 missed>>

(* ProcNewImg, first two lines: from Start's loop or from an event.        *)
BeginImg(h, n) ==
  /\ handler' = h /\ cur' = n /\ status' = "processing"

\* Mutant: a rejected name stays at the head of the scan.
ScanNextStuck ==
  /\ pc = "scanning" /\ handler = "none" /\ scan # << >>
  /\ BeginImg("main", Head(scan))
  /\ scan' = IF Validate(Head(scan)) THEN Tail(scan) ELSE scan
  /\ UNCHANGED <<pc, watcher, batch, world, timeout, swStart, missed>>

ScanNext ==
  /\ pc = "scanning" /\ handler = "none" /\ scan # << >>
  /\ BeginImg("main", Head(scan))
  /\ scan' = Tail(scan)
  /\ UNCHANGED <<pc, watcher, batch, world, timeout, swStart, missed>>

\* Mutant: one event stands for all that are queued.
WatcherOnCreatedCoalesced ==
  /\ watching /\ handler = "none" /\ events # << >>
  /\ BeginImg("watcher", Head(events))
  /\ events' = << >>
  /\ UNCHANGED <<pc, scan, watching, batch, world, timeout, swStart, missed>>

WatcherOnCreated ==
  /\ watching /\ handler = "none" /\ events # << >>
  /\ BeginImg("watcher", Head(events))
  /\ events' = Tail(events)
  /\ UNCHANGED <<pc, scan, watching, batch, world, timeout, swStart, missed>>

\* Mutant: the status is set back for accepted images only.
EndImgStatusInBranch ==
  /\ handler # "none"
  /\ handler' = "none"
  /\ status' = IF Validate(cur) THEN "waiting" ELSE status
  /\ UNCHANGED <<pc, scan, cur, watcher, world, timeout, missed>>

(* The rest of ProcNewImg, on whichever thread runs it.                    *)
EndImg ==
  /\ handler # "none"
  /\ handler' = "none" /\ status' = "waiting"
  /\ UNCHANGED <<pc, scan, cur, watcher, world, timeout, missed>>

IgnoreImg ==
  /\ EndImg /\ ~Validate(cur)
  /\ UNCHANGED <<batch, swStart>>

\* Mutant: the stopwatch is not restarted.
AddImgNoRestart ==
  /\ prevImg' = cur
  /\ swStart' = swStart
  /\ taken' = Append(taken, [img |-> cur, at |-> now, delay |-> CurrentDelay,
                             limit |-> timeout,
                             settled |-> pc \in {"started", "stopped"}])

AddImg ==
  /\ prevImg' = cur
  /\ swStart' = now
  /\ taken' = Append(taken, [img |-> cur, at |-> now, delay |-> CurrentDelay,
                             limit |-> timeout,
                             settled |-> pc \in {"started", "stopped"}])

\* Mutant: the image that ends a document is added before the hand-over.
NotifyAfterAdd ==
  /\ docs' = Append(docs, Append(imgs, cur))
  /\ ends' = Append(ends, Len(taken))

NotifyOnFileReady ==
  /\ docs' = Append(docs, imgs)
  /\ ends' = Append(ends, Len(taken))

ExtendDoc ==
  /\ EndImg /\ Validate(cur) /\ ~ConvertThrows(cur) /\ ~IsEndOfDoc(cur)
  /\ AddImg
  /\ imgs' = Append(imgs, cur)
  /\ UNCHANGED <<docs, ends>>

\* Mutant: _imgs is not cleared after the hand-over.
CutDocNoClear ==
  /\ EndImg /\ Validate(cur) /\ ~ConvertThrows(cur) /\ IsEndOfDoc(cur)
  /\ NotifyOnFileReady
  /\ AddImg
  /\ imgs' = Append(imgs, cur)

CutDoc ==
  /\ EndImg /\ Validate(cur) /\ ~ConvertThrows(cur) /\ IsEndOfDoc(cur)
  /\ NotifyOnFileReady
  /\ AddImg
  /\ imgs' = <<cur>>

(* The exception of Convert leaves ProcNewImg and ends the process.        *)
CrashOnName ==
  /\ handler # "none" /\ Validate(cur) /\ ConvertThrows(cur)
  /\ Die("crashed")

ScanDone ==
  /\ pc = "scanning" /\ handler = "none" /\ scan = << >>
  /\ pc' = "enabling"
  /\ UNCHANGED <<handler, scan, cur, watcher, batch, world, timeout, status,
                 swStart, missed>>

Enable ==
  /\ pc = "enabling"
  /\ pc' = "enabled" /\ watching' = TRUE
  /\ UNCHANGED <<handler, scan, cur, events, batch, world, timeout, status,
                 swStart, missed>>

(* Start's last two lines; the watcher may have taken an image already.    *)
StartDone ==
  /\ pc = "enabled"
  /\ pc' = "started" /\ swStart' = now /\ status' = "waiting"
  /\ UNCHANGED <<handler, scan, cur, watcher, batch, world, timeout, missed>>

(* Stop: the watcher forgets what it has not raised; an event being        *)
(* handled is finished.                                                    *)
Stop ==
  /\ pc = "started"
  /\ pc' = "stopped" /\ status' = "stopped"
  /\ watching' = FALSE /\ events' = << >>
  /\ UNCHANGED <<handler, scan, cur, batch, world, timeout, swStart, missed>>

(* The proxy's OnRecieveEventHandler, on the broker's thread.              *)
NewTimeout(t) ==
  /\ Up /\ timeout' = t /\ t # timeout
  /\ UNCHANGED <<thread, watcher, batch, world, status, swStart, missed>>

(* A file appears.  The watcher queues it, loses its whole buffer when it  *)
(* is full, or is not looking: then the next scan finds it, or nobody.     *)
CreateFile(n) ==
  /\ n \notin dir
  /\ dir' = dir \cup {n}
  /\ \/ /\ watching /\ Len(events) < BufferSize
        /\ events' = Append(events, n)
        /\ UNCHANGED missed
     \/ /\ watching /\ Len(events) >= BufferSize
        /\ events' = << >>
        /\ missed' = missed \cup {n} \cup Range(events)
     \/ /\ ~watching /\ pc \in {"scanning", "enabling"}
        /\ missed' = missed \cup {n}
        /\ UNCHANGED events
     \/ /\ ~watching /\ pc \notin {"scanning", "enabling"}
        /\ UNCHANGED <<events, missed>>
  /\ UNCHANGED <<thread, watching, batch, now, launches, timeout, status,
                 swStart>>

Tick ==
  /\ now < MaxTime /\ now' = now + 1
  /\ UNCHANGED <<thread, watcher, batch, dir, launches, timeout, status,
                 swStart, missed>>

ProcNewImgEnd == IgnoreImg \/ ExtendDoc \/ CutDoc \/ CrashOnName
Main == StartScan \/ ScanNext \/ ScanDone \/ Enable \/ StartDone

Next == \/ Launch \/ Kill \/ Main \/ Stop
        \/ WatcherOnCreated \/ ProcNewImgEnd
        \/ \E t \in Timeouts : NewTimeout(t)
        \/ \E n \in Images : CreateFile(n)
        \/ Tick

(* Each thread goes on while it can; nobody has to launch, stop, create    *)
(* files or send timeouts.                                                 *)
Fairness == WF_vars(Main) /\ WF_vars(WatcherOnCreated) /\ WF_vars(ProcNewImgEnd)

Spec == Init /\ [][Next]_vars
FairSpec == Spec /\ Fairness
-----------------------------------------------------------------------------
LastEnd == IF ends = << >> THEN 0 ELSE ends[Len(ends)]

DocStart(k) == IF k = 1 THEN 0 ELSE ends[k - 1]

(* The batch partitions the stream: the documents handed to OnFileReady    *)
(* and the images still collected are, end to end, exactly the images      *)
(* accepted in this process: none lost, doubled or out of order, and no    *)
(* document empty, although scan and events run on different threads.      *)
DocsPartitionStream ==
  /\ Len(ends) = Len(docs)
  /\ \A k \in 1..Len(docs) :
       /\ DocStart(k) < ends[k]
       /\ ends[k] < Len(taken)
       /\ Len(docs[k]) = ends[k] - DocStart(k)
       /\ \A i \in 1..Len(docs[k]) : docs[k][i] = taken[DocStart(k) + i].img
  /\ Len(imgs) = Len(taken) - LastEnd
  /\ \A i \in 1..Len(imgs) : imgs[i] = taken[LastEnd + i].img

(* Neighbours of the stream are separated exactly when there was a reason: *)
(* inside a document numbers grow by one (so an image whose number cannot  *)
(* be read is alone in its document), and at a cut they do not or the      *)
(* timeout of that moment, which the broker may just have changed, had     *)
(* passed.                                                                 *)
SplitExactlyWhenDue ==
  \A j \in 1..Len(taken) - 1 :
    LET p == taken[j]
        n == taken[j + 1]
    IN IF j \in Range(ends)
       THEN n.delay > n.limit \/ ~InRow(p.img, n.img)
       ELSE n.delay <= n.limit /\ InRow(p.img, n.img)

(* In the machine's time: a timeout never cuts two images that came within *)
(* Timeout seconds of each other, and two images never share a document    *)
(* when more than Timeout seconds (and the fraction the integer division   *)
(* drops) lie between them, however many rejected files came in between.   *)
(* The second half needs the first image to have come after Start returned:*)
(* Start's last line restarts the stopwatch after the images of the scan.  *)
SplitInTime ==
  \A j \in 1..Len(taken) - 1 :
    LET p == taken[j]
        n == taken[j + 1]
        apart == (n.at - p.at) \div MsPerSecond
    IN /\ j \in Range(ends) /\ InRow(p.img, n.img) => apart > n.limit
       /\ j \notin Range(ends) /\ p.settled => apart <= n.limit

(* Scan and watcher together see every file: once Start has returned, each *)
(* valid file of the directory was accepted by this process, waits in its  *)
(* queue or handler, or appeared between GetFiles and the line that        *)
(* enables the watcher or in a buffer that overflowed.  In particular what *)
(* an earlier process had accepted and lost in _imgs is accepted again.    *)
NoImageForgotten ==
  pc \in {"enabled", "started"} =>
    \A n \in dir \cap Valid :
      \/ \E j \in 1..Len(taken) : taken[j].img = n
      \/ n \in Range(events)
      \/ handler # "none" /\ cur = n
      \/ n \in missed

(* No image is accepted twice by one process, whichever of scan and event  *)
(* reports it.                                                             *)
TakenOnce == \A i, j \in 1..Len(taken) : taken[i].img = taken[j].img => i = j

(* The status the proxy reports never sticks: with nobody in ProcNewImg a  *)
(* started client says it waits.  After Stop it may say so too, when an    *)
(* event was being handled.                                                *)
StatusAtRest ==
  handler = "none" =>
    /\ pc = "started" => status = "waiting"
    /\ pc = "stopped" => status \in {"stopped", "waiting"}
    /\ status # "processing" \/ ~Up

(* Every event the watcher queued is handled, unless the process ends, is  *)
(* stopped, or the buffer overflows: no file waits for ever behind others. *)
Taken(n) == \E j \in 1..Len(taken) : taken[j].img = n
EventsAreHandled ==
  \A n \in Images :
    n \in Range(events) ~>
      Taken(n) \/ n \notin Valid \/ n \in missed \/ pc = "stopped" \/ ~Up

(* Start returns: its scan cannot go on for ever, whatever is dropped into *)
(* the directory meanwhile.                                                *)
StartReturns == pc = "scanning" ~> pc = "started" \/ ~Up

(* The listener implements the abstract stream.                            *)
Stream == INSTANCE DocumentStream WITH
            Images <- Valid,
            accepted <- [j \in 1..Len(taken) |-> taken[j].img],
            closed <- docs, open <- imgs
StreamSpec == Stream!Spec
=============================================================================
