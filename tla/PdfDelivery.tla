----------------------------- MODULE PdfDelivery -----------------------------
(***************************************************************************)
(* The way of a finished document: DirectoryListenerProxy starts a task    *)
(* that converts it (SharpImgToByteConverter) and publishes the bytes      *)
(* (RabbitMqClient); the server receives them (ServerService) and writes a *)
(* file (PdfSharpGenerator).                                               *)
(*                                                                         *)
(* All tasks save into the one MemoryStream of the converter.  A saved     *)
(* document is Size[d] blocks; buf and pos are the stream's contents and   *)
(* Position.  PdfSharp's Save writes from Position on and leaves it at 0;  *)
(* MemoryStream.Write stores its block and then moves Position, two steps  *)
(* another task may come between.  Both are external code.                 *)
(***************************************************************************)
EXTENDS Integers, Sequences, FiniteSets, SequencesExt

CONSTANTS Docs,      \* the documents OnFileReady will announce
          Size,      \* their lengths in blocks
          MaxRuns    \* bound: how often the server is started

ASSUME DocsAssumption == /\ Size \in [Docs -> Nat \ {0}]
                         /\ MaxRuns \in Nat

VARIABLES
  client,    \* "up" or "down"
  task,      \* where the task of each document is
  written,   \* how many blocks the Save of each document has stored
  next,      \* the Position a Write has still to set
  body,      \* the byte[] each task got from ConvertAsync
  buf, pos,  \* _memoryStream
  server,    \* "down", "bound" (queue consumed) or "hooked" (handler set)
  runs,      \* how often the server was started
  inbox,     \* the server's queue: File messages
  writing,   \* GenerateAsync tasks that have not finished
  files,     \* files of C:\OutDir, in order of completion
  gone,      \* history: documents no longer anywhere
  alone,     \* history: no other conversion overlapped this one
  longest    \* history: Len(buf) when the Save of a document began

clientVars == <<client, task, written, next, body, buf, pos, alone, longest>>
serverVars == <<server, runs, writing, files>>
vars == <<clientVars, serverVars, inbox, gone>>

Block == Docs \X (Nat \ {0})
File  == [doc : Docs, body : Seq(Block), whole : BOOLEAN]
Msg   == [doc : Docs, body : Seq(Block)]

Stages == {"none", "drawing", "saving", "storing", "saved", "converted",
           "sent", "faulted"}

TypeOK ==
  /\ client \in {"up", "down"}
  /\ task \in [Docs -> Stages]
  /\ written \in [Docs -> Nat]
  /\ next \in [Docs -> Nat]
  /\ body \in [Docs -> Seq(Block)]
  /\ buf \in Seq(Block)
  /\ pos \in 0..Len(buf)
  /\ server \in {"down", "bound", "hooked"}
  /\ runs \in Nat
  /\ inbox \in Seq(Msg)
  /\ writing \in Seq(Msg)
  /\ files \in Seq(File)
  /\ server = "down" => inbox = << >> /\ writing = << >>
  /\ gone \subseteq Docs
  /\ alone \in [Docs -> BOOLEAN]
  /\ longest \in [Docs -> Nat]

\* A task that uses the stream: from its first Write to its ToArray.
Active(d) == task[d] \in {"saving", "storing", "saved"}
-----------------------------------------------------------------------------
Init ==
  /\ client = "up" /\ server = "down" /\ runs = 0
  /\ task = [d \in Docs |-> "none"]
  /\ written = [d \in Docs |-> 0] /\ next = [d \in Docs |-> 0]
  /\ body = [d \in Docs |-> << >>]
  /\ buf = << >> /\ pos = 0
  /\ inbox = << >> /\ writing = << >> /\ files = << >> /\ gone = {}
  /\ alone = [d \in Docs |-> TRUE] /\ longest = [d \in Docs |-> 0]

(* OnFileReadyHandler: Task.Run, nobody waits for it.                      *)
OnFileReadyHandler(d) ==
  /\ client = "up" /\ task[d] = "none"
  /\ task' = [task EXCEPT ![d] = "drawing"]
  /\ UNCHANGED <<client, written, next, body, buf, pos, alone, longest,
                 serverVars, inbox, gone>>

(* The images are drawn; one that is still being copied, or is no image,   *)
(* throws, and the faulted task is never looked at.                        *)
DrawImages(d) ==
  /\ client = "up" /\ task[d] = "drawing"
  /\ \/ /\ task' = [task EXCEPT ![d] = "saving"]
        /\ alone' = [e \in Docs |->
                       alone[e] /\ (Active(e) \/ e = d =>
                                      \A o \in Docs \ {d} : ~Active(o))]
        /\ longest' = [longest EXCEPT ![d] = Len(buf)]
        /\ UNCHANGED gone
     \/ /\ task' = [task EXCEPT ![d] = "faulted"]
        /\ gone' = gone \cup {d}
        /\ UNCHANGED <<alone, longest>>
  /\ UNCHANGED <<client, written, next, body, buf, pos, serverVars, inbox>>

(* Save's next Write: the block is stored at Position ...                  *)
StoreBlock(d) ==
  /\ client = "up" /\ task[d] = "saving" /\ written[d] < Size[d]
  /\ LET b == <<d, written[d] + 1>>
     IN buf' = IF pos < Len(buf) THEN [buf EXCEPT ![pos + 1] = b]
               ELSE Append(buf, b)
  /\ written' = [written EXCEPT ![d] = @ + 1]
  /\ next' = [next EXCEPT ![d] = pos + 1]
  /\ task' = [task EXCEPT ![d] = "storing"]
  /\ UNCHANGED <<client, body, pos, alone, longest, serverVars, inbox, gone>>

(* ... and Position moves behind it.                                       *)
MovePosition(d) ==
  /\ client = "up" /\ task[d] = "storing"
  /\ pos' = next[d]
  /\ task' = [task EXCEPT ![d] = "saving"]
  /\ UNCHANGED <<client, written, next, body, buf, alone, longest, serverVars,
                 inbox, gone>>

\* Mutant: the stream is not rewound.
EndSaveNoRewind(d) ==
  /\ client = "up" /\ task[d] = "saving" /\ written[d] = Size[d]
  /\ task' = [task EXCEPT ![d] = "saved"]
  /\ UNCHANGED <<client, written, next, body, buf, pos, alone, longest,
                 serverVars, inbox, gone>>

(* Save is done and rewinds the stream it leaves open.                     *)
EndSave(d) ==
  /\ client = "up" /\ task[d] = "saving" /\ written[d] = Size[d]
  /\ pos' = 0
  /\ task' = [task EXCEPT ![d] = "saved"]
  /\ UNCHANGED <<client, written, next, body, buf, alone, longest, serverVars,
                 inbox, gone>>

(* _memoryStream.ToArray: everything ever written, Position or not.        *)
ToByteArray(d) ==
  /\ client = "up" /\ task[d] = "saved"
  /\ body' = [body EXCEPT ![d] = buf]
  /\ task' = [task EXCEPT ![d] = "converted"]
  /\ UNCHANGED <<client, written, next, buf, pos, alone, longest, serverVars,
                 inbox, gone>>

\* Mutant: publishing waits until somebody consumes.
SendWaits(d) ==
  /\ client = "up" /\ task[d] = "converted" /\ server # "down"
  /\ task' = [task EXCEPT ![d] = "sent"]
  /\ inbox' = Append(inbox, [doc |-> d, body |-> body[d]])
  /\ UNCHANGED <<client, written, next, body, buf, pos, alone, longest,
                 serverVars, gone>>

(* MsgQueueClient.Send: the direct exchange drops what no queue is bound   *)
(* for.                                                                    *)
Send(d) ==
  /\ client = "up" /\ task[d] = "converted"
  /\ task' = [task EXCEPT ![d] = "sent"]
  /\ IF server = "down"
     THEN gone' = gone \cup {d} /\ UNCHANGED inbox
     ELSE inbox' = Append(inbox, [doc |-> d, body |-> body[d]]) /\ UNCHANGED gone
  /\ UNCHANGED <<client, written, next, body, buf, pos, alone, longest,
                 serverVars>>

(* The client's console is closed: its tasks end with it.                  *)
ClientExit ==
  /\ client = "up"
  /\ client' = "down"
  /\ gone' = gone \cup {d \in Docs : task[d] \in Stages \ {"none", "sent"}}
  /\ UNCHANGED <<task, written, next, body, buf, pos, alone, longest,
                 serverVars, inbox>>
-----------------------------------------------------------------------------
(* The RabbitMqClient constructor: queue declared, bound and consumed.     *)
ServerStart ==
  /\ server = "down" /\ runs < MaxRuns
  /\ server' = "bound" /\ runs' = runs + 1
  /\ UNCHANGED <<clientVars, inbox, writing, files, gone>>

(* ServerService.Start subscribes the handler.                             *)
Subscribe ==
  /\ server = "bound"
  /\ server' = "hooked"
  /\ UNCHANGED <<clientVars, runs, inbox, writing, files, gone>>

\* Mutant: a handled message is not acknowledged and comes again.
OnRecieveNoAck ==
  /\ server # "down" /\ inbox # << >>
  /\ IF server = "hooked"
     THEN writing' = Append(writing, Head(inbox)) /\ UNCHANGED <<gone, inbox>>
     ELSE /\ gone' = gone \cup {Head(inbox).doc}
          /\ inbox' = Tail(inbox) /\ UNCHANGED writing
  /\ UNCHANGED <<clientVars, server, runs, files>>

(* consumer.Received, autoAck: a message that finds no handler is gone.    *)
OnRecieveEventHandler ==
  /\ server # "down" /\ inbox # << >>
  /\ inbox' = Tail(inbox)
  /\ IF server = "hooked"
     THEN writing' = Append(writing, Head(inbox)) /\ UNCHANGED gone
     ELSE gone' = gone \cup {Head(inbox).doc} /\ UNCHANGED writing
  /\ UNCHANGED <<clientVars, server, runs, files>>

AsFile(m, w) == [doc |-> m.doc, body |-> m.body, whole |-> w]

(* GenerateAsync: WriteAllBytes on some thread of the pool, in any order;  *)
(* nobody looks at its task if it fails.                                   *)
WriteAllBytes(i) ==
  /\ i \in DOMAIN writing
  /\ writing' = RemoveAt(writing, i)
  /\ \/ files' = Append(files, AsFile(writing[i], TRUE)) /\ UNCHANGED gone
     \/ gone' = gone \cup {writing[i].doc} /\ UNCHANGED files
  /\ UNCHANGED <<clientVars, server, runs, inbox>>

\* Mutant: the queue outlives the connection.
ServerExitDurable ==
  /\ server # "down"
  /\ server' = "down"
  /\ writing' = << >>
  /\ \E begun \in SUBSET DOMAIN writing :
       files' = files \o SetToSeq({AsFile(writing[i], FALSE) : i \in begun})
  /\ gone' = gone \cup {inbox[i].doc : i \in DOMAIN inbox}
                  \cup {writing[i].doc : i \in DOMAIN writing}
  /\ UNCHANGED <<clientVars, runs, inbox>>

(* The server ends: its exclusive queue vanishes with the connection, and  *)
(* the files being written stay as they are, some begun, some not.         *)
ServerExit ==
  /\ server # "down"
  /\ server' = "down"
  /\ inbox' = << >> /\ writing' = << >>
  /\ \E begun \in SUBSET DOMAIN writing :
       files' = files \o SetToSeq({AsFile(writing[i], FALSE) : i \in begun})
  /\ gone' = gone \cup {inbox[i].doc : i \in DOMAIN inbox}
                  \cup {writing[i].doc : i \in DOMAIN writing}
  /\ UNCHANGED <<clientVars, runs>>
-----------------------------------------------------------------------------
Task(d) == \/ DrawImages(d) \/ StoreBlock(d) \/ MovePosition(d) \/ EndSave(d)
           \/ ToByteArray(d) \/ Send(d)

Next == \/ \E d \in Docs : OnFileReadyHandler(d) \/ Task(d)
        \/ ClientExit
        \/ ServerStart \/ Subscribe \/ OnRecieveEventHandler \/ ServerExit
        \/ \E i \in DOMAIN writing : WriteAllBytes(i)

(* Tasks of the pool, the connection's dispatcher and the server's main    *)
(* thread go on; nobody has to announce documents, start or stop a process.*)
Fairness == /\ \A d \in Docs : WF_vars(Task(d))
            /\ WF_vars(Subscribe) /\ WF_vars(OnRecieveEventHandler)
            /\ WF_vars(\E i \in DOMAIN writing : WriteAllBytes(i))

Spec == Init /\ [][Next]_vars
FairSpec == Spec /\ Fairness
-----------------------------------------------------------------------------
Larger(a, b) == IF a > b THEN a ELSE b

(* A document converted while no other one was begins with its own blocks  *)
(* in order, whatever overlapping conversions before it did to Position;   *)
(* what follows them is the rest of a longer stream saved earlier, for the *)
(* shared stream is never cut back.  So it is byte for byte the document   *)
(* when none before it was longer.                                         *)
SoloConversionsIntact ==
  LET Clean(d, b) == /\ Len(b) = Larger(Size[d], longest[d])
                     /\ \A i \in 1..Size[d] : b[i] = <<d, i>>
                     /\ \A i \in Size[d] + 1..Len(b) : b[i][1] # d
  IN /\ \A d \in Docs : alone[d] /\ task[d] \in {"converted", "sent"}
                          => Clean(d, body[d])
     /\ \A i \in DOMAIN files : alone[files[i].doc]
                                  => Clean(files[i].doc, files[i].body)

(* A document is in the queue, in a writer's hands or in a file once, never*)
(* twice, across restarts of the server and messages without a handler.    *)
NoDuplicates ==
  LET Places(d) == Cardinality({i \in DOMAIN inbox : inbox[i].doc = d})
                   + Cardinality({i \in DOMAIN writing : writing[i].doc = d})
                   + Cardinality({i \in DOMAIN files : files[i].doc = d})
  IN \A d \in Docs : Places(d) <= (IF task[d] = "sent" THEN 1 ELSE 0)

Offered   == {d \in Docs : task[d] # "none"}
Delivered == {files[i].doc : i \in {j \in DOMAIN files : files[j].whole}}

(* Client, broker and server together deliver a document at most once, and *)
(* never one that was lost on the way: nothing tries again.                *)
Delivery == INSTANCE AtMostOnceDelivery WITH
              offered <- Offered, delivered <- Delivered, lost <- gone
DeliverySpec == Delivery!Spec

(* No document hangs: it is written, or lost, in the end.                  *)
EveryDocumentResolved ==
  \A d \in Docs : task[d] # "none" ~> d \in Delivered \cup gone
=============================================================================
