---------------------------- MODULE UploadManager ----------------------------
(***************************************************************************)
(* AsyncAwait/UploadManager: WebPageUploader and the window that uses it.  *)
(* All of its code runs on the window's one thread: handlers of clicks up  *)
(* to their first await, and what follows an await when the dispatcher     *)
(* comes to it.  The network moves between them.  A click of Upload starts *)
(* a batch of Slots uploads (three in the source); nothing disables the    *)
(* button while a batch runs.                                              *)
(***************************************************************************)
EXTENDS Integers, FiniteSetsExt

CONSTANTS Batches,  \* clicks of Upload
          Slots     \* uploads of one click

ASSUME SlotsAssumption == Slots \in Nat \ {0}

VARIABLES
  batch,      \* Button_Upload_Click: "idle", "awaiting" or "ended"
  logged,     \* batches that logged an unexpected exception
  net,        \* what became of an upload's download
  task,       \* how UploadAsync ended
  entries,    \* the uploads in _cancelActions
  cancelled   \* how often an upload was reported to be cancelled

vars == <<batch, logged, net, task, entries, cancelled>>

Uploads == Batches \X (1..Slots)
Of(b) == {b} \X (1..Slots)

Faults == {"requestCanceled", "webError", "other"}

TypeOK ==
  /\ batch \in [Batches -> {"idle", "awaiting", "ended"}]
  /\ logged \subseteq Batches
  /\ net \in [Uploads -> {"none", "running", "arrived", "failed", "aborted"}]
  /\ task \in [Uploads -> {"none", "running", "saved", "canceled"} \cup Faults]
  /\ entries \subseteq Uploads
  /\ cancelled \in [Uploads -> 0..1]
-----------------------------------------------------------------------------
(* The catch clauses of Button_Upload_Click.  await throws what the first  *)
(* faulted upload threw, and a TaskCanceledException only if none faulted. *)
(* t is how the uploads ended.                                             *)
Ended(t, b) == \A u \in Of(b) : t[u] # "running"

FirstFault(t, b) ==
  LET faulted == {i \in 1..Slots : t[<<b, i>>] \in Faults}
  IN IF faulted # {} THEN t[<<b, Min(faulted)>>]
     ELSE IF \E u \in Of(b) : t[u] = "canceled" THEN "canceled" ELSE "none"

\* Mutant: without the filter on the status.
UnexpectedAnyWeb(t, b) == FirstFault(t, b) \in {"other", "canceled"}

Unexpected(t, b) == FirstFault(t, b) \in {"webError", "other", "canceled"}

Init ==
  /\ batch = [b \in Batches |-> "idle"] /\ logged = {}
  /\ net = [u \in Uploads |-> "none"]
  /\ task = [u \in Uploads |-> "none"]
  /\ entries = {} /\ cancelled = [u \in Uploads |-> 0]

(* One of the texts is no address: new Uri throws, no upload is started.   *)
ClickNoUri(b) ==
  /\ batch[b] = "idle"
  /\ batch' = [batch EXCEPT ![b] = "ended"]
  /\ logged' = logged \cup {b}
  /\ UNCHANGED <<net, task, entries, cancelled>>

(* Every UploadAsync runs to its download, or throws for an address that   *)
(* is not well-formed, before it is registered.  If all throw, WhenAll has *)
(* ended when it is awaited.                                               *)
ClickUpload(b) ==
  /\ batch[b] = "idle"
  /\ \E good \in SUBSET Of(b) :
       /\ task' = [u \in Uploads |-> IF u \in good THEN "running"
                                     ELSE IF u \in Of(b) THEN "other" ELSE task[u]]
       /\ net' = [u \in Uploads |-> IF u \in good THEN "running" ELSE net[u]]
       /\ entries' = entries \cup good
       /\ batch' = [batch EXCEPT ![b] = IF good = {} THEN "ended" ELSE "awaiting"]
       /\ logged' = IF good = {} THEN logged \cup {b} ELSE logged
  /\ UNCHANGED cancelled

(* The download ends: what it brought is posted to the window's thread.    *)
Arrive(u) == /\ net[u] = "running"
             /\ net' = [net EXCEPT ![u] = "arrived"]
             /\ UNCHANGED <<batch, logged, task, entries, cancelled>>

Fail(u) == /\ net[u] = "running"
           /\ net' = [net EXCEPT ![u] = "failed"]
           /\ UNCHANGED <<batch, logged, task, entries, cancelled>>

(* UploadAsync behind its await.  The file may fail to be written; a       *)
(* download that throws leaves its entry behind.                           *)
UploadAsync(u) ==
  /\ task[u] = "running"
  /\ \/ /\ net[u] = "arrived"
        /\ entries' = entries \ {u}
        /\ \E end \in {"saved", "other"} : task' = [task EXCEPT ![u] = end]
     \/ /\ net[u] = "failed"
        /\ task' = [task EXCEPT ![u] = "webError"]
        /\ UNCHANGED entries
     \/ /\ net[u] = "aborted"
        /\ \E end \in {"requestCanceled", "canceled"} :
             task' = [task EXCEPT ![u] = end]
        /\ UNCHANGED entries
  /\ UNCHANGED <<batch, logged, net, cancelled>>

(* The rest of Button_Upload_Click.                                        *)
EndClick(b) ==
  /\ batch[b] = "awaiting" /\ Ended(task, b)
  /\ batch' = [batch EXCEPT ![b] = "ended"]
  /\ logged' = IF Unexpected(task, b) THEN logged \cup {b} ELSE logged
  /\ UNCHANGED <<net, task, entries, cancelled>>

(* CancelAsync ends a download that is under way, and does nothing to one  *)
(* that has ended.                                                         *)
Abort(u) == IF u \in entries /\ net[u] = "running" THEN "aborted" ELSE net[u]

Report == [u \in Uploads |-> IF u \in entries THEN cancelled[u] + 1
                             ELSE cancelled[u]]

\* Mutant: reports, and forgets to call the action.
CancelReportOnly ==
  /\ cancelled' = Report
  /\ entries' = {}
  /\ UNCHANGED <<batch, logged, task, net>>

Cancel ==
  /\ net' = [u \in Uploads |-> Abort(u)]
  /\ cancelled' = Report
  /\ entries' = {}
  /\ UNCHANGED <<batch, logged, task>>

Next ==
  \/ \E b \in Batches : ClickNoUri(b) \/ ClickUpload(b) \/ EndClick(b)
  \/ \E u \in Uploads : Arrive(u) \/ Fail(u) \/ UploadAsync(u)
  \/ Cancel

(* The dispatcher comes to every continuation; the network promises nothing,*)
(* and nobody has to click.                                                *)
Fairness == \A u \in Uploads : WF_vars(UploadAsync(u))

Spec == Init /\ [][Next]_vars /\ Fairness
-----------------------------------------------------------------------------
(* An upload that is reported to be cancelled before its page has arrived  *)
(* ends, and without a file, whatever the network does.  (One whose page   *)
(* has arrived, but whose continuation waits, is reported to be cancelled  *)
(* and then saved.)                                                        *)
CancelIsFinal ==
  \A u \in Uploads :
    cancelled[u] = 1 /\ net[u] # "arrived"
      ~> task[u] \in {"canceled"} \cup Faults

(* No upload ends in silence: when the click that started it is over, an   *)
(* upload that was not saved was reported to be cancelled, or an unexpected*)
(* exception was logged, or an upload before it of the same click was      *)
(* cancelled and hides it, as await throws the first exception only.       *)
FailuresShown ==
  \A u \in Uploads :
    batch[u[1]] = "ended" /\ task[u] # "saved" =>
      \/ u[1] \in logged
      \/ cancelled[u] = 1
      \/ \E i \in 1..u[2] - 1 : /\ cancelled[<<u[1], i>>] = 1
                              /\ task[<<u[1], i>>] = "requestCanceled"
=============================================================================
