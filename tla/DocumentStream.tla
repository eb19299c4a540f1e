--------------------------- MODULE DocumentStream ---------------------------
(***************************************************************************)
(* What a directory listener promises its subscribers, with no directory,  *)
(* watcher, clock or name in sight: a stream of accepted images is cut     *)
(* into documents.  An image either extends the open document or closes a  *)
(* non-empty one and opens the next; a document that was handed over is    *)
(* never touched again.  A new process starts a new session.               *)
(***************************************************************************)
EXTENDS Sequences

CONSTANT Images

VARIABLES accepted,  \* the images accepted in this session, in order
          closed,    \* the documents handed to the subscribers, in order
          open       \* the images of the document being collected

vars == <<accepted, closed, open>>

Init == accepted = << >> /\ closed = << >> /\ open = << >>

Extend(i) == /\ accepted' = Append(accepted, i)
             /\ open' = Append(open, i)
             /\ UNCHANGED closed

Cut(i) == /\ open # << >>
          /\ accepted' = Append(accepted, i)
          /\ closed' = Append(closed, open)
          /\ open' = <<i>>

(* The open document is closed although no image has arrived.              *)
Flush == /\ open # << >>
         /\ closed' = Append(closed, open)
         /\ open' = << >>
         /\ UNCHANGED accepted

NewSession == accepted' = << >> /\ closed' = << >> /\ open' = << >>

Next == NewSession \/ Flush \/ \E i \in Images : Extend(i) \/ Cut(i)

Spec == Init /\ [][Next]_vars
=============================================================================
