------------------------- MODULE AtMostOnceDelivery -------------------------
(***************************************************************************)
(* What the messaging client and server promise about a finished document: *)
(* it is delivered at most once.  Nothing promises that it is: a document  *)
(* on its way may be lost, and then it stays lost.                         *)
(***************************************************************************)
CONSTANT Docs

VARIABLES offered,    \* documents given to the client's proxy
          delivered,  \* documents the server has written to a file
          lost        \* documents that will never be written

vars == <<offered, delivered, lost>>

Init == offered = {} /\ delivered = {} /\ lost = {}

Offer(d) == /\ d \notin offered
            /\ offered' = offered \cup {d}
            /\ UNCHANGED <<delivered, lost>>

Deliver(d) == /\ d \in offered \ (delivered \cup lost)
              /\ delivered' = delivered \cup {d}
              /\ UNCHANGED <<offered, lost>>

\* A process that ends, or a queue that vanishes, loses several at once.
Lose(S) == /\ S \subseteq offered \ (delivered \cup lost)
           /\ lost' = lost \cup S
           /\ UNCHANGED <<offered, delivered>>

Next == \/ \E d \in Docs : Offer(d) \/ Deliver(d)
        \/ \E S \in SUBSET Docs : Lose(S)

Spec == Init /\ [][Next]_vars
=============================================================================
