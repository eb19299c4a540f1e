--------------------------- MODULE MessageStorage ---------------------------
(***************************************************************************)
(* Chat/Socket/MessageStorage.cs: a ConcurrentStack that Push keeps at     *)
(* Capacity (10) messages.  Every operation of the stack is atomic, Push   *)
(* is three of them: test Count, TryPop, Push.  Handlers of different      *)
(* connections call it at the same time.  stack[1] is the bottom.          *)
(***************************************************************************)
EXTENDS Integers, Sequences, FiniteSets, SequencesExt

CONSTANTS Pushers, Messages, Capacity

ASSUME CapacityAssumption == Capacity \in Nat \ {0}

\* The callers are the threads of one process.
ASSUME PushersAssumption == IsFiniteSet(Pushers)

VARIABLES
  stack,     \* Messages
  step,      \* "idle", or what each caller's Push does next
  msg,       \* its argument
  pushed,    \* history: the arguments of all finished Pushes that returned true
  refused,   \* history: some Push returned false
  crowded    \* history: two Pushes were under way at once

storageVars == <<stack, step, msg, pushed, refused, crowded>>

StorageTypeOK == /\ stack \in Seq(Messages)
          /\ step \in [Pushers -> {"idle", "pop", "push"}]
          /\ msg \in [Pushers -> Messages]
          /\ pushed \in Seq(Messages)
          /\ Len(stack) <= Len(pushed)
          /\ refused \in BOOLEAN /\ crowded \in BOOLEAN

StorageInit == /\ stack = << >> /\ pushed = << >>
        /\ step = [p \in Pushers |-> "idle"]
        /\ msg \in [Pushers -> Messages]
        /\ refused = FALSE /\ crowded = FALSE

(* Mutant: the bound is tested after the fact.                             *)
TestCountLate(p, m) ==
  /\ step[p] = "idle"
  /\ step' = [step EXCEPT ![p] = IF Len(stack) > Capacity THEN "pop" ELSE "push"]
  /\ msg' = [msg EXCEPT ![p] = m]
  /\ crowded' = (crowded \/ \E q \in Pushers \ {p} : step[q] # "idle")
  /\ UNCHANGED <<stack, pushed, refused>>

(* if (Messages.Count == 10)                                               *)
TestCount(p, m) ==
  /\ step[p] = "idle"
  /\ step' = [step EXCEPT ![p] = IF Len(stack) = Capacity THEN "pop" ELSE "push"]
  /\ msg' = [msg EXCEPT ![p] = m]
  /\ crowded' = (crowded \/ \E q \in Pushers \ {p} : step[q] # "idle")
  /\ UNCHANGED <<stack, pushed, refused>>

(* Mutant: the oldest message makes room.                                  *)
TryPopOldest(p) ==
  /\ step[p] = "pop"
  /\ IF stack # << >>
     THEN /\ stack' = Tail(stack)
          /\ step' = [step EXCEPT ![p] = "push"]
          /\ UNCHANGED refused
     ELSE /\ step' = [step EXCEPT ![p] = "idle"]
          /\ refused' = TRUE
          /\ UNCHANGED stack
  /\ UNCHANGED <<msg, pushed, crowded>>

(* Mutant: a full storage is emptied.                                     *)
TryPopClear(p) ==
  /\ step[p] = "pop"
  /\ IF stack # << >>
     THEN /\ stack' = << >>
          /\ step' = [step EXCEPT ![p] = "push"]
          /\ UNCHANGED refused
     ELSE /\ step' = [step EXCEPT ![p] = "idle"]
          /\ refused' = TRUE
          /\ UNCHANGED stack
  /\ UNCHANGED <<msg, pushed, crowded>>

(* success = Messages.TryPop(out pop); on failure Push returns false.      *)
TryPop(p) ==
  /\ step[p] = "pop"
  /\ IF stack # << >>
     THEN /\ stack' = Front(stack)
          /\ step' = [step EXCEPT ![p] = "push"]
          /\ UNCHANGED refused
     ELSE /\ step' = [step EXCEPT ![p] = "idle"]
          /\ refused' = TRUE
          /\ UNCHANGED stack
  /\ UNCHANGED <<msg, pushed, crowded>>

(* Messages.Push(msg)                                                      *)
DoPush(p) ==
  /\ step[p] = "push"
  /\ stack' = Append(stack, msg[p])
  /\ pushed' = Append(pushed, msg[p])
  /\ step' = [step EXCEPT ![p] = "idle"]
  /\ UNCHANGED <<msg, refused, crowded>>

StorageNext == \E p \in Pushers : \/ \E m \in Messages : TestCount(p, m)
                           \/ TryPop(p) \/ DoPush(p)

StorageSpec == StorageInit /\ [][StorageNext]_storageVars
-----------------------------------------------------------------------------
(* While no two Pushes overlap the storage holds at most Capacity messages:*)
(* the first Capacity - 1 ever pushed, and on top of them the newest one;  *)
(* not, as the handshake's text says, the last ones.                       *)
KeptWhenAlone ==
  ~crowded /\ (\A p \in Pushers : step[p] = "idle") =>
    IF Len(pushed) <= Capacity THEN stack = pushed
    ELSE stack = Append(SubSeq(pushed, 1, Capacity - 1), Last(pushed))

(* Push never returns false while at most Capacity callers push at once:   *)
(* each caller that is about to pop finds something to pop, although others*)
(* may pop between its test and its TryPop.                                *)
PushSucceeds == Cardinality(Pushers) <= Capacity => ~refused

(* The oldest messages are never given up: whatever overlaps, a message at *)
(* least as many places below the top as there are callers stays for ever. *)
OldestStay ==
  [][\A i \in 1..Capacity - Cardinality(Pushers) :
       i <= Len(stack) => i <= Len(stack') /\ stack'[i] = stack[i]]_storageVars
=============================================================================
