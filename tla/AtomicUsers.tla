----------------------------- MODULE AtomicUsers -----------------------------
(***************************************************************************)
(* What a caller of UserRepository may assume: each call takes effect at   *)
(* one moment between its start and its end, and an update is refused only *)
(* if another call has changed that user meanwhile.                        *)
(***************************************************************************)
CONSTANTS Calls, Users, IdOf,
          null

VARIABLES
  stored,    \* the user kept under each Id, or null
  call,      \* what each call asks for and what it has returned
  disturbed  \* calls under way whose Id another call has changed since

vars == <<stored, call, disturbed>>

Ids == {IdOf[u] : u \in Users}
None == [state |-> "idle", op |-> "none", id |-> null, user |-> null,
         result |-> null]

Called(c, op) == call[c].state = "called" /\ call[c].op = op
Kept(c) == stored[call[c].id]

Return(c, r) ==
  call' = [call EXCEPT ![c] = [@ EXCEPT !.state = "returned", !.result = r]]

Store(c, user) ==
  /\ stored' = [stored EXCEPT ![call[c].id] = user]
  /\ disturbed' = disturbed \cup
       {d \in Calls \ {c} : call[d].state = "called" /\ call[d].id = call[c].id}
-----------------------------------------------------------------------------
Init == /\ stored = [id \in Ids |-> null]
        /\ call = [c \in Calls |-> None] /\ disturbed = {}

Start(c, op, id, user) ==
  /\ call[c] = None
  /\ call' = [call EXCEPT ![c] = [state |-> "called", op |-> op, id |-> id,
                                  user |-> user, result |-> null]]
  /\ UNCHANGED <<stored, disturbed>>

Add(c) ==
  /\ Called(c, "Add")
  /\ \/ Kept(c) = null /\ Store(c, call[c].user) /\ Return(c, "true")
     \/ Kept(c) # null /\ Return(c, "false") /\ UNCHANGED <<stored, disturbed>>

Remove(c) ==
  /\ Called(c, "Remove") /\ Return(c, Kept(c))
  /\ IF Kept(c) = null THEN UNCHANGED <<stored, disturbed>> ELSE Store(c, null)

Get(c) == Called(c, "Get") /\ Return(c, Kept(c)) /\ UNCHANGED <<stored, disturbed>>

Update(c) ==
  /\ Called(c, "Update")
  /\ \/ Kept(c) # null /\ Store(c, call[c].user) /\ Return(c, "true")
     \/ Kept(c) = null /\ Return(c, "thrown") /\ UNCHANGED <<stored, disturbed>>
     \/ c \in disturbed /\ Return(c, "false") /\ UNCHANGED <<stored, disturbed>>

Next ==
  \E c \in Calls :
    \/ \E u \in Users, op \in {"Add", "Update"} : Start(c, op, IdOf[u], u)
    \/ \E id \in Ids, op \in {"Remove", "Get"} : Start(c, op, id, null)
    \/ Add(c) \/ Remove(c) \/ Get(c) \/ Update(c)

Spec == Init /\ [][Next]_vars
=============================================================================
