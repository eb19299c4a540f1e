---------------------------- MODULE UserRepository ----------------------------
(***************************************************************************)
(* AsyncAwait/CRUD: a ConcurrentDictionary of users.  Each call is delayed *)
(* and then continues on the pool, in any order.  Its operations on the    *)
(* dictionary are atomic; UpdateAsync makes two of them, and TryUpdate     *)
(* compares the User objects by reference.  A user is an object; several   *)
(* may have the same Id.                                                   *)
(***************************************************************************)
CONSTANTS Calls,  \* calls of the repository
          Users, IdOf,
          null

VARIABLES
  users,     \* _users: the object under each Id, or null
  call,      \* the arguments of each call, its result, and where it is
  seen,      \* what UpdateAsync has read from _users[id]
  disturbed  \* history: calls under way whose Id another one has changed

vars == <<users, call, seen, disturbed>>

Ids == {IdOf[u] : u \in Users}
Results == {"true", "false", "thrown", null} \cup Users
None == [state |-> "idle", op |-> "none", id |-> null, user |-> null,
         result |-> null]

TypeOK ==
  /\ users \in [Ids -> Users \cup {null}]
  /\ call \in [Calls -> [state : {"idle", "called", "read", "returned"},
                         op : {"none", "Add", "Remove", "Update", "Get"},
                         id : Ids \cup {null}, user : Users \cup {null},
                         result : Results]]
  /\ seen \in [Calls -> Users \cup {null}]
  /\ disturbed \subseteq Calls

Called(c, op) == call[c].state = "called" /\ call[c].op = op
Kept(c) == users[call[c].id]

Return(c, r) ==
  call' = [call EXCEPT ![c] = [@ EXCEPT !.state = "returned", !.result = r]]

(* The dictionary's entry of the call's Id is written.                     *)
Write(c, user) ==
  /\ users' = [users EXCEPT ![call[c].id] = user]
  /\ disturbed' = disturbed \cup
       {d \in Calls \ {c} : /\ call[d].state \in {"called", "read"}
                            /\ call[d].id = call[c].id}
-----------------------------------------------------------------------------
Init == /\ users = [id \in Ids |-> null]
        /\ call = [c \in Calls |-> None]
        /\ seen = [c \in Calls |-> null] /\ disturbed = {}

(* A call of one of the four methods, up to its Task.Delay.                *)
Start(c, op, id, user) ==
  /\ call[c] = None
  /\ call' = [call EXCEPT ![c] = [state |-> "called", op |-> op, id |-> id,
                                  user |-> user, result |-> null]]
  /\ UNCHANGED <<users, seen, disturbed>>

AddAsync(c) ==
  /\ Called(c, "Add")
  /\ IF Kept(c) = null THEN Write(c, call[c].user) /\ Return(c, "true")
     ELSE Return(c, "false") /\ UNCHANGED <<users, disturbed>>
  /\ UNCHANGED seen

RemoveAsync(c) ==
  /\ Called(c, "Remove") /\ Return(c, Kept(c))
  /\ IF Kept(c) = null THEN UNCHANGED <<users, disturbed>> ELSE Write(c, null)
  /\ UNCHANGED seen

GetAsync(c) ==
  /\ Called(c, "Get") /\ Return(c, Kept(c))
  /\ UNCHANGED <<users, seen, disturbed>>

(* UpdateAsync: the indexer, which throws if there is nobody, ...          *)
ReadCurrent(c) ==
  /\ Called(c, "Update")
  /\ seen' = [seen EXCEPT ![c] = Kept(c)]
  /\ IF Kept(c) = null THEN Return(c, "thrown")
     ELSE call' = [call EXCEPT ![c].state = "read"]
  /\ UNCHANGED <<users, disturbed>>

\* Mutant: _users[id] = user, whatever was done to it meanwhile.
TryUpdateAlways(c) ==
  /\ call[c].state = "read"
  /\ Write(c, call[c].user) /\ Return(c, "true")
  /\ UNCHANGED seen

(* ... and TryUpdate, which compares with what the indexer returned.       *)
TryUpdate(c) ==
  /\ call[c].state = "read"
  /\ IF Kept(c) = seen[c] THEN Write(c, call[c].user) /\ Return(c, "true")
     ELSE Return(c, "false") /\ UNCHANGED <<users, disturbed>>
  /\ UNCHANGED seen

Next ==
  \E c \in Calls :
    \/ \E u \in Users, op \in {"Add", "Update"} : Start(c, op, IdOf[u], u)
    \/ \E id \in Ids, op \in {"Remove", "Get"} : Start(c, op, id, null)
    \/ AddAsync(c) \/ RemoveAsync(c) \/ GetAsync(c) \/ ReadCurrent(c)
    \/ TryUpdate(c)

Spec == Init /\ [][Next]_vars
-----------------------------------------------------------------------------
(* Every call takes effect at one moment, an update too: it never brings a *)
(* removed user back, throws only if there was no user, and is refused only*)
(* if another call has changed the user while it ran.                      *)
Atomic == INSTANCE AtomicUsers WITH
            stored <- users,
            call <- [c \in Calls |->
                       IF call[c].state = "read"
                       THEN [call[c] EXCEPT !.state = "called"] ELSE call[c]]
AtomicSpec == Atomic!Spec
=============================================================================
