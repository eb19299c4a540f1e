------------------------------ MODULE Calculator ------------------------------
(***************************************************************************)
(* AsyncAwait/Task1: a console that takes new limits while a task of the   *)
(* pool counts up to the last one.  The property's setter is two writes of *)
(* the console's thread, the limit and then the flag; the task tests the   *)
(* flag once per round, clears it and reads the limit again.               *)
(*                                                                         *)
(* Limits and results are ulong; a round sleeps 100 ms, so no run comes    *)
(* near 2^64.                                                              *)
(***************************************************************************)
EXTENDS Naturals

CONSTANTS Limits,    \* what the user types
          MaxWrites  \* bound: new limits the user enters

\* Of the constants; an instance assumes it.
LimitsAssumption == Limits \subseteq Nat /\ MaxWrites \in Nat

VARIABLES
  upperLimit, stateChanged,  \* the fields of Calculator
  main,      \* Program.Main: "reading", "setting", "asking", "waiting", ...
  pool,      \* the task: "queued", "looping", "clearing", "restarting", "ended"
  limit, i, result,  \* the current Calculate
  writes,    \* how often the limit was written
  entered,   \* history: which of these writes have also raised the flag
  taken,     \* history: which write the current Calculate has its limit from
  due        \* history: entered, at the last test of the flag

fields == <<upperLimit, stateChanged>>
console == <<main, writes, entered>>
task == <<pool, limit, i, result, taken, due>>
vars == <<fields, console, task>>

TypeOK ==
  /\ upperLimit \in Limits /\ stateChanged \in BOOLEAN
  /\ main \in {"reading", "setting", "asking", "waiting", "ended", "crashed"}
  /\ pool \in {"queued", "looping", "clearing", "restarting", "ended"}
  /\ limit \in Limits /\ i \in 0..limit /\ result \in 0..limit
  /\ writes \in 0..MaxWrites /\ entered \in 0..writes
  /\ taken \in 0..writes /\ due \in 0..entered
-----------------------------------------------------------------------------
(* Main has made the calculator and started its task.                      *)
Init ==
  /\ upperLimit \in Limits /\ stateChanged = FALSE
  /\ main = "reading" /\ writes = 0 /\ entered = 0
  /\ pool = "queued" /\ limit = upperLimit /\ i = 0 /\ result = 0
  /\ taken = 0 /\ due = 0

(* The setter: the limit ...                                               *)
WriteLimit(l) ==
  /\ main = "reading" /\ writes < MaxWrites
  /\ upperLimit' = l /\ writes' = writes + 1
  /\ main' = "setting"
  /\ UNCHANGED <<stateChanged, entered, task>>

(* ... and the flag.                                                       *)
RaiseFlag ==
  /\ main = "setting"
  /\ stateChanged' = TRUE /\ entered' = writes
  /\ main' = "asking"
  /\ UNCHANGED <<upperLimit, writes, task>>

(* Exit or another limit; a text that is no number throws.                 *)
Answer == /\ main = "asking" /\ main' \in {"reading", "waiting"}
          /\ UNCHANGED <<fields, writes, entered, task>>

NotANumber == /\ main = "reading" /\ main' = "crashed"
              /\ UNCHANGED <<fields, writes, entered, task>>

(* task.Result                                                             *)
PrintResult == /\ main = "waiting" /\ pool = "ended" /\ main' = "ended"
               /\ UNCHANGED <<fields, writes, entered, task>>
-----------------------------------------------------------------------------
(* A call of Calculate, with the UpperLimit of this moment.                *)
Calculate == /\ limit' = upperLimit /\ taken' = writes
             /\ i' = 0 /\ result' = 0
             /\ pool' = "looping"

Begin == /\ pool = "queued" /\ Calculate
         /\ UNCHANGED <<fields, console, due>>

(* One round: the test of the flag and, unless it is set, the addition.    *)
Round ==
  /\ pool = "looping" /\ i < limit
  /\ due' = entered
  /\ \/ stateChanged /\ pool' = "clearing" /\ UNCHANGED <<i, result>>
     \/ ~stateChanged /\ i' = i + 1 /\ result' = result + 1 /\ UNCHANGED pool
  /\ UNCHANGED <<fields, console, limit, taken>>

\* Mutant: a restart leaves the flag set.
ClearFlagNot ==
  /\ pool = "clearing" /\ pool' = "restarting"
  /\ UNCHANGED <<fields, console, limit, i, result, taken, due>>

ClearFlag ==
  /\ pool = "clearing" /\ pool' = "restarting"
  /\ stateChanged' = FALSE
  /\ UNCHANGED <<upperLimit, console, limit, i, result, taken, due>>

\* Mutant: Calculate(upperLimit), the parameter in place of the property.
RestartOldLimit ==
  /\ pool = "restarting" /\ pool' = "looping" /\ i' = 0 /\ result' = 0
  /\ UNCHANGED <<fields, console, limit, taken, due>>

\* Mutant: the restarted sum goes on from the one before it.
RestartKeepsResult ==
  /\ pool = "restarting" /\ pool' = "looping"
  /\ limit' = upperLimit /\ taken' = writes /\ i' = 0
  /\ UNCHANGED <<fields, console, result, due>>

(* result = Calculate(UpperLimit); break                                   *)
Restart == /\ pool = "restarting" /\ Calculate
           /\ UNCHANGED <<fields, console, due>>

(* Every Calculate has returned; the flag is cleared once more.            *)
Return ==
  /\ pool = "looping" /\ i = limit
  /\ stateChanged' = FALSE /\ pool' = "ended"
  /\ UNCHANGED <<upperLimit, console, limit, i, result, taken, due>>

CalculateAsync == /\ main # "crashed"
                  /\ Begin \/ Round \/ ClearFlag \/ Restart \/ Return

Console == \/ \E l \in Limits : WriteLimit(l)
           \/ RaiseFlag \/ Answer \/ NotANumber \/ PrintResult

Next == Console \/ CalculateAsync

(* The pool's thread goes on; a user who has asked for the end waits.      *)
Fairness == WF_vars(CalculateAsync) /\ WF_vars(PrintResult)

Spec == Init /\ [][Next]_vars /\ Fairness
-----------------------------------------------------------------------------
(* No limit the user has entered is ignored by a round: when a round goes  *)
(* on, its sum runs to a limit at least as new as the last one entered     *)
(* before the round tested the flag, and what is returned is the count of  *)
(* that one run.  (A limit entered after the last test, while the task     *)
(* returns, restarts nothing.)                                             *)
NoLimitIgnored ==
  /\ pool \in {"looping", "ended"} => taken >= due
  /\ pool = "ended" => result = limit

(* Restarts do not go on for ever once the user has stopped: the exit that *)
(* waits for the result is reached.                                        *)
ExitIsReached == main = "waiting" ~> main = "ended"

(* Program.cs:7 asks for the sum of the integers from 0 to N.              *)
SumFromZero == main = "ended" => result = (limit * (limit + 1)) \div 2

(* Program.cs:8-9: a new limit entered while the calculation runs must     *)
(* restart it.                                                             *)
NewLimitRestarts ==
  [][pool # "ended" /\ pool' = "ended" => taken >= entered]_vars
=============================================================================
