---------------------------- MODULE Multithreading ----------------------------
(***************************************************************************)
(* Multithreading/Version1: the exercises with threads that meet.  Task3   *)
(* multiplies matrices row by row in parallel, Task4 and Task5 hand a      *)
(* number down a chain of threads, Task6 has one thread add and pool tasks *)
(* print.  A program runs one of them; Init picks which.                   *)
(***************************************************************************)
EXTENDS Integers, Sequences, RunningSums

CONSTANTS MatrixA, MatrixB,  \* Task3's arguments, as sequences of rows
          Ten  \* where the chains of threads begin, and how many elements
               \* the list of Task6 gets: 10 in the source

\* Of the constants; an instance assumes it.  Rows of different lengths would
\* have the loops of Task3 read past the end of one.
ExerciseAssumption ==
  /\ Ten \in Nat \ {0}
  /\ MatrixA \in Seq(Seq(Int)) /\ MatrixB \in Seq(Seq(Int)) /\ Len(MatrixB) > 0
  /\ \A i \in DOMAIN MatrixA : Len(MatrixA[i]) = Len(MatrixB)
  /\ \A k \in DOMAIN MatrixB : Len(MatrixB[k]) = Len(MatrixB[1])

VARIABLES
  exercise,  \* which of the methods Main calls
  main,      \* the thread that calls it: "running", "waiting", "ended"
  row,       \* Task3: the j and k of each row's loops
  cell,      \* Task3: result
  chain,     \* Task4: where CreateThread(c) is; Task5: "queued", too
  printed,   \* what was written to the console
  permits,   \* Task5: the semaphore's count
  adder,     \* Task6: the thread that adds
  queued,    \* Task6: tasks started that wait for the lock
  printer,   \* Task6: the task that has the lock, and how far it is
  list, lock, event  \* Task6: the list, who holds Sync, resetEvent

vars == <<exercise, main, row, cell, chain, printed, permits, adder, queued,
          printer, list, lock, event>>
matrixVars == <<row, cell>>
listVars == <<adder, queued, printer, list, lock, event>>

Rows == DOMAIN MatrixA
Columns == DOMAIN MatrixB[1]
Inner == DOMAIN MatrixB
Chain == 0..Ten

TypeOK ==
  /\ exercise \in {"Task3", "Task4", "Task5", "Task6"}
  /\ main \in {"running", "waiting", "returning", "ended", "crashed"}
  /\ row \in [Rows -> (1..Len(MatrixB[1]) + 1) \X (1..Len(MatrixB))]
  /\ cell \in [Rows -> [Columns -> Int]]
  /\ chain \in [Chain -> {"none", "queued", "started", "joining", "ended"}]
  /\ printed \in IF exercise = "Task6" THEN Seq(Seq(Chain)) ELSE Seq(Chain)
  /\ permits \in 0..1
  /\ adder \in {"adding", "holding", "waiting", "ended"}
  /\ queued \in 0..Ten /\ printer \in {"none", "printing", "signalled"}
  /\ list \in Seq(Chain) /\ lock \in {"free", "adder", "printer"}
  /\ event \in BOOLEAN
-----------------------------------------------------------------------------
Init ==
  /\ exercise \in {"Task3", "Task4", "Task5", "Task6"}
  /\ main = "running"
  /\ row = [i \in Rows |-> <<1, 1>>]
  /\ cell = [i \in Rows |-> [j \in Columns |-> 0]]
  /\ chain = [c \in Chain |-> "none"]
  /\ printed = << >> /\ permits = 1
  /\ adder = "adding" /\ queued = 0 /\ printer = "none"
  /\ list = << >> /\ lock = "free" /\ event = FALSE

Alive(e) == exercise = e /\ main \notin {"ended", "crashed"}

\* Mutant: an assignment in place of +=.
MultiplyOver(i) ==
  LET j == row[i][1]
      k == row[i][2]
  IN /\ Alive("Task3") /\ j \in Columns
     /\ cell' = [cell EXCEPT ![i][j] = MatrixA[i][k] * MatrixB[k][j]]
     /\ row' = [row EXCEPT ![i] = IF k < Len(MatrixB) THEN <<j, k + 1>>
                                  ELSE <<j + 1, 1>>]
     /\ UNCHANGED <<exercise, main, chain, printed, permits, listVars>>

(* Task3: one += of the body of Parallel.For, and its return.              *)
Multiply(i) ==
  LET j == row[i][1]
      k == row[i][2]
  IN /\ Alive("Task3") /\ j \in Columns
     /\ cell' = [cell EXCEPT ![i][j] = @ + MatrixA[i][k] * MatrixB[k][j]]
     /\ row' = [row EXCEPT ![i] = IF k < Len(MatrixB) THEN <<j, k + 1>>
                                  ELSE <<j + 1, 1>>]
     /\ UNCHANGED <<exercise, main, chain, printed, permits, listVars>>

EndFor == /\ Alive("Task3") /\ \A i \in Rows : row[i][1] \notin Columns
          /\ main' = "ended"
          /\ UNCHANGED <<exercise, matrixVars, chain, printed, permits, listVars>>
-----------------------------------------------------------------------------
(* Task4's CreateThread(c): prints, starts its successor and joins it.     *)
CreateThread(c) ==
  /\ Alive("Task4")
  /\ chain[c] = "started" \/ (c = Ten /\ chain[c] = "none")
  /\ printed' = Append(printed, c)
  /\ chain' = IF c = 0 THEN [chain EXCEPT ![c] = "ended"]
              ELSE [chain EXCEPT ![c] = "joining", ![c - 1] = "started"]
  /\ UNCHANGED <<exercise, main, matrixVars, permits, listVars>>

\* Mutant: nobody joins.
JoinNot(c) ==
  /\ Alive("Task4") /\ chain[c] = "joining"
  /\ chain' = [chain EXCEPT ![c] = "ended"]
  /\ main' = IF c = Ten THEN "ended" ELSE main
  /\ UNCHANGED <<exercise, matrixVars, printed, permits, listVars>>

(* thread.Join returns; the first CreateThread runs on the main thread.    *)
Join(c) ==
  /\ Alive("Task4") /\ chain[c] = "joining" /\ chain[c - 1] = "ended"
  /\ chain' = [chain EXCEPT ![c] = "ended"]
  /\ main' = IF c = Ten THEN "ended" ELSE main
  /\ UNCHANGED <<exercise, matrixVars, printed, permits, listVars>>

(* Task5's CreateThread(c), on the main thread first and then on the pool. *)
(* Release of a semaphore that is full throws, and nothing catches it.     *)
QueueUserWorkItem(c) ==
  /\ Alive("Task5")
  /\ chain[c] = "queued" \/ (c = Ten /\ chain[c] = "none")
  /\ printed' = Append(printed, c)
  /\ chain' = IF c = 0 THEN [chain EXCEPT ![c] = "ended"]
              ELSE [chain EXCEPT ![c] = "ended", ![c - 1] = "queued"]
  /\ main' = IF c = Ten THEN "waiting"
             ELSE IF c = 0 /\ permits = 1 THEN "crashed" ELSE main
  /\ permits' = IF c = 0 THEN 1 ELSE permits
  /\ UNCHANGED <<exercise, matrixVars, listVars>>

(* semaphore.WaitOne, behind which Main ends, and with it the process.      *)
WaitOne ==
  /\ exercise = "Task5" /\ main = "waiting" /\ permits = 1
  /\ permits' = 0 /\ main' = "returning"
  /\ UNCHANGED <<exercise, matrixVars, chain, printed, listVars>>

EndTask5 == /\ exercise = "Task5" /\ main = "returning" /\ main' = "ended"
            /\ UNCHANGED <<exercise, matrixVars, chain, printed, permits, listVars>>
-----------------------------------------------------------------------------
(* Task6, the thread that adds: the lock is taken, ...                     *)
other6 == <<exercise, matrixVars, chain, permits>>

Enter == /\ Alive("Task6") /\ adder = "adding" /\ Len(list) < Ten
         /\ lock = "free" /\ lock' = "adder" /\ adder' = "holding"
         /\ UNCHANGED <<other6, main, printed, queued, printer, list, event>>

\* Mutant: the next element is added without waiting for the event.
AddAndGoOn ==
  /\ Alive("Task6") /\ adder = "holding"
  /\ list' = Append(list, Len(list)) /\ lock' = "free"
  /\ queued' = queued + 1 /\ adder' = "adding"
  /\ UNCHANGED <<other6, main, printed, printer, event>>

(* ... an element added, and after the lock a task started that prints.    *)
Add == /\ Alive("Task6") /\ adder = "holding"
       /\ list' = Append(list, Len(list)) /\ lock' = "free"
       /\ queued' = queued + 1 /\ adder' = "waiting"
       /\ UNCHANGED <<other6, main, printed, printer, event>>

(* resetEvent.WaitOne, which resets it.                                    *)
Wake == /\ Alive("Task6") /\ adder = "waiting" /\ event
        /\ event' = FALSE /\ adder' = "adding"
        /\ UNCHANGED <<other6, main, printed, queued, printer, list, lock>>

(* The thread is through, and Main has joined it.                          *)
EndTask6 ==
  /\ Alive("Task6") /\ adder = "adding" /\ Len(list) = Ten
  /\ adder' = "ended" /\ main' = "ended"
  /\ UNCHANGED <<other6, printed, queued, printer, list, lock, event>>

(* A task that prints: the lock, ...                                       *)
Lock == /\ Alive("Task6") /\ queued > 0 /\ lock = "free"
        /\ lock' = "printer" /\ queued' = queued - 1 /\ printer' = "printing"
        /\ UNCHANGED <<other6, main, printed, adder, list, event>>

(* ... what the list holds, the event, ...                                 *)
PrintList ==
  /\ Alive("Task6") /\ printer = "printing"
  /\ printed' = Append(printed, list)
  /\ event' = TRUE /\ printer' = "signalled"
  /\ UNCHANGED <<other6, main, queued, adder, list, lock>>

(* ... and the end of the lock.                                            *)
Unlock == /\ Alive("Task6") /\ printer = "signalled"
          /\ lock' = "free" /\ printer' = "none"
          /\ UNCHANGED <<other6, main, printed, queued, adder, list, event>>
-----------------------------------------------------------------------------
Task3 == (\E i \in Rows : Multiply(i)) \/ EndFor
Task4 == \E c \in Chain : CreateThread(c) \/ Join(c)
Task5 == (\E c \in Chain : QueueUserWorkItem(c)) \/ WaitOne \/ EndTask5
Task6 == Enter \/ Add \/ Wake \/ EndTask6 \/ Lock \/ PrintList \/ Unlock

Next == Task3 \/ Task4 \/ Task5 \/ Task6

Spec == Init /\ [][Next]_vars
-----------------------------------------------------------------------------
\* Row i times column j, product by product.
CellSums(i, j) ==
  PartialSums([k \in Inner |-> MatrixA[i][k] * MatrixB[k][j]], Len(MatrixB))

Product == [i \in Rows |-> [j \in Columns |-> CellSums(i, j)[Len(MatrixB)]]]

Countdown == [n \in 1..Ten + 1 |-> Ten + 1 - n]
Growing  == [n \in 1..Ten |-> [k \in 1..n |-> k - 1]]

(* When Task3 has returned, its parallel rows have made the product.       *)
ProductComplete == main = "ended" /\ exercise = "Task3" => cell = Product

(* When Task4 or Task6 has returned, all it started has had its turn: each *)
(* thread of Task4 has printed after the one that started it, and Task6    *)
(* has printed the list after each element, before the next one.  (Task5   *)
(* promises nothing of the kind.)                                          *)
OutputInTurn ==
  main = "ended" =>
    /\ exercise = "Task4" => printed = Countdown
    /\ exercise = "Task6" => printed = Growing

(* Program.cs:138-140 has Task5 wait for its threads with the semaphore.   *)
ChainIsAwaited == exercise = "Task5" /\ main = "ended" => printed = Countdown
=============================================================================
