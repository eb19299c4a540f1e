------------------------------- MODULE Exercises -------------------------------
(***************************************************************************)
(* The small programs of "MultiThreading in .Net" side by side: the        *)
(* uploads, the calculator, the users, the shop and the thread exercises.  *)
(* They share nothing; what is said here of one is said with its own       *)
(* variables.                                                              *)
(***************************************************************************)
EXTENDS UploadManager, Sequences

CONSTANTS Limits, MaxWrites,
          Users, IdOf, null, Calls,
          Entered, Prices, MaxClicks, MaxEdits, MaxSums, MaxTotal,
          MatrixA, MatrixB, Ten

VARIABLES
  upperLimit, stateChanged, calcMain, pool, limit, round, result, writes,
  entered, taken, due,
  users, call, seen, disturbed,
  window, price, edited, edits, products, version, subscribed, click, delayed,
  sum, totalPrice, damaged, overlap,
  exercise, main, row, cell, chain, printed, permits, adder, queued, printer,
  list, lock, event

Calc == INSTANCE Calculator WITH main <- calcMain, i <- round
Crud == INSTANCE UserRepository
Shop == INSTANCE ProductService
Threads == INSTANCE Multithreading

ASSUME ExercisesAssumption ==
  Calc!LimitsAssumption /\ Shop!ShopAssumption /\ Threads!ExerciseAssumption
-----------------------------------------------------------------------------
(* The type invariants of the five programs.                               *)
AllTypeOK == TypeOK /\ Calc!TypeOK /\ Crud!TypeOK /\ Shop!TypeOK /\ Threads!TypeOK

(* Calculator: no round of the sum goes on past a limit entered before it. *)
NoLimitIgnored == Calc!NoLimitIgnored

(* Calculator: an exit that waits for the result comes to its end.         *)
ExitIsReached == Calc!ExitIsReached

(* UserRepository: the calls behave like those of an atomic store.         *)
AtomicSpec == Crud!AtomicSpec

(* ProductService: the list comes to hold what was added and not removed,  *)
(* each once, unless two changes have overlapped.                          *)
ListSettles == Shop!ListSettles

(* Sums that are made step by step are whole: in ProductService TotalPrice *)
(* comes to be that of the list, unless two changes or two sums have       *)
(* overlapped, and in Multithreading Task3's rows in parallel make the     *)
(* product.                                                                *)
SumsComplete == Shop!TotalSettles /\ Threads!ProductComplete

(* Multithreading: what Task4 and Task6 have started is done when they     *)
(* return, and each thread printed in its turn.                            *)
OutputInTurn == Threads!OutputInTurn
==============================================================================
