----------------------------- MODULE MCExercises -----------------------------
(***************************************************************************)
(* An instance of Exercises and, beside them, of the Expressions of        *)
(* MCExpressions: a behaviour is one of one program, the other variables   *)
(* stay as they are.                                                       *)
(***************************************************************************)
EXTENDS Exercises, MCExpressions, TLC

CONSTANTS b1, b2, u1, u2, id

MCUsers == {u1, u2}
MCIdOf == (u1 :> id) @@ (u2 :> id)

\* The prices of three products; with one of 3 the sum may exceed MaxTotal.
MCEntered == <<1, 2, 1>>

\* The matrices that the comment in Main gives Task3.
SampleA == <<<<2, 2, 3>>, <<5, 1, 8>>>>
SampleB == <<<<2, 7>>, <<3, 9>>, <<4, 6>>>>

calcVars == <<upperLimit, stateChanged, calcMain, pool, limit, round, result,
              writes, entered, taken, due>>
crudVars == <<users, call, seen, disturbed>>
shopVars == <<window, price, edited, edits, products, version, subscribed,
              click, delayed, sum, totalPrice, damaged, overlap>>
threadVars == <<exercise, main, row, cell, chain, printed, permits, adder,
                queued, printer, list, lock, event>>

Programs == {"uploads", "calculator", "users", "shop", "threads", "queries", "visitor"}
-----------------------------------------------------------------------------
MCInit == /\ program \in Programs /\ Init
          /\ Calc!Init /\ Crud!Init /\ Shop!Init /\ Threads!Init
          /\ ExpressionsInit
          \* One initial state for each program that has one.
          /\ program # "calculator" => upperLimit = 0
          /\ program # "threads" => exercise = "Task3"

(* Program p makes a step; the others stay as they are.                    *)
Runs(p) ==
  /\ program = p /\ UNCHANGED program
  /\ p # "uploads"    => UNCHANGED vars
  /\ p # "calculator" => UNCHANGED calcVars
  /\ p # "users"      => UNCHANGED crudVars
  /\ p # "shop"       => UNCHANGED shopVars
  /\ p # "threads"    => UNCHANGED threadVars
  /\ p \notin {"queries", "visitor"} => UNCHANGED <<queryVars, visitorVars>>

(* Calls of the repository are alike: they start in the order of their     *)
(* numbers.  The first one adds; before an Add there is nothing to find.   *)
InOrder ==
  /\ call'[1].op \in {"none", "Add"}
  /\ \A c \in Calls : c - 1 \in Calls /\ call[c - 1] = Crud!None
                        => call'[c] = Crud!None

(* Once two changes of the shop, or two sums, have overlapped only changes *)
(* under way are followed to their ends.                                   *)
EndsChange == \E k \in DOMAIN click : /\ click[k].pc = "change"
                                     /\ click'[k] # click[k]

(* Two clicks and the edit of a price, or three clicks.                    *)
EditOrThird == edits = 0 \/ click[3] = Shop!NoClick

MCNext == \/ Runs("uploads") /\ Next
          \/ Runs("calculator") /\ Calc!Next
          \/ Runs("users") /\ Crud!Next /\ InOrder
          \/ Runs("shop") /\ Shop!Next /\ EditOrThird'
                           /\ (damaged \/ overlap => EndsChange)
          \/ Runs("threads") /\ Threads!Next
          \/ Runs("queries") /\ ExpressionsNext
          \/ Runs("visitor") /\ ExpressionsNext

MCFairness ==
  /\ \A u \in Uploads : WF_vars(program = "uploads" /\ UploadAsync(u))
  /\ WF_calcVars(program = "calculator" /\ Calc!CalculateAsync)
  /\ WF_calcVars(program = "calculator" /\ Calc!PrintResult)

MCSpec == MCInit /\ [][MCNext]_<<program, vars, calcVars, crudVars,
                                shopVars, threadVars, queryVars, visitorVars>>
          /\ MCFairness
=============================================================================
