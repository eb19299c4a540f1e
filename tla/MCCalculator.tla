---------------------------- MODULE MCCalculator ----------------------------
(* What the task's text asks of the calculator, against what it does.       *)
EXTENDS Calculator
=============================================================================
