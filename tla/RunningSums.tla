------------------------------ MODULE RunningSums ------------------------------
(***************************************************************************)
(* The reference for loops that add up a sequence.                         *)
(***************************************************************************)
EXTENDS Integers

\* For n in 0..N, the sum of t[1], ..., t[n].
PartialSums(t, N) ==
  LET s[n \in 0..N] == IF n = 0 THEN 0 ELSE s[n - 1] + t[n]
  IN s
=============================================================================
