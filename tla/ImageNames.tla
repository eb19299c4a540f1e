----------------------------- MODULE ImageNames -----------------------------
(***************************************************************************)
(* The names of image files, as the directory listeners read them: what    *)
(* ImageNameValidator lets through and the number PathConverter finds.  A  *)
(* name is a model value; Num gives the number between its first _ and its *)
(* first dot, or NoNumber where Convert.ToInt32 throws.                    *)
(***************************************************************************)
EXTENDS Integers, FiniteSets

CONSTANTS Images,          \* file names that may appear in the directory
          Valid,           \* those ImageNameValidator.Validate accepts
          Num,             \* the number in a name, or NoNumber
          NoNumber,
          None,            \* null
          IntMax           \* Int32.MaxValue

Int32 == -(IntMax + 1) .. IntMax

ASSUME ImagesAssumption == /\ IsFiniteSet(Images)
                           /\ Valid \subseteq Images
                           /\ None \notin Images
                           /\ NoNumber \notin Int32
                           /\ Num \in [Images -> Int32 \cup {NoNumber}]

Validate(n) == n \in Valid

Convertible(n) == Num[n] # NoNumber

\* Int32 subtraction, unchecked: it wraps around.
Minus(a, b) == ((a - b + IntMax + 1) % (2 * (IntMax + 1))) - (IntMax + 1)

InRow(p, n) == Convertible(p) /\ Convertible(n) /\ Minus(Num[n], Num[p]) = 1
=============================================================================
