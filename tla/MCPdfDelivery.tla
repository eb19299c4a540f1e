---------------------------- MODULE MCPdfDelivery ----------------------------
(***************************************************************************)
(* Documents of which one is longer than the others: three while no server *)
(* has been started, to be converted only, and two of them otherwise.      *)
(***************************************************************************)
EXTENDS PdfDelivery, TLC

CONSTANTS d1, d2, d3

ThreeSizes == (d1 :> 2) @@ (d2 :> 1) @@ (d3 :> 1)

TwoOrNoServer == task[d3] = "none" \/ runs = 0

(* The bound disables nothing that Fairness asks for.                      *)
MCSpec == Init /\ [][Next /\ TwoOrNoServer']_vars /\ Fairness
=============================================================================
