-------------------------- MODULE MCSettingsChannel --------------------------
(***************************************************************************)
(* One client with all that it and the server may do, or two clients, the  *)
(* second of them within smaller bounds.                                   *)
(***************************************************************************)
EXTENDS SettingsChannel

CONSTANTS c1, c2

OneOrLittle == \/ client[c2] = "down"
               \/ asks <= 1 /\ runs <= 1 /\ \A c \in Clients : reports[c] = 0

(* The bound disables nothing that Fairness asks for.                      *)
MCSpec == Init /\ [][Next /\ OneOrLittle']_vars /\ Fairness
=============================================================================
