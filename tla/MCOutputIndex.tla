---------------------------- MODULE MCOutputIndex ----------------------------
(* Two load balancers in one account, one in another, none of the type in a third. *)
EXTENDS OutputIndex

CONSTANTS a, b, c, perimeter, operations, shared

MCNames == {a, b, c}
MCAccounts == {perimeter, operations, shared}
MCAccount == [n \in MCNames |-> IF n = c THEN shared ELSE perimeter]

=============================================================================
