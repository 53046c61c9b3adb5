----------------------------- MODULE MCExecutions -----------------------------
(* The instance of Executions for TLC.  Executions and invocations of the      *)
(* Lambda are interchangeable.                                                 *)
EXTENDS Executions, TLC

Symmetry == Permutations(Executions) \cup Permutations(Movers)
=============================================================================
