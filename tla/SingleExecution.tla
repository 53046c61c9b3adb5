--------------------------- MODULE SingleExecution ---------------------------
(***************************************************************************)
(* What the other modules rely on: of all executions of the main state     *)
(* machine, at most one works on the organization at a time.               *)
(***************************************************************************)
CONSTANT Executions

VARIABLE working

Init == working = {}

Acquire(x) == working = {} /\ working' = {x}

Release(x) == x \in working /\ working' = working \ {x}

Next == \E x \in Executions : Acquire(x) \/ Release(x)

Spec == Init /\ [][Next]_working

=============================================================================
