------------------------------ MODULE Executions ------------------------------
(***************************************************************************)
(* How executions of the main state machine keep out of each other's way.  *)
(*                                                                         *)
(* Step Functions runs any number of them.  The first step of each,        *)
(* getOrCreateConfig, lists the running ones and stops its own execution   *)
(* if there is another.  The MoveAccount Lambda starts an execution two    *)
(* minutes after it changed the configuration, if none runs then.  The     *)
(* installer's pipeline and the operator start one without looking.        *)
(*                                                                         *)
(* ListExecutions is taken to list every execution started before it;      *)
(* Step Functions only promises that eventually.                           *)
(***************************************************************************)
EXTENDS Naturals, FiniteSets

CONSTANTS
    Executions,  \* names of executions; a bound on how many are started
    Movers       \* invocations of the MoveAccount Lambda

VARIABLES
    exec,   \* the state of each execution
    mover   \* the state of each invocation

lockVars == <<exec, mover>>

\* "started" has not listed yet, "second" has found another one, "working" has
\* not and goes on with the configuration.
RunningStates == {"started", "second", "working"}

LockTypeOK ==
    /\ exec \in [Executions -> {"none", "stopped", "ended"} \cup RunningStates]
    /\ mover \in [Movers -> {"idle", "sleep", "start"}]

Running == {x \in Executions : exec[x] \in RunningStates}
Working == {x \in Executions : exec[x] = "working"}

LockInit ==
    /\ exec = [x \in Executions |-> "none"]
    /\ mover = [m \in Movers |-> "idle"]

Start(x) ==
    /\ exec[x] = "none"
    /\ exec' = [exec EXCEPT ![x] = "started"]

-----------------------------------------------------------------------------
\* The installer's pipeline or the operator.
StartExecution(x) ==
    /\ Start(x)
    /\ UNCHANGED mover

\* The Lambda has committed the account and sleeps, ...
MoveSleeps(m) ==
    /\ mover[m] = "idle"
    /\ mover' = [mover EXCEPT ![m] = "sleep"]
    /\ UNCHANGED exec

\* Mutant: the answer is kept as the state.
MoveListsStatus(m) ==
    /\ mover[m] = "sleep"
    /\ mover' = [mover EXCEPT ![m] = IF Running = {} THEN "start" ELSE "SM_ALREADY_RUNNING"]
    /\ UNCHANGED exec

\* ... lists the running executions, ...
MoveLists(m) ==
    /\ mover[m] = "sleep"
    /\ mover' = [mover EXCEPT ![m] = IF Running = {} THEN "start" ELSE "idle"]
    /\ UNCHANGED exec

\* Mutant: its execution skips the validation, the Lambda has listed already.
MoveStartsWorking(m) ==
    /\ mover[m] = "start"
    /\ mover' = [mover EXCEPT ![m] = "idle"]
    /\ \E x \in Executions :
         exec[x] = "none" /\ exec' = [exec EXCEPT ![x] = "working"]

\* ... and starts one if there were none.
MoveStarts(m) ==
    /\ mover[m] = "start"
    /\ mover' = [mover EXCEPT ![m] = "idle"]
    /\ \E x \in Executions : Start(x)

-----------------------------------------------------------------------------
\* Mutant: one other execution is taken for the execution itself.
ListExecutionsTolerant(x) ==
    /\ exec[x] = "started"
    /\ exec' = [exec EXCEPT ![x] =
                   IF Cardinality(Running \ {x}) <= 1 THEN "working" ELSE "second"]
    /\ UNCHANGED mover

\* validateExecution.
ListExecutions(x) ==
    /\ exec[x] = "started"
    /\ exec' = [exec EXCEPT ![x] = IF Running \ {x} = {} THEN "working" ELSE "second"]
    /\ UNCHANGED mover

StopsItself(x) ==
    /\ exec[x] = "second"
    /\ exec' = [exec EXCEPT ![x] = "stopped"]
    /\ UNCHANGED mover

\* The last step, or a failed one.
Ends(x) ==
    /\ exec[x] = "working"
    /\ exec' = [exec EXCEPT ![x] = "ended"]
    /\ UNCHANGED mover

OperatorStops(x) ==
    /\ x \in Running
    /\ exec' = [exec EXCEPT ![x] = "stopped"]
    /\ UNCHANGED mover

-----------------------------------------------------------------------------
ExecutionStep(x) ==
    StartExecution(x) \/ ListExecutions(x) \/ StopsItself(x) \/ Ends(x) \/ OperatorStops(x)

MoverStep(m) == MoveSleeps(m) \/ MoveLists(m) \/ MoveStarts(m)

LockNext ==
    \/ \E x \in Executions : ExecutionStep(x)
    \/ \E m \in Movers : MoverStep(m)

LockSpec == LockInit /\ [][LockNext]_lockVars

-----------------------------------------------------------------------------
(* Properties *)

\* Two executions never work at the same time, however starts, listings and stops
\* interleave and whoever starts them.
MutualExclusion == \A x, y \in Working : x = y

\* Executions implements SingleExecution: what others see of the executions is one
\* worker after another.
Abstract == INSTANCE SingleExecution WITH working <- Working
ImplementsSingleExecution == Abstract!Spec

=============================================================================
