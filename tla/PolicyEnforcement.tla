-------------------------- MODULE PolicyEnforcement --------------------------
(***************************************************************************)
(* Service control policies and what keeps them attached.                  *)
(*                                                                         *)
(* A step of every execution, add-scp, brings the policies of the          *)
(* organization and their attachments in line with the configuration,      *)
(* call by call.  Between executions a Lambda hears of every change of a   *)
(* policy that somebody else makes: it undoes an attachment or a           *)
(* detachment, and on an edit of a policy goes through all of them as the  *)
(* step does.  Both decide on what they read some calls before; neither    *)
(* locks anything.                                                         *)
(*                                                                         *)
(* AWS refuses a call that names a policy that is gone, attaches what is   *)
(* attached, detaches what is not, takes the last policy off a target or   *)
(* puts on one too many; the code lets the error end the Lambda.           *)
(* EventBridge then delivers the event again a few times and drops it.     *)
(***************************************************************************)
EXTENDS Naturals, FiniteSets

CONSTANTS
    Root,
    TopOus,         \* organizational units under the root
    Nested,         \* units below them that are the ou-path of an account
    Accounts,       \* accounts of the configuration, all of them listed
    Top,            \* the top-level unit of a nested unit or an account
    Full,           \* FullAWSAccess, which AWS manages
    Policies,       \* names of policies
    Rank,           \* the order in which policies and targets are listed, ties in any order
    Configs,        \* configurations
    InitialConfig,
    Unset,          \* an account without the key scps
    Limit,          \* policies AWS allows on a target: five
    IgnoresSome,    \* ignored-ous is not empty
    Execution,      \* the worker that is add-scp of an execution ...
    Lambda,         \* ... and the one that handles the edit of a policy
    MaxChanges, MaxExecutions, MaxRetries \* bounds; Lambda retries twice

Ous == TopOus \cup Nested
Targets == {Root} \cup Ous \cup Accounts
Workers == {Execution, Lambda}
Managed == TopOus \cup Accounts

PolicyAssumption ==
    /\ Root \notin Ous \cup Accounts /\ Ous \cap Accounts = {} /\ TopOus \cap Nested = {}
    /\ Top \in [Nested \cup Accounts -> TopOus]
    /\ Full \in Policies /\ Rank \in [Policies \cup Targets -> Nat]
    /\ \A c \in Configs :
         /\ c.policies \subseteq Policies \ {Full}
         /\ DOMAIN c.scps = Managed
         /\ \A t \in TopOus : c.scps[t] \subseteq c.policies
         /\ \A t \in Accounts : c.scps[t] = Unset \/ c.scps[t] \subseteq c.policies
    /\ InitialConfig \in Configs
    /\ Limit \in Nat \ {0} /\ MaxChanges \in Nat /\ MaxExecutions \in Nat /\ MaxRetries \in Nat
    /\ Execution # Lambda /\ IgnoresSome \in BOOLEAN

ASSUME PolicyAssumption

VARIABLES
    attached,   \* policies on each target
    existing,   \* policies that exist
    id,         \* the id of each policy, a new one when it is created again
    edited,     \* policies whose content is not the accelerator's
    head,       \* the configuration at the head of the branch
    events,     \* changes by others that are yet to be handled
    acting,     \* Lambdas that decided and are about to make their call
    worker,     \* what each worker has read and has yet to do
    dropped,    \* events given up after their last retry
    followed,   \* history: configurations that executions and Lambdas went by
    changes, executions \* bounds

organization == <<attached, existing, id, edited>>
vars == <<organization, head, events, acting, worker, dropped, followed, changes,
          executions>>

Calls == [op : {"attach", "detach", "update", "edit", "create", "delete"},
          policy : Policies, id : Nat, target : Targets]
Events == [call : Calls, tries : 0..MaxRetries]
NoEvent == [call |-> [op |-> "create", policy |-> Full, id |-> 0, target |-> Root], tries |-> 0]

Steps == {"idle", "create", "strip", "full", "units", "accounts", "again", "done"}
WorkerStates == [step : Steps, config : Configs, ids : [Policies -> Nat],
                 todo : SUBSET (Policies \cup Targets), calls : SUBSET Calls,
                 event : Events, undisturbed : BOOLEAN]

Ids == [p \in Policies |-> IF p \in existing THEN id[p] ELSE 0]

Resting == [step |-> "idle", config |-> InitialConfig, ids |-> [p \in Policies |-> 0],
            todo |-> {}, calls |-> {}, event |-> NoEvent, undisturbed |-> FALSE]

\* The policies of a target by a configuration.
Scps(c, t) == IF c.scps[t] = Unset THEN {} ELSE c.scps[t]
Controlled(c) == {t \in Managed : c.scps[t] # Unset}
Configured(c, t) == {Full} \cup Scps(c, t)

\* Installations leave the policies of the root and of nested units to their users.
Init ==
    /\ attached = [t \in Targets |->
                     IF t \in Managed THEN Configured(InitialConfig, t) ELSE {Full}]
    /\ existing = Policies /\ id = [p \in Policies |-> 1] /\ edited = {}
    /\ head = InitialConfig
    /\ events = {} /\ acting = {} /\ dropped = {} /\ followed = {}
    /\ worker = [w \in Workers |-> Resting]
    /\ changes = 0 /\ executions = 0

-----------------------------------------------------------------------------
(* Calls of AWS Organizations *)

Accepted(call) ==
    /\ call.op = "create" => call.policy \notin existing
    /\ call.op # "create" => call.policy \in existing /\ call.id = id[call.policy]
    /\ call.op = "attach" => /\ call.policy \notin attached[call.target]
                             /\ Cardinality(attached[call.target]) < Limit
    /\ call.op = "detach" => /\ call.policy \in attached[call.target]
                             /\ Cardinality(attached[call.target]) > 1
    /\ call.op \in {"update", "edit", "delete"} => call.policy # Full
    /\ call.op = "delete" => \A t \in Targets : call.policy \notin attached[t]

Perform(call) ==
    /\ Accepted(call)
    /\ attached' = [attached EXCEPT ![call.target] =
                      CASE call.op = "attach" -> @ \cup {call.policy}
                        [] call.op = "detach" -> @ \ {call.policy}
                        [] OTHER -> @]
    /\ existing' = CASE call.op = "create" -> existing \cup {call.policy}
                     [] call.op = "delete" -> existing \ {call.policy}
                     [] OTHER -> existing
    /\ id' = IF call.op = "create" THEN [id EXCEPT ![call.policy] = @ + 1] ELSE id
    /\ edited' = CASE call.op = "edit" -> edited \cup {call.policy}
                   [] call.op \in {"update", "create", "delete"} -> edited \ {call.policy}
                   [] OTHER -> edited

Disturb(others) ==
    [w \in Workers |-> IF w \in others THEN [worker[w] EXCEPT !.undisturbed = FALSE]
                                       ELSE worker[w]]

\* Mutant: the Lambda's own changes come back to it.
OwnChangeHeard(call, by) == FALSE

\* Executions and Lambdas have one role, whose changes the Lambda ignores.
OwnChange(call, by) == by # "user"

\* The rule of EventBridge; CreatePolicy is none of its events.
Heard(call, by) ==
    IF OwnChange(call, by) \/ call.op = "create" THEN {}
    ELSE {[call |-> [call EXCEPT !.op = IF @ = "update" THEN "edit" ELSE @], tries |-> 0]}

Retried(e) == IF e.tries < MaxRetries THEN {[e EXCEPT !.tries = @ + 1]} ELSE {}
GivenUp(e) == IF e.tries < MaxRetries THEN {} ELSE {e}

-----------------------------------------------------------------------------
(* What add-scp and the handler of an edit go through *)

\* Units stripped of foreign policies: add-scp filters top-level ones, the handler does not.
Stripped(w) == {Root} \cup (IF w = Execution THEN TopOus ELSE Ous)

\* add-scp goes through the accounts twice.
StepAfter(w, step) ==
    CASE step = "create" -> "strip"
      [] step = "strip" -> "full"
      [] step = "full" -> "units"
      [] step = "units" -> "accounts"
      [] step = "accounts" -> IF w = Execution THEN "again" ELSE "done"
      [] step = "again" -> "done"

\* Accounts whose policies are managed outside, and targets with too many, are passed over.
Aligning(c, targets) ==
    {t \in targets : c.scps[t] # Unset /\ Cardinality(Scps(c, t)) < Limit}

\* What a step goes through, one by one.
Todo(w, c, step) ==
    CASE step = "create" -> c.policies
      [] step = "strip" -> Stripped(w)
      [] step = "units" -> Aligning(c, TopOus)
      [] step \in {"accounts", "again"} -> Aligning(c, Accounts)
      [] OTHER -> {}

\* Mutant: the arguments of the call are swapped.
CallsOnSwapped(op, ids, policies, target) ==
    {[op |-> op, policy |-> target, id |-> ids[p], target |-> p] : p \in policies}

CallsOn(op, ids, policies, target) ==
    {[op |-> op, policy |-> p, id |-> ids[p], target |-> target] : p \in policies}

CreateCalls(ids, p) ==
    CallsOn(IF ids[p] = 0 THEN "create" ELSE "update", ids, {p}, Root)

\* detachPoliciesFromTargets keeps all policies of the configuration on all targets.
StripCalls(c, t) == CallsOn("detach", Ids, attached[t] \ ({Full} \cup c.policies), t)

FullCalls(ids, w) ==
    UNION {CallsOn("attach", ids, {Full} \ attached[t], t) : t \in Stripped(w) \cup Accounts}

\* Mutant: policies of the configuration are never detached.
AlignCallsKeeping(ids, c, t) ==
    CallsOn("detach", Ids, attached[t] \ ({Full} \cup c.policies), t)
    \cup CallsOn("attach", ids, Scps(c, t) \ attached[t], t)

\* attachOrDetachPoliciesTo...: what is to be detached and attached, by one listing.
AlignCalls(ids, c, t) ==
    CallsOn("detach", Ids, attached[t] \ Configured(c, t), t)
    \cup CallsOn("attach", ids, Scps(c, t) \ attached[t], t)

CallsFor(w, x) ==
    LET c == worker[w].config
        ids == worker[w].ids
    IN CASE worker[w].step = "create" -> CreateCalls(ids, x)
         [] worker[w].step = "strip" -> StripCalls(c, x)
         [] OTHER -> AlignCalls(ids, c, x)

Begun(w, e) ==
    [step |-> "create", config |-> head, ids |-> Ids, todo |-> Todo(w, head, "create"),
     calls |-> {}, event |-> e, undisturbed |-> TRUE]

StartExecution ==
    /\ worker[Execution].step = "idle" /\ executions < MaxExecutions
    /\ worker' = [worker EXCEPT ![Execution] = Begun(Execution, NoEvent)]
    /\ executions' = executions + 1 /\ followed' = followed \cup {head}
    /\ UNCHANGED <<organization, head, events, acting, dropped, changes>>

\* A listing of what is attached, on which the next calls are decided.
TakeJob(w, x) ==
    /\ x \in worker[w].todo /\ \A y \in worker[w].todo : Rank[x] <= Rank[y]
    /\ worker[w].calls = {}
    /\ worker' = [worker EXCEPT ![w].todo = @ \ {x}, ![w].calls = CallsFor(w, x)]
    /\ UNCHANGED <<organization, head, events, acting, dropped, followed, changes, executions>>

\* All policies are listed once they are created, and the targets of FullAWSAccess at once.
NextStep(w) ==
    /\ worker[w].step \in Steps \ {"idle", "done"}
    /\ worker[w].todo = {} /\ worker[w].calls = {}
    /\ LET next == StepAfter(w, worker[w].step)
       IN worker' = [worker EXCEPT
                       ![w].step = next,
                       ![w].ids = IF worker[w].step = "create" THEN Ids ELSE @,
                       ![w].todo = Todo(w, worker[w].config, next),
                       ![w].calls = IF next = "full" THEN FullCalls(worker[w].ids, w) ELSE {}]
    /\ UNCHANGED <<organization, head, events, acting, dropped, followed, changes, executions>>

\* What a target loses it loses first.
MakeCall(w, call) ==
    /\ call \in worker[w].calls
    /\ call.op = "attach" => \A d \in worker[w].calls : d.op = "attach"
    /\ Perform(call)
    /\ events' = events \cup Heard(call, "accelerator")
    /\ worker' = [Disturb(Workers \ {w}) EXCEPT ![w].calls = @ \ {call}]
    /\ UNCHANGED <<head, acting, dropped, followed, changes, executions>>

Succeeds(w) ==
    /\ worker[w].step = "done"
    /\ worker' = [worker EXCEPT ![w] = Resting]
    /\ UNCHANGED <<organization, head, events, acting, dropped, followed, changes, executions>>

\* A call is refused, or the Lambda or the execution ends between two calls.
Fails(w) ==
    /\ worker[w].step # "idle"
    /\ worker' = [worker EXCEPT ![w] = Resting]
    /\ IF w = Lambda
       THEN /\ events' = events \cup Retried(worker[w].event)
            /\ dropped' = dropped \cup GivenUp(worker[w].event)
       ELSE UNCHANGED <<events, dropped>>
    /\ UNCHANGED <<organization, head, acting, followed, changes, executions>>

-----------------------------------------------------------------------------
(* The Lambda that hears of changes *)

\* Policies the handler puts up with on a target: those of its unit among them.
Tolerated(c, t) ==
    {Full} \cup (IF t \in TopOus THEN c.scps[t] ELSE c.scps[Top[t]])
           \cup (IF t \in Accounts THEN Scps(c, t) ELSE {})

IsAcceleratorScp(p, names) == p \in names \cup {Full}

\* Mutant: a detachment is undone for policies the accelerator created only.
ReverseOfCreated(call) ==
    IF call.op = "attach" /\ ~ IsAcceleratorScp(call.policy, Tolerated(head, call.target))
    THEN {[call EXCEPT !.op = "detach"]}
    ELSE IF call.op = "detach" /\ call.policy \in Tolerated(head, call.target) \cap head.policies
    THEN {[call EXCEPT !.op = "attach"]}
    ELSE {}

\* What undoes a change of an attachment, if it is not as configured.
Reverse(call) ==
    IF call.op = "attach" /\ ~ IsAcceleratorScp(call.policy, Tolerated(head, call.target))
    THEN {[call EXCEPT !.op = "detach"]}
    ELSE IF call.op = "detach" /\ IsAcceleratorScp(call.policy, Tolerated(head, call.target))
    THEN {[call EXCEPT !.op = "attach"]}
    ELSE {}

\* Neither the root nor, if some units are ignored, a nested one is looked after.
Ignored(call) ==
    \/ call.op \in {"edit", "detach"} /\ ~ IsAcceleratorScp(call.policy, head.policies)
    \/ call.op \in {"attach", "detach"} /\ \/ call.target = Root
                                           \/ IgnoresSome /\ call.target \in Nested

\* describePolicy fails for a policy that is gone, hence for every DeletePolicy.
Described(e) == e.call.policy \in existing /\ e.call.id = id[e.call.policy]

HandlerFinds(e) ==
    /\ e \in events /\ Described(e) /\ e.call.op \in {"attach", "detach"}
    /\ events' = events \ {e}
    /\ acting' = IF Ignored(e.call) THEN acting
                 ELSE acting \cup {[event |-> e, call |-> c] : c \in Reverse(e.call)}
    /\ followed' = followed \cup {head}
    /\ UNCHANGED <<organization, head, worker, dropped, changes, executions>>

HandlerStarts(e) ==
    /\ e \in events /\ Described(e) /\ e.call.op = "edit"
    /\ worker[Lambda].step = "idle"
    /\ events' = events \ {e}
    /\ worker' = IF Ignored(e.call) THEN worker
                 ELSE [worker EXCEPT ![Lambda] = Begun(Lambda, e)]
    /\ followed' = followed \cup {head}
    /\ UNCHANGED <<organization, head, acting, dropped, changes, executions>>

HandlerMisses(e) ==
    /\ e \in events /\ ~ Described(e)
    /\ events' = (events \ {e}) \cup Retried(e)
    /\ dropped' = dropped \cup GivenUp(e)
    /\ UNCHANGED <<organization, head, acting, worker, followed, changes, executions>>

HandlerCalls(h) ==
    /\ h \in acting
    /\ Perform(h.call)
    /\ events' = events \cup Heard(h.call, "accelerator")
    /\ worker' = Disturb(Workers)
    /\ acting' = acting \ {h}
    /\ UNCHANGED <<head, dropped, followed, changes, executions>>

HandlerFails(h) ==
    /\ h \in acting
    /\ acting' = acting \ {h}
    /\ events' = events \cup Retried(h.event)
    /\ dropped' = dropped \cup GivenUp(h.event)
    /\ UNCHANGED <<organization, head, worker, followed, changes, executions>>

-----------------------------------------------------------------------------
(* Everybody else *)

UserCalls(call) ==
    /\ changes < MaxChanges /\ changes' = changes + 1
    /\ Perform(call)
    /\ events' = events \cup Heard(call, "user")
    /\ worker' = Disturb(Workers)
    /\ UNCHANGED <<head, acting, dropped, followed, executions>>

UserChanges ==
    \E p \in Policies :
        \/ \E op \in {"attach", "detach"}, t \in Targets :
             UserCalls([op |-> op, policy |-> p, id |-> id[p], target |-> t])
        \/ \E op \in {"edit", "delete"} :
             UserCalls([op |-> op, policy |-> p, id |-> id[p], target |-> Root])

UserCommits(c) ==
    /\ changes < MaxChanges /\ changes' = changes + 1
    /\ head # c
    /\ head' = c
    /\ UNCHANGED <<organization, events, acting, worker, dropped, followed, executions>>

WorkerStep(w) ==
    \/ \E x \in worker[w].todo : TakeJob(w, x)
    \/ \E call \in worker[w].calls : MakeCall(w, call)
    \/ NextStep(w) \/ Succeeds(w) \/ Fails(w)

HandlerStep ==
    \/ \E e \in events : HandlerFinds(e) \/ HandlerStarts(e) \/ HandlerMisses(e)
    \/ \E h \in acting : HandlerCalls(h) \/ HandlerFails(h)

Next ==
    \/ StartExecution
    \/ \E w \in Workers : WorkerStep(w)
    \/ HandlerStep
    \/ UserChanges
    \/ \E c \in Configs : UserCommits(c)

\* Lambda runs what EventBridge delivers; executions and users do as they like.
Fairness == WF_vars(HandlerStep) /\ WF_vars(WorkerStep(Lambda))

Spec == Init /\ [][Next]_vars
FairSpec == Spec /\ Fairness

-----------------------------------------------------------------------------
(* Properties *)

\* Attachments, ids and events have the shape the code gives them; what is attached exists.
TypeOK ==
    /\ attached \in [Targets -> SUBSET existing]
    /\ existing \subseteq Policies /\ edited \subseteq existing
    /\ id \in [Policies -> Nat]
    /\ head \in Configs /\ followed \subseteq Configs
    /\ events \subseteq Events /\ dropped \subseteq Events
    /\ acting \subseteq [event : Events, call : Calls]
    /\ worker \in [Workers -> WorkerStates]
    /\ changes \in 0..MaxChanges /\ executions \in 0..MaxExecutions

\* Once everything heard is handled, a top-level unit and an account with the key scps have
\* their policies and no others but their unit's, and these their content, unless an event
\* about them was given up or a commit changed the configuration meanwhile: however users'
\* changes, retries, the handler of an edit and an execution that reads and writes meanwhile
\* follow each other.  Accounts without the key are not spoken of (OutsideLeftAlone).
Quiet == events = {} /\ acting = {} /\ \A w \in Workers : worker[w].step = "idle"

LeftAlone == {e.call.target : e \in dropped}

ChangesReverted ==
    (Quiet /\ followed \subseteq {InitialConfig}) =>
        /\ \A t \in Controlled(InitialConfig) \ LeftAlone :
             /\ Configured(InitialConfig, t) \subseteq attached[t]
             /\ attached[t] \subseteq Tolerated(InitialConfig, t)
        /\ \A p \in InitialConfig.policies :
             p \in edited => \E e \in dropped : e.call.op = "edit" /\ e.call.policy = p

\* An execution or a handled edit that nobody disturbs and that succeeds leaves exactly
\* what its configuration says, whatever it found: foreign, missing, edited, deleted and
\* misplaced policies.
Aligned(w) ==
    LET c == worker[w].config
    IN /\ c.policies \subseteq existing \ edited
       /\ \A t \in Controlled(c) :
            Cardinality(Scps(c, t)) < Limit => attached[t] = Configured(c, t)
       /\ \A t \in Stripped(w) : attached[t] \subseteq {Full} \cup c.policies
       /\ \A t \in Stripped(w) \cup Accounts : Full \in attached[t]

ApplyConverges ==
    \A w \in Workers : worker[w].step = "done" /\ worker[w].undisturbed => Aligned(w)

\* The Lambda comes to rest: undoing a change never makes it hear of another one for ever.
Settles == <>[](events = {} /\ acting = {} /\ worker[Lambda].step = "idle")

\* Policies of nested units are their users' own: nobody else changes them.
NestedLeftAlone ==
    [][\A n \in Nested : attached'[n] # attached[n] => changes' # changes]_vars

\* Policies of accounts without the key scps are managed outside: nobody else changes them.
OutsideLeftAlone ==
    [][\A a \in Accounts \ Controlled(head) :
         attached'[a] # attached[a] => changes' # changes]_vars

=============================================================================
