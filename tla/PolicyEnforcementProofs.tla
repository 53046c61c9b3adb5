----------------------- MODULE PolicyEnforcementProofs -----------------------
(***************************************************************************)
(* Proofs about PolicyEnforcement, for any units, accounts, policies,      *)
(* configurations and bounds: types, what is put back once the Lambda is   *)
(* at rest, and what a pass that nobody disturbs leaves.                   *)
(***************************************************************************)
EXTENDS PolicyEnforcement, TLAPS

-----------------------------------------------------------------------------
(* The inductive invariant *)

\* What a worker still goes through belongs to its step.
TodoInv == \A w \in Workers : worker[w].todo \subseteq Todo(w, worker[w].config, worker[w].step)

\* The calls a configuration asks for on a target it aligns.
Aligns(c, call, targets) ==
    /\ call.target \in Aligning(c, targets)
    /\ \/ call.op = "detach" /\ call.policy \notin Configured(c, call.target)
       \/ call.op = "attach" /\ call.policy \in Scps(c, call.target)

Planned(c, step, call) ==
    \/ step = "create" /\ call.op \in {"create", "update"} /\ call.policy \in c.policies
    \/ step = "strip" /\ call.op = "detach" /\ call.policy \notin {Full} \cup c.policies
    \/ step = "full" /\ call.op = "attach" /\ call.policy = Full
    \/ step = "units" /\ Aligns(c, call, TopOus)
    \/ step \in {"accounts", "again"} /\ Aligns(c, call, Accounts)

\* The calls a worker is about to make are those of its step and configuration.
CallsInv ==
    \A w \in Workers :
        \A call \in worker[w].calls : Planned(worker[w].config, worker[w].step, call)

Undoes(call, heard) ==
    \/ heard.op = "attach" /\ call = [heard EXCEPT !.op = "detach"]
    \/ heard.op = "detach" /\ call = [heard EXCEPT !.op = "attach"]

\* What the Lambda is about to do undoes what it heard of, by a configuration it followed.
ActingInv ==
    /\ \A w \in Workers : worker[w].step # "idle" => worker[w].config \in followed
    /\ \A h \in acting :
         /\ Undoes(h.call, h.event.call)
         /\ \E c \in followed :
              (h.call.op = "attach") <=> (h.call.policy \in Tolerated(c, h.call.target))

\* Events that somebody still has in hand, or gave up.
Known == events \cup {h.event : h \in acting} \cup dropped

Tells(e, op, p, t) == e.call.op = op /\ e.call.policy = p /\ e.call.target = t

Missing(p, t) == p \in Configured(InitialConfig, t) \ attached[t]
Excess(p, t) == p \in attached[t] \ Tolerated(InitialConfig, t)
Told(op, p, t) == \E e \in Known : Tells(e, op, p, t)

\* Whatever is not as configured, an event in hand or given up tells of it ...
Deviations ==
    \A t \in Managed : \A p \in Policies :
        /\ Missing(p, t) => Told("detach", p, t)
        /\ Excess(p, t) => Told("attach", p, t)

ChangesInv == followed \subseteq {InitialConfig} => Deviations

\* ... and of an edited policy, unless the Lambda is about to write it again.
Rewriting(p) ==
    /\ worker[Lambda].step = "create"
    /\ worker[Lambda].event.call.op = "edit" /\ worker[Lambda].event.call.policy = p
    /\ p \in worker[Lambda].todo \/ \E call \in worker[Lambda].calls : call.policy = p

EditTold(p) == \E e \in events \cup dropped : e.call.op = "edit" /\ e.call.policy = p

EditsInv ==
    followed \subseteq {InitialConfig} =>
        \A p \in InitialConfig.policies \cap edited : EditTold(p) \/ Rewriting(p)

About(calls, op, p, t) ==
    \E call \in calls : call.op = op /\ call.policy = p /\ call.target = t

\* Targets a step is through with have what the configuration says, but for pending calls.
NearlyAligned(w, targets) ==
    \A t \in Aligning(worker[w].config, targets) \ worker[w].todo :
        /\ \A p \in attached[t] \ Configured(worker[w].config, t) :
             About(worker[w].calls, "detach", p, t)
        /\ \A p \in Scps(worker[w].config, t) \ attached[t] :
             About(worker[w].calls, "attach", p, t)

FullyAligned(w, targets) ==
    \A t \in Aligning(worker[w].config, targets) :
        attached[t] = Configured(worker[w].config, t)

\* What each step has achieved when nobody disturbed it, and what the later ones keep.
Created(w) ==
    /\ worker[w].step = "create" =>
         \A p \in worker[w].config.policies \ worker[w].todo :
             p \in existing \ edited \/ \E call \in worker[w].calls : call.policy = p
    /\ worker[w].step \in Steps \ {"idle", "create"} =>
         worker[w].config.policies \subseteq existing \ edited

StrippedOfForeign(w) ==
    /\ worker[w].step = "strip" =>
         \A t \in Stripped(w) \ worker[w].todo :
             \A p \in attached[t] \ ({Full} \cup worker[w].config.policies) :
                 About(worker[w].calls, "detach", p, t)
    /\ worker[w].step \in Steps \ {"idle", "create", "strip"} =>
         \A t \in Stripped(w) : attached[t] \subseteq {Full} \cup worker[w].config.policies

HasFull(w) ==
    /\ worker[w].step = "full" =>
         \A t \in Stripped(w) \cup Accounts :
             Full \in attached[t] \/ About(worker[w].calls, "attach", Full, t)
    /\ worker[w].step \in {"units", "accounts", "again", "done"} =>
         \A t \in Stripped(w) \cup Accounts : Full \in attached[t]

TargetsAligned(w) ==
    /\ worker[w].step = "units" => NearlyAligned(w, TopOus)
    /\ worker[w].step \in {"accounts", "again", "done"} => FullyAligned(w, TopOus)
    /\ worker[w].step = "accounts" => NearlyAligned(w, Accounts)
    /\ worker[w].step \in {"again", "done"} => FullyAligned(w, Accounts)

Achieved(w) == Created(w) /\ StrippedOfForeign(w) /\ HasFull(w) /\ TargetsAligned(w)

PassInv == \A w \in Workers : worker[w].undisturbed => Achieved(w)

IInv == TypeOK /\ TodoInv /\ CallsInv /\ ActingInv /\ ChangesInv /\ EditsInv /\ PassInv

-----------------------------------------------------------------------------
(* The operators *)

LEMMA Units ==
    /\ Root \in Targets /\ TopOus \subseteq Targets /\ Accounts \subseteq Targets
    /\ Managed \subseteq Targets /\ \A w \in Workers : Stripped(w) \subseteq Targets
    /\ Execution \in Workers /\ Lambda \in Workers /\ Full \in Policies
    /\ Root \notin Managed /\ Nested \cap Managed = {}
BY PolicyAssumption DEF PolicyAssumption, Targets, Ous, Managed, Stripped, Workers

LEMMA Configurations ==
    ASSUME NEW c \in Configs
    PROVE  /\ c.policies \subseteq Policies /\ Full \notin c.policies
           /\ \A t \in Managed : Scps(c, t) \subseteq c.policies
           /\ \A t \in Managed : Configured(c, t) \subseteq Tolerated(c, t)
BY PolicyAssumption DEF PolicyAssumption, Managed, Ous, Scps, Configured, Tolerated

LEMMA IdsTyped == TypeOK => Ids \in [Policies -> Nat]
BY DEF TypeOK, Ids

LEMMA CallsOnTyped ==
    ASSUME NEW op \in {"attach", "detach", "update", "edit", "create", "delete"},
           NEW ids \in [Policies -> Nat], NEW ps \in SUBSET Policies, NEW t \in Targets
    PROVE  CallsOn(op, ids, ps, t) \in SUBSET Calls
BY DEF CallsOn, Calls

LEMMA CallsOnAre ==
    ASSUME NEW op, NEW ids, NEW ps, NEW t
    PROVE  /\ \A call \in CallsOn(op, ids, ps, t) :
                call.op = op /\ call.policy \in ps /\ call.target = t
           /\ \A p \in ps : About(CallsOn(op, ids, ps, t), op, p, t)
<1>1. \A call \in CallsOn(op, ids, ps, t) : call.op = op /\ call.policy \in ps /\ call.target = t
  BY DEF CallsOn
<1>2. ASSUME NEW p \in ps
      PROVE  About(CallsOn(op, ids, ps, t), op, p, t)
  <2> DEFINE call == [op |-> op, policy |-> p, id |-> ids[p], target |-> t]
  <2>1. call \in CallsOn(op, ids, ps, t)
    BY DEF CallsOn
  <2>2. call.op = op /\ call.policy = p /\ call.target = t
    OBVIOUS
  <2> QED BY <2>1, <2>2 DEF About
<1> QED BY <1>1, <1>2

LEMMA TodoTyped ==
    ASSUME NEW w \in Workers, NEW c \in Configs, NEW step \in Steps
    PROVE  Todo(w, c, step) \in SUBSET (Policies \cup Targets)
BY Units, Configurations DEF Todo, Aligning, Steps

\* What is about a target is about a target of its kind.
LEMMA CallsForTyped ==
    ASSUME TypeOK, TodoInv, NEW w \in Workers, NEW x \in worker[w].todo
    PROVE  /\ CallsFor(w, x) \in SUBSET Calls
           /\ \A call \in CallsFor(w, x) : Planned(worker[w].config, worker[w].step, call)
<1> DEFINE c == worker[w].config
<1>1. /\ c \in Configs /\ worker[w].ids \in [Policies -> Nat] /\ worker[w].step \in Steps
      /\ x \in Todo(w, c, worker[w].step)
      /\ Ids \in [Policies -> Nat]
      /\ \A t \in Targets : attached[t] \subseteq Policies
  BY IdsTyped DEF TypeOK, TodoInv, WorkerStates
<1> HIDE DEF c
<1>2. CASE worker[w].step = "create"
  <2>1. x \in c.policies /\ x \in Policies
    BY <1>1, <1>2, Configurations DEF Todo
  <2>2. CallsFor(w, x) = CreateCalls(worker[w].ids, x)
    BY <1>2 DEF CallsFor
  <2>3. CASE worker[w].ids[x] = 0
    <3>1. CallsFor(w, x) = CallsOn("create", worker[w].ids, {x}, Root)
      BY <2>2, <2>3 DEF CreateCalls
    <3> QED BY <3>1, <1>1, <1>2, <2>1, CallsOnTyped, CallsOnAre, Units DEF Planned, c
  <2>4. CASE worker[w].ids[x] # 0
    <3>1. CallsFor(w, x) = CallsOn("update", worker[w].ids, {x}, Root)
      BY <2>2, <2>4 DEF CreateCalls
    <3> QED BY <3>1, <1>1, <1>2, <2>1, CallsOnTyped, CallsOnAre, Units DEF Planned, c
  <2> QED BY <2>3, <2>4
<1>3. CASE worker[w].step = "strip"
  <2> DEFINE foreign == attached[x] \ ({Full} \cup c.policies)
  <2>1. x \in Targets /\ foreign \subseteq Policies
    BY <1>1, <1>3, Units DEF Todo
  <2>2. CallsFor(w, x) = CallsOn("detach", Ids, foreign, x)
    BY <1>3 DEF CallsFor, StripCalls, c
  <2> QED BY <2>1, <2>2, <1>1, <1>3, CallsOnTyped, CallsOnAre DEF Planned, c
<1>4. CASE worker[w].step \notin {"create", "strip"}
  <2> DEFINE targets == IF worker[w].step = "units" THEN TopOus ELSE Accounts
             off == CallsOn("detach", Ids, attached[x] \ Configured(c, x), x)
             on == CallsOn("attach", worker[w].ids, Scps(c, x) \ attached[x], x)
  <2>1. /\ worker[w].step \in {"units", "accounts", "again"}
        /\ x \in Aligning(c, targets)
    BY <1>1, <1>4 DEF Todo
  <2>2. x \in Managed /\ x \in Targets
    BY <2>1, Units DEF Aligning, Managed
  <2>3. CallsFor(w, x) = off \cup on
    BY <1>4 DEF CallsFor, AlignCalls, c
  <2>4. Scps(c, x) \ attached[x] \in SUBSET Policies
    BY <1>1, <2>2, Configurations
  <2>5. off \in SUBSET Calls /\ on \in SUBSET Calls
    BY <1>1, <2>2, <2>4, CallsOnTyped
  <2>6. \A call \in off : call.op = "detach" /\ call.policy \notin Configured(c, x) /\ call.target = x
    BY CallsOnAre
  <2>7. \A call \in on : call.op = "attach" /\ call.policy \in Scps(c, x) /\ call.target = x
    BY CallsOnAre
  <2>8. \A call \in off \cup on : Aligns(c, call, targets)
    BY <2>1, <2>6, <2>7 DEF Aligns
  <2> HIDE DEF off, on
  <2> QED BY <2>1, <2>3, <2>5, <2>8 DEF Planned, c
<1> QED BY <1>2, <1>3, <1>4

LEMMA FullCallsAre ==
    ASSUME TypeOK, NEW w \in Workers
    PROVE  /\ FullCalls(worker[w].ids, w) \in SUBSET Calls
           /\ \A call \in FullCalls(worker[w].ids, w) : call.op = "attach" /\ call.policy = Full
           /\ \A t \in Stripped(w) \cup Accounts :
                Full \in attached[t] \/ About(FullCalls(worker[w].ids, w), "attach", Full, t)
<1> DEFINE ids == worker[w].ids
<1>1. ids \in [Policies -> Nat]
  BY DEF TypeOK, WorkerStates
<1>2. ASSUME NEW call \in FullCalls(ids, w)
      PROVE  call \in Calls /\ call.op = "attach" /\ call.policy = Full
  <2>1. PICK t \in Stripped(w) \cup Accounts : call \in CallsOn("attach", ids, {Full} \ attached[t], t)
    BY <1>2 DEF FullCalls
  <2>2. t \in Targets /\ {Full} \ attached[t] \in SUBSET Policies
    BY Units
  <2> QED BY <1>1, <2>1, <2>2, CallsOnTyped, CallsOnAre
<1>3. ASSUME NEW t \in Stripped(w) \cup Accounts, Full \notin attached[t]
      PROVE  About(FullCalls(ids, w), "attach", Full, t)
  <2>1. About(CallsOn("attach", ids, {Full} \ attached[t], t), "attach", Full, t)
    BY <1>3, CallsOnAre
  <2>2. CallsOn("attach", ids, {Full} \ attached[t], t) \subseteq FullCalls(ids, w)
    BY DEF FullCalls
  <2> QED BY <2>1, <2>2 DEF About
<1> QED BY <1>2, <1>3

-----------------------------------------------------------------------------
(* What calls and steps change *)

LEMMA PerformEffect ==
    ASSUME TypeOK, NEW call \in Calls, Perform(call)
    PROVE  /\ attached' \in [Targets -> SUBSET existing']
           /\ \A t \in Targets \ {call.target} : attached'[t] = attached[t]
           /\ call.op = "attach" =>
                attached'[call.target] = attached[call.target] \cup {call.policy}
           /\ call.op = "detach" =>
                attached'[call.target] = attached[call.target] \ {call.policy}
           /\ call.op \notin {"attach", "detach"} => \A t \in Targets : attached'[t] = attached[t]
           /\ existing' \subseteq Policies /\ edited' \subseteq existing'
           /\ id' \in [Policies -> Nat]
           /\ call.op \in {"attach", "detach"} => existing' = existing /\ edited' = edited
           /\ call.op \in {"create", "update"} =>
                existing' = existing \cup {call.policy} /\ edited' = edited \ {call.policy}
           /\ call.op = "edit" => edited' = edited \cup {call.policy}
           /\ call.op = "delete" => edited' = edited \ {call.policy}
<1>1. /\ call.target \in Targets /\ call.policy \in Policies /\ Accepted(call)
      /\ call.op \in {"attach", "detach", "update", "edit", "create", "delete"}
      /\ attached \in [Targets -> SUBSET existing]
      /\ existing \subseteq Policies /\ edited \subseteq existing /\ id \in [Policies -> Nat]
  BY DEF Calls, Perform, TypeOK
<1>2. call.op # "create" => call.policy \in existing
  BY <1>1 DEF Accepted
<1>3. call.op = "delete" => \A t \in Targets : call.policy \notin attached[t]
  BY <1>1 DEF Accepted
<1>4. CASE call.op = "attach" BY <1>1, <1>2, <1>4 DEF Perform
<1>5. CASE call.op = "detach" BY <1>1, <1>2, <1>5 DEF Perform
<1>6. CASE call.op = "update" BY <1>1, <1>2, <1>6 DEF Perform
<1>7. CASE call.op = "edit" BY <1>1, <1>2, <1>7 DEF Perform
<1>8. CASE call.op = "create" BY <1>1, <1>2, <1>8 DEF Perform
<1>9. CASE call.op = "delete" BY <1>1, <1>2, <1>3, <1>9 DEF Perform
<1> QED BY <1>1, <1>4, <1>5, <1>6, <1>7, <1>8, <1>9

LEMMA HeardAre ==
    ASSUME NEW call \in Calls
    PROVE  /\ Heard(call, "accelerator") = {}
           /\ Heard(call, "user") \in SUBSET Events
           /\ call.op \in {"attach", "detach", "edit"} =>
                \E e \in Heard(call, "user") : Tells(e, call.op, call.policy, call.target)
<1>1. Heard(call, "accelerator") = {}
  BY DEF Heard, OwnChange
<1> DEFINE told == [call EXCEPT !.op = IF @ = "update" THEN "edit" ELSE @]
           e == [call |-> told, tries |-> 0]
<1>2. told \in Calls /\ 0 \in 0..MaxRetries
  BY PolicyAssumption DEF Calls, PolicyAssumption
<1>3. e \in Events
  BY <1>2 DEF Events
<1>4. Heard(call, "user") = IF call.op = "create" THEN {} ELSE {e}
  BY DEF Heard, OwnChange
<1>5. call.op \in {"attach", "detach", "edit"} => Tells(e, call.op, call.policy, call.target)
  BY DEF Tells, Calls
<1> HIDE DEF e
<1> QED BY <1>1, <1>3, <1>4, <1>5

LEMMA RetriedAre ==
    ASSUME NEW e \in Events
    PROVE  /\ Retried(e) \in SUBSET Events /\ GivenUp(e) \in SUBSET Events
           /\ \E again \in Retried(e) \cup GivenUp(e) : again.call = e.call
<1>1. CASE e.tries < MaxRetries
  <2> DEFINE again == [e EXCEPT !.tries = @ + 1]
  <2>1. again \in Events /\ again.call = e.call
    BY <1>1, PolicyAssumption DEF Events, PolicyAssumption
  <2>2. Retried(e) = {again} /\ GivenUp(e) = {}
    BY <1>1 DEF Retried, GivenUp
  <2> HIDE DEF again
  <2> QED BY <2>1, <2>2
<1>2. CASE ~ (e.tries < MaxRetries)
  BY <1>2 DEF Retried, GivenUp
<1> QED BY <1>1, <1>2

LEMMA DisturbEffect ==
    ASSUME TypeOK, NEW others \in SUBSET Workers
    PROVE  /\ Disturb(others) \in [Workers -> WorkerStates]
           /\ \A v \in Workers :
                /\ Disturb(others)[v].step = worker[v].step
                /\ Disturb(others)[v].config = worker[v].config
                /\ Disturb(others)[v].todo = worker[v].todo
                /\ Disturb(others)[v].calls = worker[v].calls
                /\ Disturb(others)[v].event = worker[v].event
                /\ Disturb(others)[v].undisturbed <=> v \notin others /\ worker[v].undisturbed
<1>1. ASSUME NEW v \in Workers PROVE worker[v] \in WorkerStates
  BY DEF TypeOK
<1>2. ASSUME NEW v \in Workers
      PROVE  /\ Disturb(others)[v] \in WorkerStates
             /\ Disturb(others)[v].step = worker[v].step
             /\ Disturb(others)[v].config = worker[v].config
             /\ Disturb(others)[v].todo = worker[v].todo
             /\ Disturb(others)[v].calls = worker[v].calls
             /\ Disturb(others)[v].event = worker[v].event
             /\ Disturb(others)[v].undisturbed <=> v \notin others /\ worker[v].undisturbed
  <2>1. Disturb(others)[v] = IF v \in others THEN [worker[v] EXCEPT !.undisturbed = FALSE]
                                             ELSE worker[v]
    BY DEF Disturb
  <2> QED BY <1>1, <2>1 DEF WorkerStates
<1> QED BY <1>2 DEF Disturb

\* A worker keeps what it works on.
Keeps(v) ==
    /\ worker'[v].step = worker[v].step /\ worker'[v].config = worker[v].config
    /\ worker'[v].todo = worker[v].todo /\ worker'[v].calls = worker[v].calls
    /\ worker'[v].event = worker[v].event

LEMMA TakeJobEffect ==
    ASSUME TypeOK, TodoInv, NEW w \in Workers, NEW x, TakeJob(w, x)
    PROVE  /\ worker' \in [Workers -> WorkerStates]
           /\ \A v \in Workers \ {w} : worker'[v] = worker[v]
           /\ worker'[w].step = worker[w].step /\ worker'[w].config = worker[w].config
           /\ worker'[w].event = worker[w].event
           /\ worker'[w].undisturbed = worker[w].undisturbed
           /\ worker'[w].todo = worker[w].todo \ {x} /\ worker'[w].calls = CallsFor(w, x)
           /\ x \in worker[w].todo /\ worker[w].calls = {}
<1>1. worker[w] \in WorkerStates /\ CallsFor(w, x) \in SUBSET Calls
  BY CallsForTyped DEF TypeOK, TakeJob
<1> DEFINE new == [worker[w] EXCEPT !.todo = @ \ {x}, !.calls = CallsFor(w, x)]
<1>2. new \in WorkerStates
  BY <1>1 DEF WorkerStates
<1>3. worker' = [worker EXCEPT ![w] = new]
  BY DEF TakeJob, TypeOK
<1> QED BY <1>1, <1>2, <1>3 DEF TypeOK, TakeJob, WorkerStates

LEMMA NextStepEffect ==
    ASSUME TypeOK, NEW w \in Workers, NextStep(w)
    PROVE  LET next == StepAfter(w, worker[w].step)
           IN /\ worker' \in [Workers -> WorkerStates]
              /\ \A v \in Workers \ {w} : worker'[v] = worker[v]
              /\ worker[w].step \in Steps \ {"idle", "done"} /\ next \in Steps
              /\ worker[w].todo = {} /\ worker[w].calls = {}
              /\ worker'[w].step = next /\ worker'[w].config = worker[w].config
              /\ worker'[w].event = worker[w].event
              /\ worker'[w].undisturbed = worker[w].undisturbed
              /\ worker'[w].todo = Todo(w, worker[w].config, next)
              /\ worker'[w].calls = IF next = "full" THEN FullCalls(worker[w].ids, w) ELSE {}
<1> DEFINE next == StepAfter(w, worker[w].step)
           ids == IF worker[w].step = "create" THEN Ids ELSE worker[w].ids
           todo == Todo(w, worker[w].config, next)
           calls == IF next = "full" THEN FullCalls(worker[w].ids, w) ELSE {}
           new == [worker[w] EXCEPT !.step = next, !.ids = ids, !.todo = todo, !.calls = calls]
<1>1. worker[w] \in WorkerStates /\ worker[w].config \in Configs
  BY DEF TypeOK, WorkerStates
<1>2. worker[w].step \in Steps \ {"idle", "done"} /\ worker[w].todo = {} /\ worker[w].calls = {}
  BY DEF NextStep
<1>3. next \in Steps
  BY <1>2 DEF StepAfter, Steps
<1>4. ids \in [Policies -> Nat] /\ todo \in SUBSET (Policies \cup Targets) /\ calls \in SUBSET Calls
  <2>1. worker[w].ids \in [Policies -> Nat]
    BY <1>1 DEF WorkerStates
  <2> QED BY <1>1, <1>3, <2>1, IdsTyped, TodoTyped, FullCallsAre
<1>5. worker' = [worker EXCEPT ![w] = new]
  BY <1>1 DEF NextStep, TypeOK, WorkerStates
<1> HIDE DEF next, ids, todo, calls
<1>6. /\ new \in WorkerStates /\ new.step = next /\ new.config = worker[w].config
      /\ new.event = worker[w].event /\ new.undisturbed = worker[w].undisturbed
      /\ new.todo = todo /\ new.calls = calls
  BY <1>1, <1>3, <1>4 DEF WorkerStates
<1> HIDE DEF new
<1>7. /\ worker' \in [Workers -> WorkerStates] /\ worker'[w] = new
      /\ \A v \in Workers \ {w} : worker'[v] = worker[v]
  BY <1>5, <1>6 DEF TypeOK
<1> QED BY <1>2, <1>3, <1>6, <1>7 DEF next, todo, calls

LEMMA MakeCallEffect ==
    ASSUME TypeOK, NEW w \in Workers, NEW call \in worker[w].calls, MakeCall(w, call)
    PROVE  /\ worker' \in [Workers -> WorkerStates]
           /\ \A v \in Workers \ {w} : Keeps(v) /\ ~ worker'[v].undisturbed
           /\ worker'[w].step = worker[w].step /\ worker'[w].config = worker[w].config
           /\ worker'[w].event = worker[w].event /\ worker'[w].todo = worker[w].todo
           /\ worker'[w].undisturbed = worker[w].undisturbed
           /\ worker'[w].calls = worker[w].calls \ {call}
           /\ call \in Calls /\ Perform(call) /\ events' = events
<1>1. call \in Calls /\ events' = events
  <2>1. call \in Calls
    BY DEF TypeOK, WorkerStates
  <2> QED BY <2>1, HeardAre DEF MakeCall
<1> DEFINE others == Workers \ {w}
           disturbed == Disturb(others)
           new == [disturbed[w] EXCEPT !.calls = @ \ {call}]
<1>2. /\ disturbed \in [Workers -> WorkerStates]
      /\ \A v \in Workers :
           /\ disturbed[v].step = worker[v].step /\ disturbed[v].config = worker[v].config
           /\ disturbed[v].todo = worker[v].todo /\ disturbed[v].calls = worker[v].calls
           /\ disturbed[v].event = worker[v].event
           /\ disturbed[v].undisturbed <=> v \notin others /\ worker[v].undisturbed
  BY DisturbEffect
<1>3. worker' = [disturbed EXCEPT ![w] = new] /\ Perform(call)
  BY <1>2 DEF MakeCall
<1> HIDE DEF disturbed
<1>4. /\ new \in WorkerStates /\ new.step = disturbed[w].step /\ new.config = disturbed[w].config
      /\ new.event = disturbed[w].event /\ new.undisturbed = disturbed[w].undisturbed
      /\ new.todo = disturbed[w].todo /\ new.calls = disturbed[w].calls \ {call}
  BY <1>2 DEF WorkerStates
<1> HIDE DEF new
<1>5. /\ worker' \in [Workers -> WorkerStates] /\ worker'[w] = new
      /\ \A v \in Workers \ {w} : worker'[v] = disturbed[v]
  BY <1>2, <1>3, <1>4
<1>6. disturbed[w].undisturbed = worker[w].undisturbed
  <2>1. disturbed[w].undisturbed \in BOOLEAN /\ worker[w].undisturbed \in BOOLEAN
    BY <1>2 DEF WorkerStates, TypeOK
  <2> QED BY <1>2, <2>1
<1> QED BY <1>1, <1>2, <1>3, <1>4, <1>5, <1>6 DEF Keeps

\* A worker comes to rest or begins.
LEMMA BegunEffect ==
    ASSUME TypeOK, NEW w \in Workers, NEW e \in Events,
           worker' = [worker EXCEPT ![w] = Begun(w, e)]
    PROVE  /\ worker' \in [Workers -> WorkerStates]
           /\ \A v \in Workers \ {w} : worker'[v] = worker[v]
           /\ worker'[w].step = "create" /\ worker'[w].config = head
           /\ worker'[w].event = e /\ worker'[w].calls = {} /\ worker'[w].todo = head.policies
<1>1. head \in Configs /\ Ids \in [Policies -> Nat]
  BY IdsTyped DEF TypeOK
<1>2. Todo(w, head, "create") = head.policies /\ head.policies \subseteq Policies
  BY <1>1, Configurations DEF Todo
<1>3. Begun(w, e) \in WorkerStates
  BY <1>1, <1>2 DEF Begun, WorkerStates, Steps
<1> QED BY <1>2, <1>3 DEF TypeOK, Begun

LEMMA RestingTyped == Resting \in WorkerStates /\ NoEvent \in Events
<1>1. NoEvent \in Events
  BY PolicyAssumption, Units DEF NoEvent, Events, Calls, PolicyAssumption
<1> QED BY <1>1, PolicyAssumption DEF Resting, WorkerStates, Steps, PolicyAssumption

LEMMA RestingEffect ==
    ASSUME TypeOK, NEW w \in Workers, worker' = [worker EXCEPT ![w] = Resting]
    PROVE  /\ worker' \in [Workers -> WorkerStates]
           /\ \A v \in Workers \ {w} : worker'[v] = worker[v]
           /\ worker'[w].step = "idle" /\ worker'[w].calls = {} /\ worker'[w].todo = {}
           /\ ~ worker'[w].undisturbed
BY RestingTyped DEF TypeOK, Resting

LEMMA UserChangesAre ==
    ASSUME TypeOK, UserChanges
    PROVE  \E call \in Calls :
             UserCalls(call) /\ call.op \in {"attach", "detach", "edit", "delete"}
<1>1. PICK p \in Policies :
        \/ \E op \in {"attach", "detach"}, t \in Targets :
             UserCalls([op |-> op, policy |-> p, id |-> id[p], target |-> t])
        \/ \E op \in {"edit", "delete"} :
             UserCalls([op |-> op, policy |-> p, id |-> id[p], target |-> Root])
  BY DEF UserChanges
<1>2. id[p] \in Nat
  BY DEF TypeOK
<1>3. ASSUME NEW op \in {"attach", "detach", "edit", "delete"}, NEW t \in Targets,
             UserCalls([op |-> op, policy |-> p, id |-> id[p], target |-> t])
      PROVE  \E call \in Calls :
               UserCalls(call) /\ call.op \in {"attach", "detach", "edit", "delete"}
  <2> DEFINE call == [op |-> op, policy |-> p, id |-> id[p], target |-> t]
  <2>1. call \in Calls /\ call.op = op
    BY <1>2 DEF Calls
  <2> QED BY <1>3, <2>1
<1> QED BY <1>1, <1>3, Units

LEMMA UserCallsEffect ==
    ASSUME TypeOK, NEW call \in Calls, UserCalls(call)
    PROVE  /\ worker' \in [Workers -> WorkerStates]
           /\ \A v \in Workers : Keeps(v) /\ ~ worker'[v].undisturbed
<1>1. worker' = Disturb(Workers)
  BY DEF UserCalls
<1> QED BY <1>1, DisturbEffect DEF Keeps

LEMMA HandlerCallsEffect ==
    ASSUME TypeOK, NEW h \in acting, HandlerCalls(h)
    PROVE  /\ h.call \in Calls /\ Perform(h.call)
           /\ worker' \in [Workers -> WorkerStates]
           /\ \A v \in Workers : Keeps(v) /\ ~ worker'[v].undisturbed
           /\ events' = events
<1>1. worker' = Disturb(Workers) /\ h.call \in Calls /\ Perform(h.call)
  BY DEF HandlerCalls, TypeOK
<1>2. events' = events
  BY <1>1, HeardAre DEF HandlerCalls
<1> QED BY <1>1, <1>2, DisturbEffect DEF Keeps

LEMMA ReverseAre ==
    ASSUME NEW call \in Calls, NEW c \in Reverse(call)
    PROVE  /\ c \in Calls /\ Undoes(c, call) /\ c.policy = call.policy /\ c.target = call.target
           /\ (c.op = "attach") <=> (c.policy \in Tolerated(head, c.target))
<1>1. CASE call.op = "attach"
  <2>1. /\ c = [call EXCEPT !.op = "detach"]
        /\ call.policy \notin Tolerated(head, call.target)
    BY <1>1 DEF Reverse, IsAcceleratorScp
  <2> QED BY <1>1, <2>1 DEF Undoes, Calls
<1>2. CASE call.op = "detach"
  <2>1. /\ c = [call EXCEPT !.op = "attach"]
        /\ call.policy \in Tolerated(head, call.target)
    BY <1>2 DEF Reverse, IsAcceleratorScp, Tolerated
  <2> QED BY <1>2, <2>1 DEF Undoes, Calls
<1>3. CASE call.op \notin {"attach", "detach"}
  BY <1>3 DEF Reverse
<1> QED BY <1>1, <1>2, <1>3

-----------------------------------------------------------------------------
(* Types *)

LEMMA TypeInit == Init => TypeOK
<1> SUFFICES ASSUME Init PROVE TypeOK
  OBVIOUS
<1>1. attached \in [Targets -> SUBSET existing]
  <2>1. ASSUME NEW t \in Targets PROVE attached[t] \subseteq Policies
    <3>1. CASE t \in Managed
      <4>1. Scps(InitialConfig, t) \subseteq Policies
        BY <3>1, Configurations, PolicyAssumption DEF PolicyAssumption
      <4> QED BY <3>1, <4>1, Units DEF Init, Configured
    <3>2. CASE t \notin Managed
      BY <3>2, Units DEF Init
    <3> QED BY <3>1, <3>2
  <2> QED BY <2>1 DEF Init
<1> QED BY <1>1, RestingTyped, PolicyAssumption DEF Init, TypeOK, PolicyAssumption

LEMMA TypeStep == TypeOK /\ TodoInv /\ [Next]_vars => TypeOK'
<1> SUFFICES ASSUME TypeOK, TodoInv, [Next]_vars PROVE TypeOK'
  OBVIOUS
<1>1. CASE StartExecution
  <2>1. worker' = [worker EXCEPT ![Execution] = Begun(Execution, NoEvent)]
    BY <1>1 DEF StartExecution
  <2>2. worker' \in [Workers -> WorkerStates]
    BY <2>1, BegunEffect, RestingTyped, Units
  <2>3. executions' \in 0..MaxExecutions
    BY <1>1, PolicyAssumption DEF StartExecution, TypeOK, PolicyAssumption
  <2> QED BY <1>1, <2>2, <2>3 DEF StartExecution, TypeOK, organization
<1>2. ASSUME NEW w \in Workers, NEW x \in worker[w].todo, TakeJob(w, x) PROVE TypeOK'
  <2>1. worker' \in [Workers -> WorkerStates]
    BY <1>2, TakeJobEffect
  <2> QED BY <1>2, <2>1 DEF TakeJob, TypeOK, organization
<1>3. ASSUME NEW w \in Workers, NextStep(w) PROVE TypeOK'
  <2>1. worker' \in [Workers -> WorkerStates]
    BY <1>3, NextStepEffect
  <2> QED BY <1>3, <2>1 DEF NextStep, TypeOK, organization
<1>4. ASSUME NEW w \in Workers, NEW call \in worker[w].calls, MakeCall(w, call) PROVE TypeOK'
  <2>1. /\ worker' \in [Workers -> WorkerStates] /\ events' = events
        /\ call \in Calls /\ Perform(call)
    BY <1>4, MakeCallEffect
  <2>2. /\ attached' \in [Targets -> SUBSET existing'] /\ existing' \subseteq Policies
        /\ edited' \subseteq existing' /\ id' \in [Policies -> Nat]
    BY <2>1, PerformEffect
  <2> QED BY <1>4, <2>1, <2>2 DEF MakeCall, TypeOK
<1>5. ASSUME NEW w \in Workers, Succeeds(w) PROVE TypeOK'
  <2>1. worker' \in [Workers -> WorkerStates]
    BY <1>5, RestingEffect DEF Succeeds
  <2> QED BY <1>5, <2>1 DEF Succeeds, TypeOK, organization
<1>6. ASSUME NEW w \in Workers, Fails(w) PROVE TypeOK'
  <2>1. worker' \in [Workers -> WorkerStates]
    BY <1>6, RestingEffect DEF Fails
  <2>2. worker[w].event \in Events
    BY DEF TypeOK, WorkerStates
  <2>3. events' \subseteq Events /\ dropped' \subseteq Events
    BY <1>6, <2>2, RetriedAre DEF Fails, TypeOK
  <2> QED BY <1>6, <2>1, <2>3 DEF Fails, TypeOK, organization
<1>7. ASSUME NEW e \in events, HandlerFinds(e) PROVE TypeOK'
  <2>1. e \in Events /\ e.call \in Calls
    BY DEF TypeOK, Events
  <2>2. acting' \subseteq [event : Events, call : Calls]
    BY <1>7, <2>1, ReverseAre DEF HandlerFinds, TypeOK
  <2> QED BY <1>7, <2>2 DEF HandlerFinds, TypeOK, organization
<1>8. ASSUME NEW e \in events, HandlerStarts(e) PROVE TypeOK'
  <2>1. e \in Events
    BY DEF TypeOK
  <2>2. worker' \in [Workers -> WorkerStates]
    BY <1>8, <2>1, BegunEffect, Units DEF HandlerStarts, TypeOK
  <2> QED BY <1>8, <2>2 DEF HandlerStarts, TypeOK, organization
<1>9. ASSUME NEW e \in events, HandlerMisses(e) PROVE TypeOK'
  <2>1. e \in Events
    BY DEF TypeOK
  <2>2. events' \subseteq Events /\ dropped' \subseteq Events
    BY <1>9, <2>1, RetriedAre DEF HandlerMisses, TypeOK
  <2> QED BY <1>9, <2>2 DEF HandlerMisses, TypeOK, organization
<1>10. ASSUME NEW h \in acting, HandlerCalls(h) PROVE TypeOK'
  <2>1. /\ worker' \in [Workers -> WorkerStates] /\ events' = events
        /\ h.call \in Calls /\ Perform(h.call)
    BY <1>10, HandlerCallsEffect
  <2>2. /\ attached' \in [Targets -> SUBSET existing'] /\ existing' \subseteq Policies
        /\ edited' \subseteq existing' /\ id' \in [Policies -> Nat]
    BY <2>1, PerformEffect
  <2> QED BY <1>10, <2>1, <2>2 DEF HandlerCalls, TypeOK
<1>11. ASSUME NEW h \in acting, HandlerFails(h) PROVE TypeOK'
  <2>1. h.event \in Events
    BY DEF TypeOK
  <2>2. events' \subseteq Events /\ dropped' \subseteq Events
    BY <1>11, <2>1, RetriedAre DEF HandlerFails, TypeOK
  <2> QED BY <1>11, <2>2 DEF HandlerFails, TypeOK, organization
<1>12. ASSUME NEW call \in Calls, UserCalls(call) PROVE TypeOK'
  <2>1. worker' \in [Workers -> WorkerStates]
    BY <1>12, UserCallsEffect
  <2>2. /\ attached' \in [Targets -> SUBSET existing'] /\ existing' \subseteq Policies
        /\ edited' \subseteq existing' /\ id' \in [Policies -> Nat]
    BY <1>12, PerformEffect DEF UserCalls
  <2>3. events' \subseteq Events
    BY <1>12, HeardAre DEF UserCalls, TypeOK
  <2>4. changes' \in 0..MaxChanges
    BY <1>12, PolicyAssumption DEF UserCalls, TypeOK, PolicyAssumption
  <2> QED BY <1>12, <2>1, <2>2, <2>3, <2>4 DEF UserCalls, TypeOK
<1>13. ASSUME NEW c \in Configs, UserCommits(c) PROVE TypeOK'
  <2>1. changes' \in 0..MaxChanges
    BY <1>13, PolicyAssumption DEF UserCommits, TypeOK, PolicyAssumption
  <2> QED BY <1>13, <2>1 DEF UserCommits, TypeOK, organization
<1>14. CASE UNCHANGED vars
  BY <1>14 DEF vars, organization, TypeOK
<1> QED
  BY <1>1, <1>2, <1>3, <1>4, <1>5, <1>6, <1>7, <1>8, <1>9, <1>10, <1>11, <1>12, <1>13, <1>14,
     UserChangesAre DEF Next, WorkerStep, HandlerStep

-----------------------------------------------------------------------------
(* What workers and Lambdas are about to do *)

Plan(w) ==
    /\ worker[w].todo \subseteq Todo(w, worker[w].config, worker[w].step)
    /\ \A call \in worker[w].calls : Planned(worker[w].config, worker[w].step, call)

LEMMA PlanKept ==
    ASSUME NEW v \in Workers, Plan(v), Keeps(v) \/ worker'[v] = worker[v]
    PROVE  Plan(v)'
BY DEF Plan, Keeps

LEMMA PlanStep == TypeOK /\ TodoInv /\ CallsInv /\ [Next]_vars => TodoInv' /\ CallsInv'
<1> SUFFICES ASSUME TypeOK, TodoInv, CallsInv, [Next]_vars
             PROVE  \A v \in Workers : Plan(v)'
  BY DEF Plan, TodoInv, CallsInv
<1>0. \A v \in Workers : Plan(v)
  BY DEF Plan, TodoInv, CallsInv
<1>1. CASE StartExecution
  <2>1. worker' = [worker EXCEPT ![Execution] = Begun(Execution, NoEvent)]
    BY <1>1 DEF StartExecution
  <2>2. Plan(Execution)'
    BY <2>1, BegunEffect, RestingTyped, Units DEF Plan, Todo
  <2>3. \A v \in Workers \ {Execution} : worker'[v] = worker[v]
    BY <2>1 DEF TypeOK
  <2> QED BY <1>0, <2>2, <2>3, PlanKept
<1>2. ASSUME NEW w \in Workers, NEW x \in worker[w].todo, TakeJob(w, x)
      PROVE  \A v \in Workers : Plan(v)'
  <2>1. Plan(w)'
    BY <1>0, <1>2, TakeJobEffect, CallsForTyped DEF Plan
  <2>2. \A v \in Workers \ {w} : worker'[v] = worker[v]
    BY <1>2, TakeJobEffect
  <2> QED BY <1>0, <2>1, <2>2, PlanKept
<1>3. ASSUME NEW w \in Workers, NextStep(w)
      PROVE  \A v \in Workers : Plan(v)'
  <2> DEFINE next == StepAfter(w, worker[w].step)
             full == FullCalls(worker[w].ids, w)
  <2>1. /\ worker'[w].step = next /\ worker'[w].config = worker[w].config
        /\ worker'[w].todo = Todo(w, worker[w].config, next)
        /\ worker'[w].calls = IF next = "full" THEN full ELSE {}
        /\ \A v \in Workers \ {w} : worker'[v] = worker[v]
    BY <1>3, NextStepEffect
  <2>2. \A call \in full : call.op = "attach" /\ call.policy = Full
    BY FullCallsAre
  <2> HIDE DEF next, full
  <2>3. Plan(w)'
    BY <2>1, <2>2 DEF Plan, Planned
  <2> QED BY <1>0, <2>1, <2>3, PlanKept
<1>4. ASSUME NEW w \in Workers, NEW call \in worker[w].calls, MakeCall(w, call)
      PROVE  \A v \in Workers : Plan(v)'
  <2>1. Plan(w)'
    BY <1>0, <1>4, MakeCallEffect DEF Plan
  <2>2. \A v \in Workers \ {w} : Keeps(v)
    BY <1>4, MakeCallEffect
  <2> QED BY <1>0, <2>1, <2>2, PlanKept
<1>5. ASSUME NEW w \in Workers, worker' = [worker EXCEPT ![w] = Resting]
      PROVE  \A v \in Workers : Plan(v)'
  <2>1. Plan(w)' /\ \A v \in Workers \ {w} : worker'[v] = worker[v]
    BY <1>5, RestingEffect DEF Plan
  <2> QED BY <1>0, <2>1, PlanKept
<1>6. ASSUME NEW e \in events, HandlerStarts(e)
      PROVE  \A v \in Workers : Plan(v)'
  <2>1. CASE worker' = worker
    BY <1>0, <2>1, PlanKept
  <2>2. CASE worker' = [worker EXCEPT ![Lambda] = Begun(Lambda, e)]
    <3>1. e \in Events
      BY DEF TypeOK
    <3>2. Plan(Lambda)'
      BY <2>2, <3>1, BegunEffect, Units DEF Plan, Todo
    <3>3. \A v \in Workers \ {Lambda} : worker'[v] = worker[v]
      BY <2>2 DEF TypeOK
    <3> QED BY <1>0, <3>2, <3>3, PlanKept
  <2> QED BY <1>6, <2>1, <2>2 DEF HandlerStarts
<1>7. ASSUME NEW h \in acting, HandlerCalls(h)
      PROVE  \A v \in Workers : Plan(v)'
  BY <1>0, <1>7, HandlerCallsEffect, PlanKept
<1>8. ASSUME NEW call \in Calls, UserCalls(call)
      PROVE  \A v \in Workers : Plan(v)'
  BY <1>0, <1>8, UserCallsEffect, PlanKept
<1>9. CASE worker' = worker
  BY <1>0, <1>9, PlanKept
<1> QED
  <2>1. ASSUME NEW w \in Workers, Succeeds(w) \/ Fails(w)
        PROVE  worker' = [worker EXCEPT ![w] = Resting]
    BY <2>1 DEF Succeeds, Fails
  <2>2. ASSUME NEW e \in events, HandlerFinds(e) \/ HandlerMisses(e)
        PROVE  worker' = worker
    BY <2>2 DEF HandlerFinds, HandlerMisses
  <2>3. ASSUME NEW h \in acting, HandlerFails(h)
        PROVE  worker' = worker
    BY <2>3 DEF HandlerFails
  <2>4. ASSUME NEW c \in Configs, UserCommits(c)
        PROVE  worker' = worker
    BY <2>4 DEF UserCommits
  <2>5. UNCHANGED vars => worker' = worker
    BY DEF vars
  <2> QED
    BY <1>1, <1>2, <1>3, <1>4, <1>5, <1>6, <1>7, <1>8, <1>9, <2>1, <2>2, <2>3, <2>4, <2>5,
       UserChangesAre DEF Next, WorkerStep, HandlerStep

\* A Lambda that acts undoes what it heard of, as some configuration it followed says.
Sound(h, configs) ==
    /\ Undoes(h.call, h.event.call)
    /\ \E c \in configs : (h.call.op = "attach") <=> (h.call.policy \in Tolerated(c, h.call.target))

LEMMA ActingStep == TypeOK /\ TodoInv /\ ActingInv /\ [Next]_vars => ActingInv'
<1> SUFFICES ASSUME TypeOK, TodoInv, ActingInv, [Next]_vars PROVE ActingInv'
  OBVIOUS
<1>1. followed \subseteq followed'
  BY DEF Next, StartExecution, WorkerStep, TakeJob, NextStep, MakeCall, Succeeds, Fails,
         HandlerStep, HandlerFinds, HandlerStarts, HandlerMisses, HandlerCalls, HandlerFails,
         UserChanges, UserCalls, UserCommits, vars
<1>2. \A v \in Workers : worker'[v].step # "idle" => worker'[v].config \in followed'
  <2>1. CASE StartExecution
    <3>1. worker' = [worker EXCEPT ![Execution] = Begun(Execution, NoEvent)]
      BY <2>1 DEF StartExecution
    <3>2. /\ worker'[Execution].config = head
          /\ \A v \in Workers \ {Execution} : worker'[v] = worker[v]
      BY <3>1, BegunEffect, RestingTyped, Units
    <3> QED BY <1>1, <2>1, <3>2 DEF StartExecution, ActingInv
  <2>2. ASSUME NEW w \in Workers, NEW x \in worker[w].todo, TakeJob(w, x)
        PROVE  \A v \in Workers : worker'[v].step # "idle" => worker'[v].config \in followed'
    BY <1>1, <2>2, TakeJobEffect DEF ActingInv
  <2>3. ASSUME NEW w \in Workers, NextStep(w)
        PROVE  \A v \in Workers : worker'[v].step # "idle" => worker'[v].config \in followed'
    BY <1>1, <2>3, NextStepEffect DEF ActingInv
  <2>4. ASSUME NEW w \in Workers, NEW call \in worker[w].calls, MakeCall(w, call)
        PROVE  \A v \in Workers : worker'[v].step # "idle" => worker'[v].config \in followed'
    BY <1>1, <2>4, MakeCallEffect DEF ActingInv, Keeps
  <2>5. ASSUME NEW w \in Workers, Succeeds(w) \/ Fails(w)
        PROVE  \A v \in Workers : worker'[v].step # "idle" => worker'[v].config \in followed'
    <3>1. worker' = [worker EXCEPT ![w] = Resting]
      BY <2>5 DEF Succeeds, Fails
    <3> QED BY <1>1, <3>1, RestingEffect DEF ActingInv
  <2>6. ASSUME NEW e \in events, HandlerStarts(e)
        PROVE  \A v \in Workers : worker'[v].step # "idle" => worker'[v].config \in followed'
    <3>1. CASE worker' = worker
      BY <1>1, <3>1 DEF ActingInv
    <3>2. CASE worker' = [worker EXCEPT ![Lambda] = Begun(Lambda, e)]
      <4>1. e \in Events
        BY DEF TypeOK
      <4>2. /\ worker'[Lambda].config = head
            /\ \A v \in Workers \ {Lambda} : worker'[v] = worker[v]
        BY <3>2, <4>1, BegunEffect, Units
      <4> QED BY <1>1, <2>6, <4>2 DEF HandlerStarts, ActingInv
    <3> QED BY <2>6, <3>1, <3>2 DEF HandlerStarts
  <2>7. ASSUME NEW h \in acting, HandlerCalls(h)
        PROVE  \A v \in Workers : worker'[v].step # "idle" => worker'[v].config \in followed'
    BY <1>1, <2>7, HandlerCallsEffect DEF ActingInv, Keeps
  <2>8. ASSUME NEW call \in Calls, UserCalls(call)
        PROVE  \A v \in Workers : worker'[v].step # "idle" => worker'[v].config \in followed'
    BY <1>1, <2>8, UserCallsEffect DEF ActingInv, Keeps
  <2>9. CASE worker' = worker
    BY <1>1, <2>9 DEF ActingInv
  <2> QED
    BY <2>1, <2>2, <2>3, <2>4, <2>5, <2>6, <2>7, <2>8, <2>9, UserChangesAre
    DEF Next, WorkerStep, HandlerStep, HandlerFinds, HandlerMisses, HandlerFails, UserCommits, vars
<1>3. ASSUME NEW h \in acting'
      PROVE  Sound(h, followed')
  <2>1. CASE h \in acting
    BY <1>1, <2>1 DEF ActingInv, Sound
  <2>2. CASE h \notin acting
    <3>1. PICK e \in events : HandlerFinds(e)
      BY <2>2 DEF Next, StartExecution, WorkerStep, TakeJob, NextStep, MakeCall, Succeeds, Fails,
         HandlerStep, HandlerStarts, HandlerMisses, HandlerCalls, HandlerFails,
         UserChanges, UserCalls, UserCommits, vars
    <3>2. /\ head \in followed' /\ e.call \in Calls
          /\ \E c \in Reverse(e.call) : h = [event |-> e, call |-> c]
      BY <2>2, <3>1 DEF HandlerFinds, TypeOK, Events
    <3>3. PICK c \in Reverse(e.call) : h = [event |-> e, call |-> c]
      BY <3>2
    <3>4. h.call = c /\ h.event = e
      BY <3>3
    <3> QED BY <3>2, <3>4, ReverseAre DEF Sound
  <2> QED BY <2>1, <2>2
<1> QED BY <1>2, <1>3 DEF ActingInv, Sound

-----------------------------------------------------------------------------
(* Changes of attachments *)

\* Nobody loses an event, and nothing gets further from the configuration.
LEMMA DeviationsKept ==
    ASSUME Deviations,
           \A e \in Known : e.call.op \in {"attach", "detach"} => \E f \in Known' : f.call = e.call,
           \A t \in Managed : \A p \in Policies : (Missing(p, t)' => Missing(p, t))
                                                  /\ (Excess(p, t)' => Excess(p, t))
    PROVE  Deviations'
<1> SUFFICES ASSUME NEW t \in Managed, NEW p \in Policies
             PROVE  /\ Missing(p, t)' => Told("detach", p, t)'
                    /\ Excess(p, t)' => Told("attach", p, t)'
  BY DEF Deviations
<1>1. ASSUME NEW op \in {"attach", "detach"}, Told(op, p, t)
      PROVE  Told(op, p, t)'
  <2>1. PICK e \in Known : Tells(e, op, p, t)
    BY <1>1 DEF Told
  <2>2. PICK f \in Known' : f.call = e.call
    BY <2>1 DEF Tells
  <2>3. Tells(f, op, p, t)
    BY <2>1, <2>2 DEF Tells
  <2> QED BY <2>3 DEF Told, Tells
<1> QED BY <1>1 DEF Deviations

LEMMA EventsKept ==
    ASSUME events \subseteq events', acting' = acting, dropped \subseteq dropped'
    PROVE  \A e \in Known : \E f \in Known' : f.call = e.call
BY DEF Known

LEMMA AttachedKept ==
    ASSUME attached' = attached
    PROVE  \A t \in Managed : \A p \in Policies : (Missing(p, t)' => Missing(p, t))
                                                  /\ (Excess(p, t)' => Excess(p, t))
BY DEF Missing, Excess

\* A call that a configuration asks for brings the targets closer to it.
LEMMA PlannedCallHelps ==
    ASSUME TypeOK, NEW call \in Calls, Perform(call), NEW step,
           Planned(InitialConfig, step, call)
    PROVE  \A t \in Managed : \A p \in Policies : (Missing(p, t)' => Missing(p, t))
                                                  /\ (Excess(p, t)' => Excess(p, t))
<1>1. InitialConfig \in Configs
  BY PolicyAssumption DEF PolicyAssumption
<1> SUFFICES ASSUME NEW t \in Managed, NEW p \in Policies
             PROVE  /\ Missing(p, t)' => Missing(p, t)
                    /\ Excess(p, t)' => Excess(p, t)
  OBVIOUS
<1>2. t \in Targets
  BY Units
<1>3. CASE t # call.target \/ call.op \notin {"attach", "detach"}
  <2>1. attached'[t] = attached[t]
    BY <1>2, <1>3, PerformEffect
  <2> QED BY <2>1 DEF Missing, Excess
<1>4. CASE t = call.target /\ call.op = "attach"
  <2>1. attached'[t] = attached[t] \cup {call.policy}
    BY <1>4, PerformEffect
  <2>2. call.policy \in Configured(InitialConfig, t)
    BY <1>4 DEF Planned, Aligns, Configured
  <2>3. call.policy \in Tolerated(InitialConfig, t)
    BY <2>2, <1>1, Configurations
  <2> QED BY <2>1, <2>3 DEF Missing, Excess
<1>5. CASE t = call.target /\ call.op = "detach"
  <2>1. attached'[t] = attached[t] \ {call.policy}
    BY <1>5, PerformEffect
  <2>2. call.policy \notin Configured(InitialConfig, t)
    BY <1>1, <1>5, Configurations DEF Planned, Aligns, Configured
  <2> QED BY <2>1, <2>2 DEF Missing, Excess
<1> QED BY <1>3, <1>4, <1>5

\* What a Lambda makes of an event about a target that is not as configured.
LEMMA DeviationIsUndone ==
    ASSUME NEW e \in Events, head = InitialConfig, NEW t \in Managed, NEW p \in Policies,
           \/ Tells(e, "detach", p, t) /\ p \in Configured(InitialConfig, t)
           \/ Tells(e, "attach", p, t) /\ p \notin Tolerated(InitialConfig, t)
    PROVE  ~ Ignored(e.call) /\ \E c : c \in Reverse(e.call)
<1>1. /\ InitialConfig \in Configs /\ t # Root /\ t \notin Nested
  BY Units, PolicyAssumption DEF PolicyAssumption
<1>2. CASE Tells(e, "detach", p, t) /\ p \in Configured(InitialConfig, t)
  <2>1. p \in InitialConfig.policies \cup {Full} /\ p \in Tolerated(InitialConfig, t)
    BY <1>1, <1>2, Configurations DEF Configured
  <2> QED BY <1>1, <1>2, <2>1 DEF Tells, Ignored, Reverse, IsAcceleratorScp
<1>3. CASE Tells(e, "attach", p, t) /\ p \notin Tolerated(InitialConfig, t)
  <2>1. p \notin Tolerated(InitialConfig, t) \cup {Full}
    BY <1>3 DEF Tolerated
  <2> QED BY <1>1, <1>3, <2>1 DEF Tells, Ignored, Reverse, IsAcceleratorScp
<1> QED BY <1>2, <1>3

LEMMA FindsKeeps ==
    ASSUME TypeOK, Deviations, NEW e \in events, HandlerFinds(e), head = InitialConfig
    PROVE  Deviations'
<1> SUFFICES ASSUME NEW t \in Managed, NEW p \in Policies
             PROVE  /\ Missing(p, t)' => Told("detach", p, t)'
                    /\ Excess(p, t)' => Told("attach", p, t)'
  BY DEF Deviations
<1>1. /\ e \in Events /\ attached' = attached /\ events' = events \ {e} /\ dropped' = dropped
      /\ acting \subseteq acting'
      /\ ~ Ignored(e.call) =>
           \A c \in Reverse(e.call) : [event |-> e, call |-> c] \in acting'
  BY DEF HandlerFinds, TypeOK, organization
<1>2. ASSUME NEW op \in {"attach", "detach"}, Told(op, p, t),
             \/ op = "detach" /\ Missing(p, t)
             \/ op = "attach" /\ Excess(p, t)
      PROVE  Told(op, p, t)'
  <2>1. PICK f \in Known : Tells(f, op, p, t)
    BY <1>2 DEF Told
  <2>2. CASE f # e
    <3>1. f \in Known'
      BY <1>1, <2>2 DEF Known
    <3> QED BY <2>1, <3>1 DEF Told, Tells
  <2>3. CASE f = e
    <3>1. PICK c : ~ Ignored(e.call) /\ c \in Reverse(e.call)
      BY <1>1, <1>2, <2>1, <2>3, DeviationIsUndone DEF Missing, Excess
    <3>2. [event |-> e, call |-> c] \in acting'
      BY <1>1, <3>1
    <3>3. e \in Known'
      BY <3>2 DEF Known
    <3> QED BY <2>1, <2>3, <3>3 DEF Told, Tells
  <2> QED BY <2>2, <2>3
<1>3. (Missing(p, t)' => Missing(p, t)) /\ (Excess(p, t)' => Excess(p, t))
  BY <1>1 DEF Missing, Excess
<1> QED BY <1>2, <1>3 DEF Deviations

\* The call undoes what its event tells of, so that nothing is left to tell.
LEMMA CallKeeps ==
    ASSUME TypeOK, Deviations, NEW h \in acting, HandlerCalls(h),
           Sound(h, {InitialConfig})
    PROVE  Deviations'
<1> SUFFICES ASSUME NEW t \in Managed, NEW p \in Policies
             PROVE  /\ Missing(p, t)' => Told("detach", p, t)'
                    /\ Excess(p, t)' => Told("attach", p, t)'
  BY DEF Deviations
<1>1. /\ events' = events /\ dropped' = dropped /\ acting' = acting \ {h}
      /\ h.call \in Calls /\ Perform(h.call) /\ h.event.call \in Calls
      /\ t \in Targets /\ InitialConfig \in Configs
  BY HandlerCallsEffect, Units, PolicyAssumption
  DEF HandlerCalls, TypeOK, Events, PolicyAssumption
<1>2. /\ h.call.op = "attach" => h.event.call.op = "detach"
      /\ h.call.op = "detach" => h.event.call.op = "attach"
      /\ h.call.op \in {"attach", "detach"}
      /\ h.call.policy = h.event.call.policy /\ h.call.target = h.event.call.target
      /\ (h.call.op = "attach") <=> (h.call.policy \in Tolerated(InitialConfig, h.call.target))
  BY <1>1 DEF Sound, Undoes, Calls
<1>3. ASSUME NEW op \in {"attach", "detach"}, Told(op, p, t), ~ Tells(h.event, op, p, t)
      PROVE  Told(op, p, t)'
  <2>1. PICK f \in Known : Tells(f, op, p, t)
    BY <1>3 DEF Told
  <2>2. f # h.event
    BY <1>3, <2>1
  <2>3. f \in Known'
    BY <1>1, <2>2 DEF Known
  <2> QED BY <2>1, <2>3 DEF Told, Tells
<1>4. CASE p # h.call.policy \/ t # h.call.target
  <2>1. p \in attached'[t] <=> p \in attached[t]
    BY <1>1, <1>2, <1>4, PerformEffect
  <2>2. ~ Tells(h.event, "attach", p, t) /\ ~ Tells(h.event, "detach", p, t)
    BY <1>2, <1>4 DEF Tells
  <2> QED BY <1>3, <2>1, <2>2 DEF Missing, Excess, Deviations
<1>5. CASE p = h.call.policy /\ t = h.call.target
  <2>1. CASE h.call.op = "attach"
    <3>1. p \in attached'[t] /\ p \in Tolerated(InitialConfig, t)
      BY <1>1, <1>2, <1>5, <2>1, PerformEffect
    <3> QED BY <3>1 DEF Missing, Excess
  <2>2. CASE h.call.op = "detach"
    <3>1. p \notin attached'[t] /\ p \notin Tolerated(InitialConfig, t)
      BY <1>1, <1>2, <1>5, <2>2, PerformEffect
    <3>2. p \notin Configured(InitialConfig, t)
      BY <1>1, <3>1, Configurations
    <3> QED BY <3>1, <3>2 DEF Missing, Excess
  <2> QED BY <1>2, <2>1, <2>2
<1> QED BY <1>4, <1>5

LEMMA UserCallKeeps ==
    ASSUME TypeOK, Deviations, NEW call \in Calls, UserCalls(call)
    PROVE  Deviations'
<1> SUFFICES ASSUME NEW t \in Managed, NEW p \in Policies
             PROVE  /\ Missing(p, t)' => Told("detach", p, t)'
                    /\ Excess(p, t)' => Told("attach", p, t)'
  BY DEF Deviations
<1>1. /\ events' = events \cup Heard(call, "user") /\ dropped' = dropped /\ acting' = acting
      /\ Perform(call) /\ t \in Targets
  BY Units DEF UserCalls
<1>2. ASSUME NEW op \in {"attach", "detach"}, Told(op, p, t)
      PROVE  Told(op, p, t)'
  BY <1>1, <1>2 DEF Told, Known, Tells
<1>3. CASE call.op \in {"attach", "detach"} /\ call.policy = p /\ call.target = t
  <2>1. Told(call.op, p, t)'
    <3>1. PICK e \in Heard(call, "user") : Tells(e, call.op, p, t)
      BY <1>3, HeardAre
    <3>2. e \in Known'
      BY <1>1, <3>1 DEF Known
    <3> QED BY <3>1, <3>2 DEF Told, Tells
  <2>2. (call.op = "attach" => p \in attached'[t]) /\ (call.op = "detach" => p \notin attached'[t])
    BY <1>1, <1>3, PerformEffect
  <2> QED BY <1>3, <2>1, <2>2 DEF Missing, Excess
<1>4. CASE ~ (call.op \in {"attach", "detach"} /\ call.policy = p /\ call.target = t)
  <2>1. p \in attached'[t] <=> p \in attached[t]
    BY <1>1, <1>4, PerformEffect
  <2> QED BY <1>2, <2>1 DEF Missing, Excess, Deviations
<1> QED BY <1>3, <1>4

LEMMA FollowedGrows == [Next]_vars => followed \subseteq followed'
BY DEF Next, StartExecution, WorkerStep, TakeJob, NextStep, MakeCall, Succeeds, Fails,
       HandlerStep, HandlerFinds, HandlerStarts, HandlerMisses, HandlerCalls, HandlerFails,
       UserChanges, UserCalls, UserCommits, vars

LEMMA ChangesStep ==
    TypeOK /\ TodoInv /\ CallsInv /\ ActingInv /\ ChangesInv /\ [Next]_vars => ChangesInv'
<1> SUFFICES ASSUME TypeOK, TodoInv, CallsInv, ActingInv, ChangesInv, [Next]_vars,
                    followed' \subseteq {InitialConfig}
             PROVE  Deviations'
  BY DEF ChangesInv
<1>0. followed \subseteq {InitialConfig} /\ Deviations
  BY FollowedGrows DEF ChangesInv
<1>1. CASE /\ events' = events /\ acting' = acting /\ dropped' = dropped /\ attached' = attached
  BY <1>0, <1>1, EventsKept, AttachedKept, DeviationsKept
<1>2. ASSUME NEW w \in Workers, NEW call \in worker[w].calls, MakeCall(w, call) PROVE Deviations'
  <2>1. /\ call \in Calls /\ Perform(call) /\ events' = events
        /\ Planned(worker[w].config, worker[w].step, call)
    BY <1>2, MakeCallEffect DEF CallsInv
  <2>2. worker[w].config = InitialConfig
    BY <1>0, <2>1 DEF Planned, ActingInv
  <2>3. \A t \in Managed : \A p \in Policies : (Missing(p, t)' => Missing(p, t))
                                               /\ (Excess(p, t)' => Excess(p, t))
    BY <2>1, <2>2, PlannedCallHelps
  <2>4. acting' = acting /\ dropped' = dropped
    BY <1>2 DEF MakeCall
  <2> QED BY <1>0, <2>1, <2>3, <2>4, EventsKept, DeviationsKept
<1>3. ASSUME NEW w \in Workers, Fails(w) PROVE Deviations'
  <2>1. /\ events \subseteq events' /\ acting' = acting /\ dropped \subseteq dropped'
        /\ attached' = attached
    BY <1>3 DEF Fails, organization
  <2> QED BY <1>0, <2>1, EventsKept, AttachedKept, DeviationsKept
<1>4. ASSUME NEW e \in events, HandlerFinds(e) PROVE Deviations'
  <2>1. head = InitialConfig
    BY <1>4 DEF HandlerFinds
  <2> QED BY <1>0, <1>4, <2>1, FindsKeeps
<1>5. ASSUME NEW e \in events, HandlerStarts(e) PROVE Deviations'
  <2>1. /\ events' = events \ {e} /\ e.call.op = "edit" /\ acting' = acting
        /\ dropped' = dropped /\ attached' = attached
    BY <1>5 DEF HandlerStarts, organization
  <2>2. \A f \in Known : f.call.op \in {"attach", "detach"} => f \in Known'
    BY <2>1 DEF Known
  <2> QED BY <1>0, <2>1, <2>2, AttachedKept, DeviationsKept
<1>6. ASSUME NEW e \in events, HandlerMisses(e) PROVE Deviations'
  <2>1. /\ events' = (events \ {e}) \cup Retried(e) /\ dropped' = dropped \cup GivenUp(e)
        /\ acting' = acting /\ attached' = attached /\ e \in Events
    BY <1>6 DEF HandlerMisses, organization, TypeOK
  <2>2. PICK again \in Retried(e) \cup GivenUp(e) : again.call = e.call
    BY <2>1, RetriedAre
  <2>3. \A f \in Known : \E g \in Known' : g.call = f.call
    BY <2>1, <2>2 DEF Known
  <2> QED BY <1>0, <2>1, <2>3, AttachedKept, DeviationsKept
<1>7. ASSUME NEW h \in acting, HandlerCalls(h) PROVE Deviations'
  <2>1. Sound(h, {InitialConfig})
    BY <1>0 DEF ActingInv, Sound
  <2> QED BY <1>0, <1>7, <2>1, CallKeeps
<1>8. ASSUME NEW h \in acting, HandlerFails(h) PROVE Deviations'
  <2>1. /\ events' = events \cup Retried(h.event) /\ dropped' = dropped \cup GivenUp(h.event)
        /\ acting' = acting \ {h} /\ attached' = attached /\ h.event \in Events
    BY <1>8 DEF HandlerFails, organization, TypeOK
  <2>2. PICK again \in Retried(h.event) \cup GivenUp(h.event) : again.call = h.event.call
    BY <2>1, RetriedAre
  <2>3. \A f \in Known : \E g \in Known' : g.call = f.call
    BY <2>1, <2>2 DEF Known
  <2> QED BY <1>0, <2>1, <2>3, AttachedKept, DeviationsKept
<1>9. ASSUME NEW call \in Calls, UserCalls(call) PROVE Deviations'
  BY <1>0, <1>9, UserCallKeeps
<1> QED
  BY <1>1, <1>2, <1>3, <1>4, <1>5, <1>6, <1>7, <1>8, <1>9, UserChangesAre
  DEF Next, StartExecution, WorkerStep, TakeJob, NextStep, Succeeds, HandlerStep, UserCommits,
      organization, vars

-----------------------------------------------------------------------------
(* Edits of policies *)

LEMMA CreateCallsAre ==
    ASSUME NEW w, NEW x, worker[w].step = "create"
    PROVE  \E call \in CallsFor(w, x) : call.policy = x
<1> DEFINE op == IF worker[w].ids[x] = 0 THEN "create" ELSE "update"
<1>1. CallsFor(w, x) = CallsOn(op, worker[w].ids, {x}, Root)
  BY DEF CallsFor, CreateCalls
<1>2. About(CallsOn(op, worker[w].ids, {x}, Root), op, x, Root)
  BY CallsOnAre
<1> QED BY <1>1, <1>2 DEF About

LEMMA EditKept ==
    ASSUME NEW p, EditTold(p) \/ Rewriting(p),
           events \subseteq events', dropped \subseteq dropped',
           Keeps(Lambda) \/ worker'[Lambda] = worker[Lambda]
    PROVE  EditTold(p)' \/ Rewriting(p)'
BY DEF EditTold, Rewriting, Keeps

LEMMA EditsStep ==
    TypeOK /\ TodoInv /\ CallsInv /\ ActingInv /\ EditsInv /\ [Next]_vars => EditsInv'
<1> SUFFICES ASSUME TypeOK, TodoInv, CallsInv, ActingInv, EditsInv, [Next]_vars,
                    followed' \subseteq {InitialConfig},
                    NEW p \in InitialConfig.policies, p \in edited'
             PROVE  EditTold(p)' \/ Rewriting(p)'
  BY DEF EditsInv
<1>0. /\ p \in edited => EditTold(p) \/ Rewriting(p)
      /\ Lambda \in Workers /\ Execution # Lambda
  BY FollowedGrows, Units, PolicyAssumption DEF EditsInv, PolicyAssumption
<1>1. CASE StartExecution
  BY <1>0, <1>1, EditKept DEF StartExecution, organization, TypeOK
<1>2. ASSUME NEW w \in Workers, NEW x \in worker[w].todo, TakeJob(w, x)
      PROVE  EditTold(p)' \/ Rewriting(p)'
  <2>1. /\ edited' = edited /\ events' = events /\ dropped' = dropped
    BY <1>2 DEF TakeJob, organization
  <2>2. CASE w # Lambda
    <3>1. worker'[Lambda] = worker[Lambda]
      BY <1>0, <1>2, <2>2, TakeJobEffect
    <3> QED BY <1>0, <2>1, <3>1, EditKept
  <2>3. CASE w = Lambda
    <3>1. /\ worker'[Lambda].step = worker[Lambda].step
          /\ worker'[Lambda].event = worker[Lambda].event
          /\ worker'[Lambda].todo = worker[Lambda].todo \ {x}
          /\ worker'[Lambda].calls = CallsFor(Lambda, x) /\ worker[Lambda].calls = {}
      BY <1>2, <2>3, TakeJobEffect
    <3>2. CASE EditTold(p)
      BY <2>1, <3>2 DEF EditTold
    <3>3. CASE Rewriting(p)
      <4>1. worker[Lambda].step = "create" /\ p \in worker[Lambda].todo
        BY <3>1, <3>3 DEF Rewriting
      <4>2. \E call \in CallsFor(Lambda, x) : call.policy = x
        BY <4>1, CreateCallsAre
      <4> QED BY <3>1, <3>3, <4>1, <4>2 DEF Rewriting
    <3> QED BY <1>0, <2>1, <3>2, <3>3
  <2> QED BY <2>2, <2>3
<1>3. ASSUME NEW w \in Workers, NextStep(w)
      PROVE  EditTold(p)' \/ Rewriting(p)'
  <2>1. /\ edited' = edited /\ events' = events /\ dropped' = dropped
        /\ worker[w].todo = {} /\ worker[w].calls = {}
        /\ \A v \in Workers \ {w} : worker'[v] = worker[v]
    BY <1>3, NextStepEffect DEF NextStep, organization
  <2>2. CASE w # Lambda
    BY <1>0, <2>1, <2>2, EditKept
  <2>3. CASE w = Lambda
    <3>1. ~ Rewriting(p)
      BY <2>1, <2>3 DEF Rewriting
    <3> QED BY <1>0, <2>1, <3>1 DEF EditTold
  <2> QED BY <2>2, <2>3
<1>4. ASSUME NEW w \in Workers, NEW call \in worker[w].calls, MakeCall(w, call)
      PROVE  EditTold(p)' \/ Rewriting(p)'
  <2>1. /\ call \in Calls /\ Perform(call) /\ events' = events /\ dropped' = dropped
        /\ Planned(worker[w].config, worker[w].step, call)
    BY <1>4, MakeCallEffect DEF CallsInv, MakeCall
  <2>2. call.op \in {"create", "update", "attach", "detach"}
    BY <2>1 DEF Planned, Aligns
  <2>3. p \in edited
    BY <2>1, <2>2, PerformEffect
  <2>4. CASE w # Lambda
    <3>1. Keeps(Lambda)
      BY <1>0, <1>4, <2>4, MakeCallEffect
    <3> QED BY <1>0, <2>1, <2>3, <3>1, EditKept
  <2>5. CASE w = Lambda
    <3>1. /\ worker'[Lambda].step = worker[Lambda].step
          /\ worker'[Lambda].event = worker[Lambda].event
          /\ worker'[Lambda].todo = worker[Lambda].todo
          /\ worker'[Lambda].calls = worker[Lambda].calls \ {call}
      BY <1>4, <2>5, MakeCallEffect
    <3>2. CASE EditTold(p)
      BY <2>1, <3>2 DEF EditTold
    <3>3. CASE Rewriting(p)
      <4>1. call.op \in {"create", "update"}
        BY <2>1, <2>5, <3>3 DEF Planned, Rewriting
      <4>2. p # call.policy
        BY <2>1, <4>1, PerformEffect
      <4> QED BY <3>1, <3>3, <4>2 DEF Rewriting
    <3> QED BY <1>0, <2>3, <3>2, <3>3
  <2> QED BY <2>4, <2>5
<1>5. ASSUME NEW w \in Workers, Succeeds(w)
      PROVE  EditTold(p)' \/ Rewriting(p)'
  <2>1. /\ edited' = edited /\ events' = events /\ dropped' = dropped
        /\ worker[w].step = "done"
        /\ \A v \in Workers \ {w} : worker'[v] = worker[v]
    BY <1>5, RestingEffect DEF Succeeds, organization
  <2>2. w = Lambda => ~ Rewriting(p)
    BY <2>1 DEF Rewriting
  <2> QED BY <1>0, <2>1, <2>2, EditKept DEF EditTold
<1>6. ASSUME NEW w \in Workers, Fails(w)
      PROVE  EditTold(p)' \/ Rewriting(p)'
  <2>1. /\ edited' = edited /\ events \subseteq events' /\ dropped \subseteq dropped'
        /\ \A v \in Workers \ {w} : worker'[v] = worker[v]
    BY <1>6, RestingEffect DEF Fails, organization
  <2>2. CASE w # Lambda \/ EditTold(p)
    BY <1>0, <2>1, <2>2, EditKept DEF EditTold
  <2>3. CASE w = Lambda /\ Rewriting(p)
    <3>1. worker[Lambda].event \in Events
      BY <1>0 DEF TypeOK, WorkerStates
    <3>2. PICK again \in Retried(worker[Lambda].event) \cup GivenUp(worker[Lambda].event) :
            again.call = worker[Lambda].event.call
      BY <3>1, RetriedAre
    <3>3. again \in events' \cup dropped'
      BY <1>6, <2>3, <3>2 DEF Fails
    <3> QED BY <2>3, <3>2, <3>3 DEF Rewriting, EditTold
  <2> QED BY <1>0, <2>1, <2>2, <2>3
<1>7. ASSUME NEW e \in events, HandlerFinds(e)
      PROVE  EditTold(p)' \/ Rewriting(p)'
  <2>1. /\ e.call.op # "edit" /\ events' = events \ {e} /\ dropped' = dropped
        /\ worker' = worker /\ edited' = edited
    BY <1>7 DEF HandlerFinds, organization
  <2> QED BY <1>0, <2>1 DEF EditTold, Rewriting
<1>8. ASSUME NEW e \in events, HandlerStarts(e)
      PROVE  EditTold(p)' \/ Rewriting(p)'
  <2>1. /\ e \in Events /\ e.call.op = "edit" /\ events' = events \ {e} /\ dropped' = dropped
        /\ edited' = edited /\ worker[Lambda].step = "idle" /\ head = InitialConfig
        /\ ~ Ignored(e.call) => worker' = [worker EXCEPT ![Lambda] = Begun(Lambda, e)]
    BY <1>8 DEF HandlerStarts, organization, TypeOK
  <2>2. PICK f \in events \cup dropped : f.call.op = "edit" /\ f.call.policy = p
    BY <1>0, <2>1 DEF EditTold, Rewriting
  <2>3. CASE f # e
    BY <2>1, <2>2, <2>3 DEF EditTold
  <2>4. CASE f = e
    <3>1. ~ Ignored(e.call)
      BY <2>1, <2>2, <2>4 DEF Ignored, IsAcceleratorScp
    <3>2. /\ worker'[Lambda].step = "create" /\ worker'[Lambda].event = e
          /\ worker'[Lambda].todo = InitialConfig.policies
      BY <1>0, <2>1, <3>1, BegunEffect
    <3> QED BY <2>2, <2>4, <3>2 DEF Rewriting
  <2> QED BY <2>3, <2>4
<1>9. ASSUME NEW e \in events, HandlerMisses(e)
      PROVE  EditTold(p)' \/ Rewriting(p)'
  <2>1. /\ events' = (events \ {e}) \cup Retried(e) /\ dropped' = dropped \cup GivenUp(e)
        /\ worker' = worker /\ edited' = edited /\ e \in Events
    BY <1>9 DEF HandlerMisses, organization, TypeOK
  <2>2. PICK again \in Retried(e) \cup GivenUp(e) : again.call = e.call
    BY <2>1, RetriedAre
  <2>3. EditTold(p) => EditTold(p)'
    BY <2>1, <2>2 DEF EditTold
  <2> QED BY <1>0, <2>1, <2>3 DEF Rewriting
<1>10. ASSUME NEW h \in acting, HandlerCalls(h)
       PROVE  EditTold(p)' \/ Rewriting(p)'
  <2>1. /\ h.call \in Calls /\ Perform(h.call) /\ Keeps(Lambda)
        /\ events' = events /\ dropped' = dropped
    BY <1>0, <1>10, HandlerCallsEffect DEF HandlerCalls
  <2>2. h.call.op \in {"attach", "detach"}
    <3>1. Undoes(h.call, h.event.call) /\ h.event.call \in Calls
      BY DEF ActingInv, TypeOK, Events
    <3> QED BY <3>1 DEF Undoes, Calls
  <2>3. edited' = edited
    BY <2>1, <2>2, PerformEffect
  <2> QED BY <1>0, <2>1, <2>3, EditKept
<1>11. ASSUME NEW h \in acting, HandlerFails(h)
       PROVE  EditTold(p)' \/ Rewriting(p)'
  BY <1>0, <1>11, EditKept DEF HandlerFails, organization
<1>12. ASSUME NEW call \in Calls, UserCalls(call)
       PROVE  EditTold(p)' \/ Rewriting(p)'
  <2>1. /\ Perform(call) /\ Keeps(Lambda)
        /\ events' = events \cup Heard(call, "user") /\ dropped' = dropped
    BY <1>0, <1>12, UserCallsEffect DEF UserCalls
  <2>2. CASE p \in edited
    BY <1>0, <2>1, <2>2, EditKept
  <2>3. CASE p \notin edited
    <3>1. call.op = "edit" /\ call.policy = p
      <4>1. call.op \in {"attach", "detach", "update", "edit", "create", "delete"}
        BY DEF Calls
      <4> QED BY <2>1, <2>3, <4>1, PerformEffect
    <3>2. PICK e \in Heard(call, "user") : Tells(e, "edit", p, call.target)
      BY <3>1, HeardAre
    <3> QED BY <2>1, <3>2 DEF EditTold, Tells
  <2> QED BY <2>2, <2>3
<1>13. CASE /\ events' = events /\ dropped' = dropped /\ worker' = worker /\ edited' = edited
  BY <1>0, <1>13, EditKept
<1> QED
  BY <1>1, <1>2, <1>3, <1>4, <1>5, <1>6, <1>7, <1>8, <1>9, <1>10, <1>11, <1>12, <1>13,
     UserChangesAre DEF Next, WorkerStep, HandlerStep, UserCommits, organization, vars

-----------------------------------------------------------------------------
(* A pass that nobody disturbs *)

LEMMA PassKept ==
    ASSUME NEW w \in Workers, Achieved(w), worker'[w] = worker[w],
           attached' = attached, existing' = existing, edited' = edited
    PROVE  Achieved(w)'
BY DEF Achieved, Created, StrippedOfForeign, HasFull, TargetsAligned, NearlyAligned, FullyAligned,
       About

LEMMA PassBegins ==
    ASSUME NEW w \in Workers, worker'[w].step = "create",
           worker'[w].todo = worker'[w].config.policies
    PROVE  Achieved(w)'
BY DEF Achieved, Created, StrippedOfForeign, HasFull, TargetsAligned, Steps

\* A listing of a target plans all it lacks and all it has too much.
LEMMA ListingPlans ==
    ASSUME NEW w, NEW x
    PROVE  /\ worker[w].step = "strip" =>
                \A p \in attached[x] \ ({Full} \cup worker[w].config.policies) :
                    About(CallsFor(w, x), "detach", p, x)
           /\ worker[w].step \in {"units", "accounts"} =>
                /\ \A p \in attached[x] \ Configured(worker[w].config, x) :
                     About(CallsFor(w, x), "detach", p, x)
                /\ \A p \in Scps(worker[w].config, x) \ attached[x] :
                     About(CallsFor(w, x), "attach", p, x)
<1> DEFINE c == worker[w].config
<1>1. CASE worker[w].step = "strip"
  <2>1. CallsFor(w, x) = CallsOn("detach", Ids, attached[x] \ ({Full} \cup c.policies), x)
    BY <1>1 DEF CallsFor, StripCalls
  <2> QED BY <1>1, <2>1, CallsOnAre
<1>2. CASE worker[w].step \in {"units", "accounts"}
  <2> DEFINE off == CallsOn("detach", Ids, attached[x] \ Configured(c, x), x)
             on == CallsOn("attach", worker[w].ids, Scps(c, x) \ attached[x], x)
  <2>1. CallsFor(w, x) = off \cup on
    BY <1>2 DEF CallsFor, AlignCalls
  <2>2. /\ \A p \in attached[x] \ Configured(c, x) : About(off, "detach", p, x)
        /\ \A p \in Scps(c, x) \ attached[x] : About(on, "attach", p, x)
    BY CallsOnAre
  <2> HIDE DEF off, on
  <2> QED BY <1>2, <2>1, <2>2 DEF About
<1> QED BY <1>1, <1>2

LEMMA TakeJobAchieves ==
    ASSUME TypeOK, TodoInv, NEW w \in Workers, Achieved(w), NEW x, TakeJob(w, x)
    PROVE  Achieved(w)'
<1>1. /\ worker'[w].step = worker[w].step /\ worker'[w].config = worker[w].config
      /\ worker'[w].todo = worker[w].todo \ {x} /\ worker'[w].calls = CallsFor(w, x)
      /\ x \in worker[w].todo /\ worker[w].calls = {}
      /\ attached' = attached /\ existing' = existing /\ edited' = edited
      /\ worker[w].step \in Steps
  BY TakeJobEffect DEF TakeJob, organization, TypeOK, WorkerStates
<1>2. Created(w)'
  BY <1>1, CreateCallsAre DEF Achieved, Created
<1>3. StrippedOfForeign(w)'
  BY <1>1, ListingPlans DEF Achieved, StrippedOfForeign, About
<1>4. HasFull(w)'
  <2>1. worker[w].step # "full"
    BY <1>1 DEF TodoInv, Todo
  <2> QED BY <1>1, <2>1 DEF Achieved, HasFull
<1>5. TargetsAligned(w)'
  <2>1. ASSUME NEW targets, worker[w].step \in {"units", "accounts"}, NearlyAligned(w, targets)
        PROVE  NearlyAligned(w, targets)'
    BY <1>1, <2>1, ListingPlans DEF NearlyAligned, About
  <2>2. ASSUME NEW targets, FullyAligned(w, targets)
        PROVE  FullyAligned(w, targets)'
    BY <1>1, <2>2 DEF FullyAligned
  <2> QED BY <1>1, <2>1, <2>2 DEF Achieved, TargetsAligned
<1> QED BY <1>2, <1>3, <1>4, <1>5 DEF Achieved

LEMMA NextStepAchieves ==
    ASSUME TypeOK, NEW w \in Workers, Achieved(w), NextStep(w)
    PROVE  Achieved(w)'
<1> DEFINE next == StepAfter(w, worker[w].step)
           full == FullCalls(worker[w].ids, w)
<1>1. /\ worker[w].step \in Steps \ {"idle", "done"}
      /\ worker[w].todo = {} /\ worker[w].calls = {}
      /\ worker'[w].step = next /\ worker'[w].config = worker[w].config
      /\ worker'[w].todo = Todo(w, worker[w].config, next)
      /\ worker'[w].calls = IF next = "full" THEN full ELSE {}
      /\ attached' = attached /\ existing' = existing /\ edited' = edited
  BY NextStepEffect DEF NextStep, organization
<1>2. /\ next = "strip" <=> worker[w].step = "create"
      /\ next = "full" <=> worker[w].step = "strip"
      /\ next = "units" <=> worker[w].step = "full"
      /\ next = "accounts" <=> worker[w].step = "units"
      /\ next \in {"again", "done"} <=> worker[w].step \in {"accounts", "again"}
      /\ next \in {"strip", "full", "units", "accounts", "again", "done"}
  BY <1>1 DEF StepAfter, Steps
<1>3. \A op, p, t : ~ About(worker[w].calls, op, p, t)
  BY <1>1 DEF About
<1>4. \A t \in Stripped(w) \cup Accounts : Full \in attached[t] \/ About(full, "attach", Full, t)
  BY FullCallsAre
<1> HIDE DEF next, full
<1>5. Created(w)'
  BY <1>1, <1>2 DEF Achieved, Created, Steps
<1>6. StrippedOfForeign(w)'
  <2>1. CASE next = "strip"
    <3>1. worker'[w].todo = Stripped(w)
      BY <1>1, <2>1 DEF Todo
    <3> QED BY <1>1, <2>1, <3>1 DEF StrippedOfForeign
  <2>2. CASE next # "strip"
    BY <1>1, <1>2, <1>3, <2>2 DEF Achieved, StrippedOfForeign, Steps
  <2> QED BY <2>1, <2>2
<1>7. HasFull(w)'
  <2>1. CASE next = "full"
    <3>1. worker'[w].calls = full
      BY <1>1, <2>1
    <3> QED BY <1>1, <1>4, <2>1, <3>1 DEF HasFull
  <2>2. CASE next # "full"
    BY <1>1, <1>2, <1>3, <2>2 DEF Achieved, HasFull, Steps
  <2> QED BY <2>1, <2>2
<1>8. TargetsAligned(w)'
  <2>1. ASSUME NEW targets, NearlyAligned(w, targets),
               \A t \in Aligning(worker[w].config, targets) : Full \in attached[t]
        PROVE  FullyAligned(w, targets)'
    BY <1>1, <1>3, <2>1 DEF NearlyAligned, FullyAligned, Configured
  <2>2. ASSUME NEW targets, FullyAligned(w, targets)
        PROVE  FullyAligned(w, targets)'
    BY <1>1, <2>2 DEF FullyAligned
  <2>3. worker[w].step \in {"units", "accounts", "again"} =>
          /\ \A t \in Aligning(worker[w].config, Accounts) : Full \in attached[t]
          /\ \A t \in Aligning(worker[w].config, TopOus) : Full \in attached[t]
    BY DEF Achieved, HasFull, Aligning, Stripped, Ous
  <2>4. next = "units" => NearlyAligned(w, TopOus)'
    BY <1>1 DEF NearlyAligned, Todo
  <2>5. next = "accounts" => NearlyAligned(w, Accounts)'
    BY <1>1 DEF NearlyAligned, Todo
  <2>6. worker[w].step \in {"units", "accounts", "again"} => FullyAligned(w, TopOus)'
    BY <2>1, <2>2, <2>3 DEF Achieved, TargetsAligned
  <2>7. worker[w].step \in {"accounts", "again"} => FullyAligned(w, Accounts)'
    BY <2>1, <2>2, <2>3 DEF Achieved, TargetsAligned
  <2> QED BY <1>1, <1>2, <2>4, <2>5, <2>6, <2>7 DEF TargetsAligned
<1> QED BY <1>5, <1>6, <1>7, <1>8 DEF Achieved

LEMMA MakeCallAchieves ==
    ASSUME TypeOK, CallsInv, NEW w \in Workers, Achieved(w),
           NEW call \in worker[w].calls, MakeCall(w, call)
    PROVE  Achieved(w)'
<1> DEFINE c == worker[w].config
<1>1. /\ worker'[w].step = worker[w].step /\ worker'[w].config = c
      /\ worker'[w].todo = worker[w].todo /\ worker'[w].calls = worker[w].calls \ {call}
      /\ call \in Calls /\ Perform(call)
      /\ Planned(c, worker[w].step, call)
      /\ c \in Configs /\ worker[w].step \in Steps
  BY MakeCallEffect DEF CallsInv, TypeOK, WorkerStates
<1>2. /\ \A t \in Targets \ {call.target} : attached'[t] = attached[t]
      /\ call.op = "attach" => attached'[call.target] = attached[call.target] \cup {call.policy}
      /\ call.op = "detach" => attached'[call.target] = attached[call.target] \ {call.policy}
      /\ call.op \notin {"attach", "detach"} => \A t \in Targets : attached'[t] = attached[t]
      /\ call.op \in {"attach", "detach"} => existing' = existing /\ edited' = edited
      /\ call.op \in {"create", "update"} =>
           existing' = existing \cup {call.policy} /\ edited' = edited \ {call.policy}
  BY <1>1, PerformEffect
<1>3. /\ call.op \in {"create", "update"} => worker[w].step = "create"
      /\ call.op \in {"create", "update", "attach", "detach"}
      /\ worker[w].step # "create" => call.op \in {"attach", "detach"}
  BY <1>1 DEF Planned, Aligns
\* A pending call about a policy is still pending, or it was this one.
<1>4. ASSUME NEW op, NEW p, NEW t, About(worker[w].calls, op, p, t)
      PROVE  \/ About(worker'[w].calls, op, p, t)
             \/ call.op = op /\ call.policy = p /\ call.target = t
  BY <1>1, <1>4 DEF About
<1>5. \A t \in Managed \cup Stripped(w) : t \in Targets
  BY Units
<1>6. Created(w)'
  <2>1. CASE worker[w].step = "create"
    <3>1. call.op \in {"create", "update"}
      BY <1>1, <2>1 DEF Planned
    <3> QED BY <1>1, <1>2, <2>1, <3>1 DEF Achieved, Created
  <2>2. CASE worker[w].step # "create"
    BY <1>1, <1>2, <1>3, <2>2 DEF Achieved, Created
  <2> QED BY <2>1, <2>2
<1>7. StrippedOfForeign(w)'
  <2>1. CASE worker[w].step = "strip"
    <3>1. call.op = "detach"
      BY <1>1, <2>1 DEF Planned
    <3>2. ASSUME NEW t \in Stripped(w) \ worker[w].todo,
                 NEW p \in attached'[t] \ ({Full} \cup c.policies)
          PROVE  About(worker'[w].calls, "detach", p, t)
      <4>1. p \in attached[t] /\ ~ (call.policy = p /\ call.target = t)
        BY <1>2, <1>5, <3>1, <3>2
      <4>2. About(worker[w].calls, "detach", p, t)
        BY <2>1, <3>2, <4>1 DEF Achieved, StrippedOfForeign
      <4> QED BY <1>4, <4>1, <4>2
    <3> QED BY <1>1, <2>1, <3>2 DEF StrippedOfForeign
  <2>2. CASE worker[w].step \in Steps \ {"idle", "create", "strip"}
    <3>1. call.op = "attach" => call.policy \in {Full} \cup c.policies
      <4>1. call.op = "attach" => call.policy = Full \/ (call.target \in Managed /\ call.policy \in Scps(c, call.target))
        BY <1>1, <2>2 DEF Planned, Aligns, Aligning, Managed
      <4> QED BY <1>1, <4>1, Configurations
    <3>2. ASSUME NEW t \in Stripped(w)
          PROVE  attached'[t] \subseteq {Full} \cup c.policies
      <4>1. attached[t] \subseteq {Full} \cup c.policies
        BY <2>2 DEF Achieved, StrippedOfForeign
      <4> QED BY <1>2, <1>3, <1>5, <3>1, <4>1
    <3> QED BY <1>1, <2>2, <3>2 DEF StrippedOfForeign
  <2>3. CASE worker[w].step \in {"idle", "create"}
    BY <1>1, <2>3 DEF StrippedOfForeign
  <2> QED BY <1>1, <2>1, <2>2, <2>3
<1>8. HasFull(w)'
  <2>1. CASE worker[w].step \in {"full", "units", "accounts", "again", "done"}
    <3>1. call.op \in {"attach", "detach"} /\ (call.op = "detach" => call.policy # Full)
      BY <1>1, <2>1 DEF Planned, Aligns, Configured
    <3>2. ASSUME NEW t \in Stripped(w) \cup Accounts
          PROVE  /\ Full \in attached[t] => Full \in attached'[t]
                 /\ call.op = "attach" /\ call.policy = Full /\ call.target = t => Full \in attached'[t]
      <4>1. t \in Targets
        BY <3>2, Units
      <4> QED BY <1>2, <3>1, <4>1
    <3> QED BY <1>1, <1>4, <2>1, <3>2 DEF Achieved, HasFull
  <2>2. CASE worker[w].step \notin {"full", "units", "accounts", "again", "done"}
    BY <1>1, <2>2 DEF HasFull
  <2> QED BY <2>1, <2>2
<1>9. TargetsAligned(w)'
  <2>1. CASE worker[w].step \in {"units", "accounts", "again"}
    <3>1. /\ call.op = "detach" => call.policy \notin Configured(c, call.target)
          /\ call.op = "attach" => call.policy \in Scps(c, call.target)
          /\ call.op \in {"attach", "detach"}
      BY <1>1, <2>1 DEF Planned, Aligns
    <3>2. Scps(c, call.target) \subseteq Configured(c, call.target)
      BY DEF Configured
    <3>3. ASSUME NEW targets \in {TopOus, Accounts}, NearlyAligned(w, targets)
          PROVE  NearlyAligned(w, targets)'
      <4>1. ASSUME NEW t \in Aligning(c, targets) \ worker[w].todo,
                   NEW p \in attached'[t] \ Configured(c, t)
            PROVE  About(worker'[w].calls, "detach", p, t)
        <5>1. t \in Targets
          BY Units DEF Aligning
        <5>2. p \in attached[t] /\ ~ (call.op = "detach" /\ call.policy = p /\ call.target = t)
          BY <1>2, <3>1, <3>2, <4>1, <5>1
        <5> QED BY <1>4, <3>3, <4>1, <5>2 DEF NearlyAligned
      <4>2. ASSUME NEW t \in Aligning(c, targets) \ worker[w].todo,
                   NEW p \in Scps(c, t) \ attached'[t]
            PROVE  About(worker'[w].calls, "attach", p, t)
        <5>1. t \in Targets /\ p \in Configured(c, t)
          BY Units DEF Aligning, Configured
        <5>2. p \notin attached[t] /\ ~ (call.op = "attach" /\ call.policy = p /\ call.target = t)
          BY <1>2, <3>1, <4>2, <5>1
        <5> QED BY <1>4, <3>3, <4>2, <5>2 DEF NearlyAligned
      <4> QED BY <1>1, <4>1, <4>2 DEF NearlyAligned
    <3>4. ASSUME NEW targets \in {TopOus, Accounts}, FullyAligned(w, targets)
          PROVE  FullyAligned(w, targets)'
      <4>1. ASSUME NEW t \in Aligning(c, targets)
            PROVE  attached'[t] = Configured(c, t)
        <5>1. t \in Targets /\ attached[t] = Configured(c, t)
          BY <3>4, Units DEF Aligning, FullyAligned
        <5> QED BY <1>2, <3>1, <3>2, <5>1
      <4> QED BY <1>1, <4>1 DEF FullyAligned
    <3> QED BY <1>1, <2>1, <3>3, <3>4 DEF Achieved, TargetsAligned
  <2>2. CASE worker[w].step \notin {"units", "accounts", "again", "done"}
    BY <1>1, <2>2 DEF TargetsAligned
  <2>3. worker[w].step # "done"
    BY <1>1 DEF Planned
  <2> QED BY <2>1, <2>2, <2>3
<1> QED BY <1>6, <1>7, <1>8, <1>9 DEF Achieved

LEMMA PassStep == TypeOK /\ TodoInv /\ CallsInv /\ PassInv /\ [Next]_vars => PassInv'
<1> SUFFICES ASSUME TypeOK, TodoInv, CallsInv, PassInv, [Next]_vars,
                    NEW v \in Workers, worker'[v].undisturbed
             PROVE  Achieved(v)'
  BY DEF PassInv
<1>1. ASSUME worker'[v] = worker[v], UNCHANGED organization
      PROVE  Achieved(v)'
  BY <1>1, PassKept DEF PassInv, organization
<1>2. CASE StartExecution
  <2>1. /\ worker' = [worker EXCEPT ![Execution] = Begun(Execution, NoEvent)]
        /\ UNCHANGED organization
    BY <1>2 DEF StartExecution
  <2>2. CASE v = Execution
    BY <2>1, <2>2, BegunEffect, RestingTyped, PassBegins
  <2>3. CASE v # Execution
    BY <1>1, <2>1, <2>3 DEF TypeOK
  <2> QED BY <2>2, <2>3
<1>3. ASSUME NEW w \in Workers, NEW x \in worker[w].todo, TakeJob(w, x) PROVE Achieved(v)'
  <2>1. /\ w # v => worker'[v] = worker[v]
        /\ w = v => worker[v].undisturbed
        /\ UNCHANGED organization
    BY <1>3, TakeJobEffect DEF TakeJob
  <2> QED BY <1>1, <1>3, <2>1, TakeJobAchieves DEF PassInv
<1>4. ASSUME NEW w \in Workers, NextStep(w) PROVE Achieved(v)'
  <2>1. /\ w # v => worker'[v] = worker[v]
        /\ w = v => worker[v].undisturbed
        /\ UNCHANGED organization
    BY <1>4, NextStepEffect DEF NextStep
  <2> QED BY <1>1, <1>4, <2>1, NextStepAchieves DEF PassInv
<1>5. ASSUME NEW w \in Workers, NEW call \in worker[w].calls, MakeCall(w, call) PROVE Achieved(v)'
  <2>1. w = v /\ worker[v].undisturbed
    BY <1>5, MakeCallEffect
  <2> QED BY <1>5, <2>1, MakeCallAchieves DEF PassInv
<1>6. ASSUME NEW w \in Workers, Succeeds(w) \/ Fails(w) PROVE Achieved(v)'
  <2>1. worker' = [worker EXCEPT ![w] = Resting] /\ UNCHANGED organization
    BY <1>6 DEF Succeeds, Fails
  <2>2. v # w /\ worker'[v] = worker[v]
    BY <2>1, RestingEffect
  <2> QED BY <1>1, <2>1, <2>2
<1>7. ASSUME NEW e \in events, HandlerStarts(e) PROVE Achieved(v)'
  <2>1. UNCHANGED organization /\ e \in Events
    BY <1>7 DEF HandlerStarts, TypeOK
  <2>2. CASE worker'[v] = worker[v]
    BY <1>1, <2>1, <2>2
  <2>3. CASE v = Lambda /\ worker' = [worker EXCEPT ![Lambda] = Begun(Lambda, e)]
    BY <2>1, <2>3, BegunEffect, PassBegins
  <2> QED BY <1>7, <2>2, <2>3 DEF HandlerStarts, TypeOK
<1>8. ASSUME NEW h \in acting, HandlerCalls(h) PROVE Achieved(v)'
  BY <1>8, HandlerCallsEffect
<1>9. ASSUME NEW call \in Calls, UserCalls(call) PROVE Achieved(v)'
  BY <1>9, UserCallsEffect
<1>10. CASE worker' = worker /\ UNCHANGED organization
  BY <1>1, <1>10
<1> QED
  BY <1>2, <1>3, <1>4, <1>5, <1>6, <1>7, <1>8, <1>9, <1>10, UserChangesAre
  DEF Next, WorkerStep, HandlerStep, HandlerFinds, HandlerMisses, HandlerFails, UserCommits, vars

-----------------------------------------------------------------------------
(* The theorems *)

LEMMA InvInit == Init => IInv
<1> SUFFICES ASSUME Init PROVE IInv
  OBVIOUS
<1>1. \A w \in Workers : worker[w] = Resting
  BY DEF Init
<1>2. TodoInv /\ CallsInv /\ PassInv
  BY <1>1 DEF TodoInv, CallsInv, PassInv, Resting
<1>3. ActingInv /\ EditsInv
  BY <1>1 DEF Init, ActingInv, EditsInv, Resting
<1>4. ChangesInv
  <2>1. ASSUME NEW t \in Managed
        PROVE  /\ attached[t] = Configured(InitialConfig, t)
               /\ attached[t] \subseteq Tolerated(InitialConfig, t)
    BY Units, Configurations, PolicyAssumption DEF Init, PolicyAssumption
  <2> QED BY <2>1 DEF ChangesInv, Deviations, Missing, Excess
<1> QED BY <1>2, <1>3, <1>4, TypeInit DEF IInv

LEMMA InvStep == IInv /\ [Next]_vars => IInv'
BY TypeStep, PlanStep, ActingStep, ChangesStep, EditsStep, PassStep DEF IInv

THEOREM Invariance == Spec => []IInv
BY InvInit, InvStep, PTL DEF Spec

\* Whatever users, executions and Lambdas do, attachments name policies that exist, and
\* events and workers have the shape the code gives them.
THEOREM TypesAreKept == Spec => []TypeOK
<1>1. IInv => TypeOK
  BY DEF IInv
<1> QED BY <1>1, Invariance, PTL

LEMMA RestIsReverted == IInv => ChangesReverted
<1> SUFFICES ASSUME IInv, Quiet, followed \subseteq {InitialConfig}
             PROVE  /\ \A t \in Controlled(InitialConfig) \ LeftAlone :
                         /\ Configured(InitialConfig, t) \subseteq attached[t]
                         /\ attached[t] \subseteq Tolerated(InitialConfig, t)
                    /\ \A p \in InitialConfig.policies :
                         p \in edited => \E e \in dropped : e.call.op = "edit" /\ e.call.policy = p
  BY DEF ChangesReverted
<1>1. Deviations /\ Known = dropped /\ InitialConfig \in Configs
  BY PolicyAssumption DEF IInv, ChangesInv, Quiet, Known, PolicyAssumption
<1>2. ASSUME NEW t \in Controlled(InitialConfig) \ LeftAlone
      PROVE  /\ Configured(InitialConfig, t) \subseteq attached[t]
             /\ attached[t] \subseteq Tolerated(InitialConfig, t)
  <2>0. t \in Managed
    BY <1>2 DEF Controlled
  <2>1. \A op, p : ~ Told(op, p, t)
    BY <1>1 DEF Told, Tells, LeftAlone
  <2>2. attached[t] \subseteq Policies /\ Configured(InitialConfig, t) \subseteq Policies
    BY <1>1, <2>0, Units, Configurations DEF IInv, TypeOK, Configured
  <2> QED BY <1>1, <2>0, <2>1, <2>2 DEF Deviations, Missing, Excess
<1>3. ASSUME NEW p \in InitialConfig.policies, p \in edited
      PROVE  \E e \in dropped : e.call.op = "edit" /\ e.call.policy = p
  <2>1. ~ Rewriting(p)
    BY Units DEF Quiet, Rewriting
  <2> QED BY <1>3, <2>1 DEF IInv, EditsInv, EditTold, Quiet
<1> QED BY <1>2, <1>3

\* Once everything heard is handled, units and accounts with the key scps have their policies
\* and no others but their unit's, and these their content, unless an event about them was
\* given up or a commit changed the configuration: what is missing, superfluous or edited is
\* always told by an event that is in hand or was given up.
THEOREM ChangesAreReverted == Spec => []ChangesReverted
BY Invariance, RestIsReverted, PTL

LEMMA PassAligns == IInv => ApplyConverges
<1> SUFFICES ASSUME IInv, NEW w \in Workers, worker[w].step = "done", worker[w].undisturbed
             PROVE  Aligned(w)
  BY DEF ApplyConverges
<1>1. Achieved(w)
  BY DEF IInv, PassInv
<1>2. ASSUME NEW t \in Controlled(worker[w].config),
             Cardinality(Scps(worker[w].config, t)) < Limit
      PROVE  attached[t] = Configured(worker[w].config, t)
  <2>1. t \in Aligning(worker[w].config, TopOus) \/ t \in Aligning(worker[w].config, Accounts)
    BY <1>2 DEF Controlled, Managed, Aligning
  <2> QED BY <1>1, <2>1 DEF Achieved, TargetsAligned, FullyAligned
<1> QED BY <1>1, <1>2 DEF Aligned, Achieved, Created, StrippedOfForeign, HasFull, Steps

\* A pass of an execution or of the Lambda that nobody disturbs and that comes to its end
\* leaves exactly what its configuration says, whatever it found.
THEOREM PassesConverge == Spec => []ApplyConverges
BY Invariance, PassAligns, PTL

=============================================================================
