------------------------------- MODULE AlbTargets -------------------------------
(***************************************************************************)
(* Forwarding from a load balancer to the addresses of another one.        *)
(*                                                                         *)
(* Users keep records in a DynamoDB table: what to match on a listener and *)
(* which DNS name to forward to.  Two Lambdas work on it.  The record      *)
(* handler (alb-target-record-monitor) follows the table's stream and      *)
(* creates, changes and deletes a target group and a listener rule per     *)
(* record; it writes their ARNs back into the record.  The monitor         *)
(* (alb-ip-monitor) scans the table every minute, resolves each name,      *)
(* registers and deregisters addresses and writes the record back.         *)
(*                                                                         *)
(* All three write whole records without looking at what they replace, and *)
(* a batch of the stream that fails is not tried again.  There is one      *)
(* listener, and one shard in the stream.                                  *)
(***************************************************************************)
EXTENDS Integers, FiniteSets, Sequences

CONSTANTS
    Ids,
    Specs,       \* what a record may ask for: the target (VPC, port and protocol) of its group,
                 \* the condition (paths and hosts) and the priority of its rule
    Addresses,   \* sets of addresses a name may resolve to
    FirstDns,    \* what each name resolves to at first
    MaxChanges,  \* bound on changes by users
    MaxUpsets,   \* bound on addresses that move, look-ups and deletions that fail, and functions
                 \* that run out of time
    MaxArns      \* bound on the target groups and rules created

ASSUME AlbAssumption ==
    /\ {} \notin Addresses /\ FirstDns \in [Ids -> Addresses]
    /\ Specs \subseteq [target : {s.target : s \in Specs}, condition : {s.condition : s \in Specs},
                       priority : Nat \ {0}]
    /\ {MaxChanges, MaxUpsets, MaxArns} \subseteq Nat

VARIABLES
    table,    \* the record of each id, or None
    stream,   \* changes of records the handler has not seen
    groups,   \* target groups in AWS; the name of a group is the id
    rules,    \* rules of the listener in AWS
    dns,      \* the addresses each name resolves to
    hpc,      \* where the handler is
    batch,    \* changes the handler has taken and not finished
    made,     \* ARNs of the group and the rule it has just created
    mpc,      \* where the monitor is
    scanned,  \* records the monitor read and has not finished
    item,     \* the one at hand, as it was read and as it will be written
    arns,     \* ARNs given out so far
    changes, upsets, \* counters
    spoiled   \* history: ids whose record was overwritten unread, whose work was dropped, or
              \* a deletion for which failed

aws == <<groups, rules, arns>>
handlerVars == <<hpc, batch, made>>
monitorVars == <<mpc, scanned, item>>
counters == <<changes, upsets>>
vars == <<table, stream, aws, dns, handlerVars, monitorVars, counters, spoiled>>

Meta == [group : Nat, rule : Nat, ips : SUBSET UNION Addresses]
NoMeta == [group |-> 0, rule |-> 0, ips |-> {}]

Record(spec, meta) == [spec |-> spec, meta |-> meta]

\* An id without a record.
None == Record([target |-> "none", condition |-> "none", priority |-> 0], NoMeta)

NoItem == [id |-> "none", read |-> None, meta |-> NoMeta, drop |-> {}]

Init ==
    /\ table = [i \in Ids |-> None] /\ stream = <<>>
    /\ groups = {} /\ rules = {} /\ arns = 0
    /\ dns = FirstDns
    /\ hpc = "idle" /\ batch = <<>> /\ made = NoMeta
    /\ mpc = "idle" /\ scanned = {} /\ item = NoItem
    /\ changes = 0 /\ upsets = 0
    /\ spoiled = {}

-----------------------------------------------------------------------------
(* The table and its stream *)

\* A write that changes nothing is not in the stream.
Write(i, record) ==
    /\ table' = [table EXCEPT ![i] = record]
    /\ stream' = IF record = table[i] THEN stream
                 ELSE Append(stream, [id |-> i, old |-> table[i], new |-> record])

\* Users edit what they entered and leave the ARNs alone.
UserInserts(i, spec) ==
    /\ table[i] = None /\ changes < MaxChanges
    /\ Write(i, Record(spec, NoMeta))
    /\ changes' = changes + 1
    /\ UNCHANGED <<aws, dns, handlerVars, monitorVars, upsets, spoiled>>

UserEdits(i, spec) ==
    /\ table[i] # None /\ changes < MaxChanges
    /\ table[i].spec # spec
    /\ Write(i, Record(spec, table[i].meta))
    /\ changes' = changes + 1
    /\ UNCHANGED <<aws, dns, handlerVars, monitorVars, upsets, spoiled>>

UserDeletes(i) ==
    /\ table[i] # None /\ changes < MaxChanges
    /\ Write(i, None)
    /\ changes' = changes + 1
    /\ UNCHANGED <<aws, dns, handlerVars, monitorVars, upsets, spoiled>>

AddressesMove(i, ips) ==
    /\ upsets < MaxUpsets /\ ips # dns[i]
    /\ dns' = [dns EXCEPT ![i] = ips]
    /\ upsets' = upsets + 1
    /\ UNCHANGED <<table, stream, aws, handlerVars, monitorVars, changes, spoiled>>

-----------------------------------------------------------------------------
(* The record handler *)

New == Head(batch).new
Old == Head(batch).old

GroupWith(arn) == {g \in groups : g.arn = arn}
RuleWith(arn) == {r \in rules : r.arn = arn}

\* isValidPriority
Valid(priority) == \A r \in rules : r.priority # priority

\* Mutant: the target group's parameters are not among what is compared.
CallForRuleChanges(e) ==
    IF e.old = None THEN "create"
    ELSE IF e.new = None THEN "deleteRule"
    ELSE IF [e.new.spec EXCEPT !.target = e.old.spec.target] = e.old.spec THEN "nothing"
    ELSE IF e.old.meta = NoMeta THEN "create"
    ELSE "modify"

\* The first call for an event: INSERT, REMOVE, and MODIFY by what differs.
Call(e) ==
    IF e.old = None THEN "create"
    ELSE IF e.new = None THEN "deleteRule"
    ELSE IF e.new.spec = e.old.spec THEN "nothing"
    ELSE IF e.old.meta = NoMeta THEN "create"
    ELSE "modify"

\* Mutant: the loop ends before the last event.
GotoUnlessLast(events) ==
    /\ batch' = events
    /\ hpc' = IF Len(events) <= 1 THEN "idle" ELSE Call(Head(events))
    /\ made' = NoMeta

Goto(events) ==
    /\ batch' = events
    /\ hpc' = IF events = <<>> THEN "idle" ELSE Call(Head(events))
    /\ made' = NoMeta

TakeBatch(n) ==
    /\ hpc = "idle" /\ n \in 1..Len(stream)
    /\ Goto(SubSeq(stream, 1, n))
    /\ stream' = SubSeq(stream, n + 1, Len(stream))
    /\ UNCHANGED <<table, aws, dns, monitorVars, counters, spoiled>>

EventDone == Goto(Tail(batch))

\* An error thrown ends the invocation; the rest of the batch is dropped with it.
Throw ==
    /\ spoiled' = spoiled \cup {batch[k].id : k \in DOMAIN batch}
    /\ Goto(<<>>)
    /\ UNCHANGED <<table, stream, aws>>

NothingChanged ==
    /\ hpc = "nothing"
    /\ EventDone
    /\ UNCHANGED <<table, stream, aws, dns, monitorVars, counters, spoiled>>

\* modifyRule; paths, hosts or the priority changed.
ModifyRule ==
    /\ hpc = "modify"
    /\ IF New.spec.condition = Old.spec.condition /\ New.spec.priority = Old.spec.priority
       THEN /\ hpc' = "priority"
            /\ UNCHANGED <<table, stream, aws, batch, made, spoiled>>
       ELSE IF RuleWith(New.meta.rule) # {} /\ GroupWith(New.meta.group) # {}
       THEN /\ rules' = (rules \ RuleWith(New.meta.rule)) \cup
                 {[arn |-> r.arn, condition |-> New.spec.condition, priority |-> r.priority,
                   group |-> New.meta.group] : r \in RuleWith(New.meta.rule)}
            /\ hpc' = "priority"
            /\ UNCHANGED <<table, stream, groups, arns, batch, made, spoiled>>
       ELSE Throw
    /\ UNCHANGED <<dns, monitorVars, counters>>

\* setRulePriorities, then a new target group if its parameters changed.
SetPriority ==
    /\ hpc = "priority"
    /\ LET same == New.spec.priority = Old.spec.priority
           done == New.spec.target = Old.spec.target
       IN IF same \/ (Valid(New.spec.priority) /\ RuleWith(New.meta.rule) # {})
          THEN /\ rules' = IF same THEN rules
                           ELSE (rules \ RuleWith(New.meta.rule)) \cup
                                {[r EXCEPT !.priority = New.spec.priority] :
                                   r \in RuleWith(New.meta.rule)}
               /\ IF done THEN EventDone ELSE hpc' = "deleteRule" /\ UNCHANGED <<batch, made>>
               /\ UNCHANGED <<table, stream, groups, arns, spoiled>>
          ELSE Throw
    /\ UNCHANGED <<dns, monitorVars, counters>>

Gone == IF New = None THEN Old.meta ELSE New.meta

\* Any error of deleteRule and deleteTargetGroup is caught, and the event goes on.
DeletionFails ==
    /\ upsets < MaxUpsets
    /\ upsets' = upsets + 1
    /\ spoiled' = spoiled \cup {Head(batch).id}
    /\ UNCHANGED <<groups, rules>>

DeleteRule ==
    /\ hpc = "deleteRule"
    /\ \/ /\ rules' = rules \ RuleWith(Gone.rule)
          /\ UNCHANGED <<groups, upsets, spoiled>>
       \/ DeletionFails
    /\ hpc' = "deleteGroup"
    /\ UNCHANGED <<table, stream, arns, dns, batch, made, monitorVars, changes>>

\* AWS deletes no group that a rule forwards to.
DeleteGroup ==
    /\ hpc = "deleteGroup"
    /\ \/ /\ groups' = {g \in groups : g.arn = Gone.group => \E r \in rules : r.group = g.arn}
          /\ UNCHANGED <<rules, upsets, spoiled>>
       \/ DeletionFails
    /\ IF New = None THEN EventDone ELSE hpc' = "create" /\ UNCHANGED <<batch, made>>
    /\ UNCHANGED <<table, stream, arns, dns, monitorVars, changes>>

\* createTargetGroup returns the group of that name if it has the same parameters, and
\* fails if it has others.
CreateGroup ==
    /\ hpc = "create" /\ arns + 2 <= MaxArns
    /\ LET same == {g \in groups : g.id = Head(batch).id}
       IN IF Valid(New.spec.priority) /\ \A g \in same : g.target = New.spec.target
          THEN /\ IF same = {}
                  THEN /\ groups' = groups \cup {[arn |-> arns + 1, id |-> Head(batch).id,
                                                  target |-> New.spec.target, ips |-> {}]}
                       /\ arns' = arns + 1
                       /\ made' = [NoMeta EXCEPT !.group = arns + 1]
                  ELSE /\ made' \in {[NoMeta EXCEPT !.group = g.arn] : g \in same}
                       /\ UNCHANGED <<groups, arns>>
               /\ hpc' = "createRule"
               /\ UNCHANGED <<table, stream, rules, batch, spoiled>>
          ELSE Throw
    /\ UNCHANGED <<dns, monitorVars, counters>>

CreateRule ==
    /\ hpc = "createRule"
    /\ rules' = rules \cup {[arn |-> arns + 1, condition |-> New.spec.condition,
                             priority |-> New.spec.priority, group |-> made.group]}
    /\ arns' = arns + 1
    /\ made' = [made EXCEPT !.rule = arns + 1]
    /\ hpc' = "put"
    /\ UNCHANGED <<table, stream, groups, dns, batch, monitorVars, counters, spoiled>>

\* The record of the event is written with the ARNs, whatever stands there by now.
PutMetadata ==
    /\ hpc = "put"
    /\ Write(Head(batch).id, Record(New.spec, made))
    /\ spoiled' = IF table[Head(batch).id] = New THEN spoiled ELSE spoiled \cup {Head(batch).id}
    /\ EventDone
    /\ UNCHANGED <<aws, dns, monitorVars, counters>>

HandlerTimesOut ==
    /\ hpc # "idle" /\ upsets < MaxUpsets
    /\ Throw
    /\ upsets' = upsets + 1
    /\ UNCHANGED <<dns, monitorVars, changes>>

-----------------------------------------------------------------------------
(* The monitor *)

NextRecord(records) ==
    /\ scanned' = records
    /\ mpc' = IF records = {} THEN "idle" ELSE "next"
    /\ item' = NoItem

Scan ==
    /\ mpc = "idle"
    /\ NextRecord({[id |-> i, record |-> table[i]] : i \in {i \in Ids : table[i] # None}})
    /\ UNCHANGED <<table, stream, aws, dns, handlerVars, counters, spoiled>>

\* Mutant: new addresses are looked for, old ones are not.
LookedUpKeeping(s, ips) ==
    [id |-> s.id, read |-> s.record, drop |-> {},
     meta |-> [s.record.meta EXCEPT !.ips = @ \cup ips]]

\* What the record will be written with, and the addresses it loses.
LookedUp(s, ips) ==
    [id |-> s.id, read |-> s.record, drop |-> s.record.meta.ips \ ips,
     meta |-> [s.record.meta EXCEPT !.ips = ips]]

\* A name that is not resolved has no addresses.  A record without ARNs is left alone
\* unless there is nothing to register.
Lookup(s, ips) ==
    /\ mpc = "next" /\ s \in scanned
    /\ IF s.record.meta = NoMeta /\ ips # {}
       THEN NextRecord(scanned \ {s})
       ELSE mpc' = "register" /\ item' = LookedUp(s, ips) /\ scanned' = scanned \ {s}
    /\ UNCHANGED <<table, stream, aws, dns, handlerVars, changes, spoiled>>

Resolve(s) == Lookup(s, dns[s.id]) /\ UNCHANGED upsets

ResolveFails(s) == upsets < MaxUpsets /\ Lookup(s, {}) /\ upsets' = upsets + 1

ItemDone == NextRecord(scanned)

\* registerTargets and deregisterTargets in this order; an error gives up the record.
Register ==
    /\ mpc = "register"
    /\ LET add == item.meta.ips \ item.read.meta.ips
       IN IF add = {} THEN mpc' = "deregister" /\ UNCHANGED <<groups, item, scanned>>
          ELSE IF GroupWith(item.meta.group) = {} THEN ItemDone /\ UNCHANGED groups
          ELSE /\ groups' = {IF g.arn = item.meta.group THEN [g EXCEPT !.ips = @ \cup add]
                             ELSE g : g \in groups}
               /\ mpc' = "deregister" /\ UNCHANGED <<item, scanned>>
    /\ UNCHANGED <<table, stream, rules, arns, dns, handlerVars, counters, spoiled>>

Deregister ==
    /\ mpc = "deregister"
    /\ IF item.drop = {} THEN mpc' = "put" /\ UNCHANGED <<groups, item, scanned>>
       ELSE IF GroupWith(item.meta.group) = {} THEN ItemDone /\ UNCHANGED groups
       ELSE /\ groups' = {IF g.arn = item.meta.group THEN [g EXCEPT !.ips = @ \ item.drop]
                          ELSE g : g \in groups}
            /\ mpc' = "put" /\ UNCHANGED <<item, scanned>>
    /\ UNCHANGED <<table, stream, rules, arns, dns, handlerVars, counters, spoiled>>

\* The record that was scanned is written back, whatever stands there by now.
PutRecord ==
    /\ mpc = "put"
    /\ Write(item.id, Record(item.read.spec, item.meta))
    /\ spoiled' = IF table[item.id] = item.read THEN spoiled ELSE spoiled \cup {item.id}
    /\ ItemDone
    /\ UNCHANGED <<aws, dns, handlerVars, counters>>

MonitorTimesOut ==
    /\ mpc # "idle" /\ upsets < MaxUpsets
    /\ NextRecord({})
    /\ upsets' = upsets + 1
    /\ spoiled' = IF mpc \in {"deregister", "put"} THEN spoiled \cup {item.id} ELSE spoiled
    /\ UNCHANGED <<table, stream, aws, dns, handlerVars, changes>>

-----------------------------------------------------------------------------
User ==
    \/ \E i \in Ids : UserDeletes(i)
    \/ \E i \in Ids, s \in Specs : UserInserts(i, s) \/ UserEdits(i, s)
    \/ \E i \in Ids, ips \in Addresses : AddressesMove(i, ips)

Handler ==
    \/ \E n \in 1..Len(stream) : TakeBatch(n)
    \/ NothingChanged \/ ModifyRule \/ SetPriority \/ DeleteRule \/ DeleteGroup
    \/ CreateGroup \/ CreateRule \/ PutMetadata

Monitor ==
    \/ Scan \/ Register \/ Deregister \/ PutRecord
    \/ \E s \in scanned : Resolve(s)

Next ==
    \/ User \/ Handler \/ Monitor
    \/ HandlerTimesOut \/ MonitorTimesOut
    \/ \E s \in scanned : ResolveFails(s)

Spec == Init /\ [][Next]_vars

\* AWS delivers the stream, and starts the monitor every minute; neither stops between
\* two calls without an end.
FairSpec == Spec /\ WF_vars(Handler) /\ WF_vars(Monitor)

-----------------------------------------------------------------------------
(* Properties *)

Records == [spec : Specs, meta : Meta]

\* The table, AWS and the locals of both functions have the shape the code gives them.
TypeOK ==
    /\ table \in [Ids -> Records \cup {None}] /\ dns \in [Ids -> Addresses]
    /\ \A k \in DOMAIN stream : stream[k].id \in Ids /\ stream[k].old # stream[k].new
    /\ \A k \in DOMAIN batch : batch[k].id \in Ids /\ batch[k].old # batch[k].new
    /\ \A g \in groups : g.arn \in 1..arns /\ g.id \in Ids /\ g.target \in {s.target : s \in Specs}
    /\ \A r \in rules : r.arn \in 1..arns /\ r.group \in 1..arns
    /\ made \in Meta /\ item.meta \in Meta
    /\ (hpc = "idle") = (batch = <<>>)
    /\ spoiled \subseteq Ids

Served(i) ==
    LET meta == table[i].meta
        spec == table[i].spec
    IN /\ {g \in groups : g.id = i} =
            {[arn |-> meta.group, id |-> i, target |-> spec.target, ips |-> meta.ips]}
       /\ {r \in rules : r.group = meta.group} =
            {[arn |-> meta.rule, condition |-> spec.condition, priority |-> spec.priority,
              group |-> meta.group]}

\* When both functions rest, AWS has one target group and one rule for each record,
\* as the record says, and none for an id without a record.  Exempt are ids for which a
\* record was written over one its writer had not read, ids whose events were dropped
\* with a batch, and ids whose rule or group could not be deleted.
InStep ==
    (hpc = "idle" /\ stream = <<>> /\ mpc = "idle") =>
        \A i \in Ids \ spoiled :
            IF table[i] # None THEN Served(i) ELSE \A g \in groups : g.id # i

\* Once users and addresses rest, what is forwarded to is what the names resolve to,
\* again except for those ids.
TargetsFollow ==
    <>[](\A g \in groups : g.id \in spoiled \/ g.ips = dns[g.id])

\* "ensuring any managed flows do not go offline": a group with targets does not lose all
\* of them while its name has addresses.
FlowsStayOnline ==
    [][\A g \in groups, h \in groups' :
         (g.arn = h.arn /\ g.ips # {}) => h.ips # {}]_vars

=============================================================================
