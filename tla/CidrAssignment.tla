---------------------------- MODULE CidrAssignment ----------------------------
(***************************************************************************)
(* Address ranges for VPCs and subnets.                                    *)
(*                                                                         *)
(* The second step of an execution, getBaseline, gives every VPC of the    *)
(* configuration its ranges before the configuration is even compared with *)
(* the last one.  A dynamic VPC gets the next free range of each pool it   *)
(* names; a lookup VPC of an organizational unit gets a copy of what users *)
(* entered for the unit.  Ranges are kept in two DynamoDB tables, written  *)
(* item by item; an execution may end between any two of these writes and  *)
(* the next one goes on from what it finds.  A later step compares the     *)
(* outputs of earlier deployments with the tables and rejects an execution *)
(* that would move a deployed VPC.  It has the outputs that earlier        *)
(* executions came to store, and compares nothing before a first commit is *)
(* stored or if the operator overrides it.                                 *)
(*                                                                         *)
(* A range is its first address and its size.  One execution works at a    *)
(* time (see Executions); users enter ranges between executions only.      *)
(***************************************************************************)
EXTENDS Integers, FiniteSets, Sequences

CONSTANTS
    Vpcs,        \* VPCs of accounts
    Units,       \* VPCs as entered for an organizational unit
    Pools,
    PoolOrder,   \* the pools in the order of the configuration
    PoolRange,   \* the range of each pool
    Sizes,       \* the sizes a range may have
    Subnets,     \* names of subnets, with their zone
    Site,        \* region and name of each VPC; VPCs of several accounts share one
    Unit,        \* the unit of a lookup VPC, or NoUnit for a dynamic one
    NoUnit,
    VpcCidrs,    \* the pools and sizes each dynamic VPC asks for, in order
    VpcSubnets,  \* the names, pools and sizes of each VPC's subnets, in order
    Entered,     \* what users enter for a unit: VPC ranges ...
    EnteredSubnets, \* ... and subnet ranges
    MaxRuns      \* bound on executions

Keys == Vpcs \cup Units

Aligned(b) == \E k \in 0..b.first : b.first = k * b.size

\* What CIDR notation can write down.
Ranges == {b \in [first : Nat, size : Sizes] : Aligned(b)}

NoRange == [first |-> 0, size |-> 0]

VpcItems == [key : Keys, pool : Pools, range : Ranges, order : Nat]
SubnetItems == [key : Keys, subnet : Subnets, range : Ranges]

\* Any smaller size divides a larger one: sizes are powers of two.
ASSUME CidrAssumption ==
    /\ Sizes \subseteq Nat \ {0}
    /\ \A s, t \in Sizes : s <= t => \E k \in 1..t : t = k * s
    /\ PoolRange \in [Pools -> Ranges]
    /\ PoolOrder \in Seq(Pools) /\ {PoolOrder[i] : i \in DOMAIN PoolOrder} = Pools
    /\ NoUnit \notin Keys /\ Vpcs \cap Units = {}
    /\ Unit \in [Vpcs -> Units \cup {NoUnit}]
    /\ VpcCidrs \in [Vpcs -> Seq([pool : Pools, size : Sizes])]
    /\ VpcSubnets \in [Vpcs -> Seq([subnet : Subnets, pool : Pools, size : Sizes])]
    /\ Entered \in [Units -> SUBSET VpcItems]
    /\ EnteredSubnets \in [Units -> SUBSET SubnetItems]
    /\ \A u \in Units : /\ \A e \in Entered[u] : e.key = u
                        /\ \A e \in EnteredSubnets[u] : e.key = u
    /\ MaxRuns \in Nat

\* A VPC has one range of a pool, and one range for each of its subnets.
ASSUME OncePerVpc ==
    \A v \in Vpcs :
        /\ \A i, j \in DOMAIN VpcCidrs[v] :
             VpcCidrs[v][i].pool = VpcCidrs[v][j].pool => i = j
        /\ \A i, j \in DOMAIN VpcSubnets[v] :
             VpcSubnets[v][i].subnet = VpcSubnets[v][j].subnet => i = j

VARIABLES
    pools,       \* the pools in the cidr-pools table
    vpcTable,    \* items of the table of VPC ranges
    subnetTable, \* items of the table of subnet ranges
    recorded,    \* items that carry the ids of what was deployed with them
    deployed,    \* the ranges each VPC was deployed with
    outputs,     \* the same as the outputs table has it
    stored,      \* whether a commit was stored as deployed
    pc,          \* where the execution is
    override,    \* its input has overrideComparison or ov-cidr
    built,       \* the VPCs it has deployed and not yet stored the outputs of
    plan,        \* the VPCs of its configuration in their order
    todo,        \* those the current step has yet to do
    known,       \* the items read before the VPC at hand
    knownSubnets, \* the subnet items read at the beginning
    j,           \* the CIDR or subnet of the VPC at hand
    cidr,        \* the ranges of the VPC at hand by pool
    used,        \* ranges the search must avoid
    candidate,   \* the range the search looks at
    left,        \* items of the unit that are yet to be copied
    runs,        \* executions started so far
    rejected,    \* history: deployed VPCs for which a comparison failed
    torn,        \* history: VPCs whose copying was cut short
    removed,     \* history: VPCs whose items a user removed
    seen         \* history: the outputs as the comparison read them

tables == <<pools, vpcTable, subnetTable>>
job == <<plan, todo, known, knownSubnets, j, cidr, used, candidate, left>>
history == <<runs, rejected, torn, removed>>
mode == <<outputs, stored, override, built, seen>>
vars == <<tables, recorded, deployed, mode, pc, job, history>>

Steps == {"idle", "pools", "next", "cidr", "search", "subnet", "searchSubnet",
          "copy", "copySubnet", "compare", "deploy", "store", "record", "done"}

NotDeployed == [first |-> {}, more |-> {}, subnets |-> {}]

-----------------------------------------------------------------------------
(* Ranges *)

First(b) == b.first
Past(b) == b.first + b.size

Contains(a, b) == First(a) <= First(b) /\ Past(b) <= Past(a)

\* Mutant: a used range inside the candidate is overlooked.
MeetsOneWay(a, b) == Contains(a, b)

\* The test of getAvailableCidr: isEquals, contains, or contained.
Meets(a, b) == Contains(a, b) \/ Contains(b, a)

Disjoint(a, b) == Past(a) <= First(b) \/ Past(b) <= First(a)

\* Mutants: the next address; a range left out.
NextAddress(b) == [b EXCEPT !.first = b.first + 1]
NextRangeButOne(b) == [b EXCEPT !.first = b.first + 2 * b.size]

NextRange(b) == [b EXCEPT !.first = b.first + b.size]

-----------------------------------------------------------------------------
(* What the code looks up in what it has read *)

Vpc == Head(todo)
ItemsOf(items, key) == {e \in items : e.key = key}
ItemsOfPool(items, pool) == {e \in items : e.pool = pool}

\* getAssigndVpcCidrs, getVpcCidrPools: those of the account, else those of the unit.
Assigned(items, v) ==
    IF ItemsOf(items, v) # {} THEN ItemsOf(items, v) ELSE ItemsOf(items, Unit[v])

\* The VPC as the deployment builds it and as the comparison expects it.
Primary(items, v) ==
    IF Unit[v] = NoUnit
    THEN {e.range : e \in ItemsOfPool(Assigned(items, v), VpcCidrs[v][1].pool)}
    ELSE {e.range : e \in {e \in Assigned(items, v) :
                             \A f \in Assigned(items, v) : e.order <= f.order}}

Built(v) ==
    [first |-> Primary(vpcTable, v),
     more |-> {e.range : e \in Assigned(vpcTable, v)} \ Primary(vpcTable, v),
     subnets |-> {<<e.subnet, e.range>> : e \in Assigned(subnetTable, v)}]

\* An installation without assigned ranges, new or with a configuration that asked for none.
Init ==
    /\ pools = {} /\ vpcTable = {} /\ subnetTable = {} /\ recorded = {}
    /\ deployed = [v \in Vpcs |-> NotDeployed]
    /\ outputs = [v \in Vpcs |-> NotDeployed]
    /\ stored \in BOOLEAN
    /\ pc = "idle" /\ override = FALSE /\ built = {} /\ seen = {}
    /\ plan = <<>> /\ todo = <<>> /\ known = {} /\ knownSubnets = {}
    /\ j = 1 /\ cidr = <<>> /\ used = {} /\ candidate = NoRange /\ left = {}
    /\ runs = 0 /\ rejected = {} /\ torn = {} /\ removed = {}

-----------------------------------------------------------------------------
(* The step begins *)

\* An execution starts with any configuration, VPCs come and go between executions,
\* and with or without an override.
StartExecution(order, overrides) ==
    /\ pc = "idle" /\ runs < MaxRuns
    /\ \A i, k \in DOMAIN order : order[i] = order[k] => i = k
    /\ plan' = order /\ todo' = order
    /\ knownSubnets' = subnetTable
    /\ pc' = IF pools = {} THEN "pools" ELSE "next"
    /\ runs' = runs + 1
    /\ override' = overrides
    /\ UNCHANGED <<tables, recorded, deployed, outputs, stored, built, seen, known, j, cidr,
                   used, candidate, left, rejected, torn, removed>>

\* The pools are loaded from the configuration one by one, if there is none.
PutPool ==
    /\ pc = "pools"
    /\ \E i \in DOMAIN PoolOrder :
         /\ PoolOrder[i] \notin pools
         /\ \A k \in 1..(i - 1) : PoolOrder[k] \in pools
         /\ pools' = pools \cup {PoolOrder[i]}
    /\ pc' = IF pools' = Pools THEN "next" ELSE "pools"
    /\ UNCHANGED <<vpcTable, subnetTable, recorded, deployed, mode, job, history>>

NextVpc ==
    /\ pc = "next" /\ todo # <<>>
    /\ known' = vpcTable
    /\ j' = 1 /\ cidr' = [p \in Pools |-> NoRange] /\ used' = {}
    /\ IF Unit[Vpc] = NoUnit
       THEN pc' = "cidr" /\ left' = {}
       ELSE /\ pc' = "copy"
            /\ Assigned(vpcTable, Vpc) # {}
            /\ left' = ItemsOf(Assigned(vpcTable, Vpc), Unit[Vpc])
    /\ UNCHANGED <<tables, recorded, deployed, mode, plan, todo, knownSubnets, candidate, history>>

VpcDone ==
    /\ todo' = Tail(todo) /\ pc' = "next"
    /\ known' = {} /\ j' = 1 /\ cidr' = <<>> /\ used' = {}
    /\ candidate' = NoRange /\ left' = {}
    /\ UNCHANGED <<plan, knownSubnets>>

-----------------------------------------------------------------------------
(* dynamicCidrs *)

Wanted == VpcCidrs[Vpc][j]
WantedSubnet == VpcSubnets[Vpc][j]

\* Mutant: what the VPC has is not looked for.
FindCidrAnew ==
    /\ pc = "cidr" /\ j <= Len(VpcCidrs[Vpc])
    /\ Wanted.pool \in pools
    /\ used' = {e.range : e \in ItemsOfPool(known, Wanted.pool)}
    /\ candidate' = [first |-> PoolRange[Wanted.pool].first, size |-> Wanted.size]
    /\ pc' = "search"
    /\ UNCHANGED <<tables, recorded, deployed, mode, plan, todo, known, knownSubnets, j, cidr, left,
                   history>>

\* The range the VPC has of the pool, or the start of the search for one: the first
\* range of that size in the pool.
FindCidr ==
    /\ pc = "cidr" /\ j <= Len(VpcCidrs[Vpc])
    /\ Wanted.pool \in pools
    /\ LET own == ItemsOfPool(ItemsOf(known, Vpc), Wanted.pool)
       IN IF own # {}
          THEN /\ \E e \in own : cidr' = [cidr EXCEPT ![Wanted.pool] = e.range]
               /\ j' = j + 1
               /\ UNCHANGED <<pc, used, candidate>>
          ELSE /\ Wanted.size <= PoolRange[Wanted.pool].size
               /\ used' = {e.range : e \in ItemsOfPool(known, Wanted.pool)}
               /\ candidate' = [first |-> PoolRange[Wanted.pool].first, size |-> Wanted.size]
               /\ pc' = "search"
               /\ UNCHANGED <<j, cidr>>
    /\ UNCHANGED <<tables, recorded, deployed, mode, plan, todo, known, knownSubnets, left,
                   history>>

\* getAvailableCidr goes to the next range as long as a used one meets it.
TryNextRange ==
    /\ pc \in {"search", "searchSubnet"}
    /\ \E b \in used : Meets(b, candidate)
    /\ candidate' = NextRange(candidate)
    /\ UNCHANGED <<tables, recorded, deployed, mode, pc, plan, todo, known, knownSubnets, j, cidr,
                   used, left, history>>

\* Refused if the pool's last address is less than the range's first.
Fits(range, whole) == First(range) < Past(whole)

AssignCidr ==
    /\ pc = "search"
    /\ \A b \in used : ~ Meets(b, candidate)
    /\ Fits(candidate, PoolRange[Wanted.pool])
    /\ vpcTable' = vpcTable \cup
         {[key |-> Vpc, pool |-> Wanted.pool, range |-> candidate, order |-> 0]}
    /\ cidr' = [cidr EXCEPT ![Wanted.pool] = candidate]
    /\ pc' = "cidr" /\ j' = j + 1 /\ used' = {} /\ candidate' = NoRange
    /\ UNCHANGED <<pools, subnetTable, recorded, deployed, mode, plan, todo, known, knownSubnets,
                   left, history>>

CidrsDone ==
    /\ pc = "cidr" /\ j > Len(VpcCidrs[Vpc])
    /\ used' = {e.range : e \in {e \in knownSubnets : Site[e.key] = Site[Vpc]}}
    /\ pc' = "subnet" /\ j' = 1
    /\ UNCHANGED <<tables, recorded, deployed, mode, plan, todo, known, knownSubnets, cidr,
                   candidate, left, history>>

\* Mutant: looked for under an attribute nobody writes.
OwnSubnetNever(v, name) == {}

OwnSubnet(v, name) == {e \in ItemsOf(knownSubnets, v) : e.subnet = name}

FindSubnet ==
    /\ pc = "subnet" /\ j <= Len(VpcSubnets[Vpc])
    /\ cidr[WantedSubnet.pool] # NoRange
    /\ IF OwnSubnet(Vpc, WantedSubnet.subnet) # {}
       THEN /\ j' = j + 1
            /\ UNCHANGED <<pc, candidate>>
       ELSE /\ WantedSubnet.size <= cidr[WantedSubnet.pool].size
            /\ candidate' = [first |-> cidr[WantedSubnet.pool].first,
                             size |-> WantedSubnet.size]
            /\ pc' = "searchSubnet"
            /\ UNCHANGED j
    /\ UNCHANGED <<tables, recorded, deployed, mode, plan, todo, known, knownSubnets, cidr, used,
                   left, history>>

\* The range joins those the next subnets must avoid.
AssignSubnet ==
    /\ pc = "searchSubnet"
    /\ \A b \in used : ~ Meets(b, candidate)
    /\ Fits(candidate, cidr[WantedSubnet.pool])
    /\ subnetTable' = subnetTable \cup
         {[key |-> Vpc, subnet |-> WantedSubnet.subnet, range |-> candidate]}
    /\ used' = used \cup {candidate}
    /\ pc' = "subnet" /\ j' = j + 1 /\ candidate' = NoRange
    /\ UNCHANGED <<pools, vpcTable, recorded, deployed, mode, plan, todo, known, knownSubnets, cidr,
                   left, history>>

SubnetsDone ==
    /\ pc \in {"subnet", "copySubnet"} /\ j > Len(VpcSubnets[Vpc])
    /\ VpcDone
    /\ UNCHANGED <<tables, recorded, deployed, mode, history>>

-----------------------------------------------------------------------------
(* lookupCidrs *)

\* Items of the unit are copied to the account in the order of the scan.
CopyItem ==
    /\ pc = "copy"
    /\ \E e \in left :
         /\ vpcTable' = vpcTable \cup {[e EXCEPT !.key = Vpc]}
         /\ left' = left \ {e}
    /\ UNCHANGED <<pools, subnetTable, recorded, deployed, mode, pc, plan, todo, known,
                   knownSubnets, j, cidr, used, candidate, history>>

\* Mutant: the first item is taken for all.
CopiesDoneEarly ==
    /\ pc = "copy" /\ Cardinality(left) <= 1
    /\ pc' = "copySubnet"
    /\ UNCHANGED <<tables, recorded, deployed, mode, job, history>>

CopiesDone ==
    /\ pc = "copy" /\ left = {}
    /\ pc' = "copySubnet"
    /\ UNCHANGED <<tables, recorded, deployed, mode, job, history>>

CopySubnet ==
    /\ pc = "copySubnet" /\ j <= Len(VpcSubnets[Vpc])
    /\ LET name == WantedSubnet.subnet
           ofUnit == OwnSubnet(Unit[Vpc], name)
       IN IF OwnSubnet(Vpc, name) # {}
          THEN UNCHANGED subnetTable
          ELSE \E e \in ofUnit : subnetTable' = subnetTable \cup {[e EXCEPT !.key = Vpc]}
    /\ j' = j + 1
    /\ UNCHANGED <<pools, vpcTable, recorded, deployed, mode, pc, plan, todo, known, knownSubnets,
                   cidr, used, candidate, left, history>>

-----------------------------------------------------------------------------
(* The rest of the execution *)

AssignmentDone ==
    /\ pc = "next" /\ todo = <<>>
    /\ pc' = "compare"
    /\ UNCHANGED <<tables, recorded, deployed, mode, job, history>>

\* validateDDBChanges: what was deployed, by its output, must be what would be built now.
Moved(was, v) ==
    /\ was # NotDeployed
    /\ \/ was.first # Primary(vpcTable, v)
       \/ ~ (was.more \subseteq Built(v).more)
       \/ ~ (was.subnets \subseteq Built(v).subnets)

PlanSet == {plan[i] : i \in DOMAIN plan}
MovedOutputs == {v \in PlanSet : Moved(outputs[v], v)}

\* The step compares ranges if there is a commit to compare with and no override.
Compares == stored /\ ~override

\* Mutant: the tables are not compared with the outputs.
CompareConfigurationsBlind ==
    /\ pc = "compare"
    /\ pc' = "deploy" /\ seen' = outputs
    /\ UNCHANGED <<tables, recorded, deployed, outputs, stored, override, built, job, history>>

CompareConfigurations ==
    /\ pc = "compare"
    /\ Compares => MovedOutputs = {}
    /\ pc' = "deploy" /\ seen' = outputs
    /\ UNCHANGED <<tables, recorded, deployed, outputs, stored, override, built, job, history>>

ComparisonRejects ==
    /\ pc = "compare"
    /\ Compares /\ MovedOutputs # {}
    /\ rejected' = rejected \cup MovedOutputs
    /\ pc' = "done"
    /\ UNCHANGED <<tables, recorded, deployed, mode, job, runs, torn, removed>>

\* A phase builds the VPCs whose accounts are in scope, ...
DeployVpc(v) ==
    /\ pc = "deploy" /\ v \in PlanSet
    /\ deployed' = [deployed EXCEPT ![v] = Built(v)]
    /\ built' = built \cup {v}
    /\ UNCHANGED <<tables, recorded, outputs, stored, override, seen, pc, job, history>>

\* ... and when it is over, a step stores, account by account, the outputs of the stacks
\* it finds, those that an earlier execution left included.  The input storeAllOutputs has
\* this done before the phases as well.
PhaseDone ==
    /\ pc = "deploy"
    /\ pc' = "store" /\ seen' = {}
    /\ UNCHANGED <<tables, recorded, deployed, outputs, stored, override, built, job, history>>

StoreOutputs(v) ==
    /\ pc = "store" \/ (pc = "deploy" /\ built = {})
    /\ deployed[v] # NotDeployed
    /\ outputs' = [outputs EXCEPT ![v] = deployed[v]]
    /\ built' = built \ {v}
    /\ UNCHANGED <<tables, recorded, deployed, stored, override, seen, pc, job, history>>

\* storeCommitId stores the commit (which one is in AccountOnboarding), then goes
\* through the VPCs again.
StoreCommitId ==
    /\ pc = "store" /\ built = {}
    /\ stored' = TRUE
    /\ pc' = "record" /\ todo' = plan
    /\ UNCHANGED <<tables, recorded, deployed, outputs, override, built, seen, plan, known,
                   knownSubnets, j, cidr, used, candidate, left, history>>

\* updateCidrs writes the ids of a VPC and of its subnets, which it has from the
\* outputs, next to their ranges.
RecordIds ==
    /\ pc = "record" /\ todo # <<>>
    /\ recorded' = IF outputs[Vpc] = NotDeployed THEN recorded
                   ELSE recorded \cup ItemsOf(vpcTable, Vpc)
                        \cup {e \in ItemsOf(subnetTable, Vpc) :
                                <<e.subnet, e.range>> \in outputs[Vpc].subnets}
    /\ todo' = Tail(todo)
    /\ UNCHANGED <<tables, deployed, mode, pc, plan, known, knownSubnets, j, cidr, used,
                   candidate, left, history>>

RecordDone ==
    /\ pc = "record" /\ todo = <<>>
    /\ pc' = "done"
    /\ UNCHANGED <<tables, recorded, deployed, mode, job, history>>

\* The end of an execution: its last step, an error (no range left, a pool or an entry
\* that is missing), a timeout or a stop between two calls.
ExecutionEnds ==
    /\ pc # "idle"
    /\ torn' = IF pc = "copy" /\ left # {} /\ ItemsOf(vpcTable, Vpc) # {}
               THEN torn \cup {Vpc} ELSE torn
    /\ pc' = "idle" /\ override' = FALSE /\ built' = {} /\ seen' = {}
    /\ plan' = <<>> /\ todo' = <<>> /\ known' = {} /\ knownSubnets' = {}
    /\ j' = 1 /\ cidr' = <<>> /\ used' = {} /\ candidate' = NoRange /\ left' = {}
    /\ UNCHANGED <<tables, recorded, deployed, outputs, stored, runs, rejected, removed>>

-----------------------------------------------------------------------------
\* A user enters the ranges of a unit, all of which are free.
UserEnters(u) ==
    /\ pc = "idle"
    /\ ItemsOf(vpcTable, u) = {}
    /\ \A e \in Entered[u], f \in vpcTable : e.pool = f.pool => Disjoint(e.range, f.range)
    /\ vpcTable' = vpcTable \cup Entered[u]
    /\ subnetTable' = subnetTable \cup EnteredSubnets[u]
    /\ UNCHANGED <<pools, recorded, deployed, mode, pc, job, history>>

\* A user frees the ranges of a VPC, which may or may not be gone.
UserRemoves(v) ==
    /\ pc = "idle" /\ removed = {}
    /\ vpcTable' = vpcTable \ ItemsOf(vpcTable, v)
    /\ subnetTable' = subnetTable \ ItemsOf(subnetTable, v)
    /\ recorded' = recorded \cap (vpcTable' \cup subnetTable')
    /\ removed' = {v}
    /\ UNCHANGED <<pools, deployed, mode, pc, job, runs, rejected, torn>>

Next ==
    \/ \E n \in 0..Cardinality(Vpcs) : \E order \in [1..n -> Vpcs], overrides \in BOOLEAN :
         StartExecution(order, overrides)
    \/ PutPool \/ NextVpc
    \/ FindCidr \/ TryNextRange \/ AssignCidr \/ CidrsDone
    \/ FindSubnet \/ AssignSubnet \/ SubnetsDone
    \/ CopyItem \/ CopiesDone \/ CopySubnet
    \/ AssignmentDone \/ CompareConfigurations \/ ComparisonRejects
    \/ \E v \in Vpcs : DeployVpc(v) \/ StoreOutputs(v) \/ UserRemoves(v)
    \/ PhaseDone \/ StoreCommitId \/ RecordIds \/ RecordDone \/ ExecutionEnds
    \/ \E u \in Units : UserEnters(u)

Spec == Init /\ [][Next]_vars

-----------------------------------------------------------------------------
(* Properties *)

\* Tables and locals have the shape the code gives them.
TypeOK ==
    /\ pools \subseteq Pools
    /\ vpcTable \subseteq VpcItems
    /\ subnetTable \subseteq SubnetItems
    /\ recorded \subseteq vpcTable \cup subnetTable
    /\ stored \in BOOLEAN /\ override \in BOOLEAN
    /\ pc \in Steps /\ built \subseteq Vpcs
    /\ plan \in Seq(Vpcs) /\ todo \in Seq(Vpcs)
    /\ known \subseteq vpcTable /\ knownSubnets \subseteq subnetTable
    /\ j \in Nat \ {0}
    /\ cidr = <<>> \/ cidr \in [Pools -> Ranges \cup {NoRange}]
    /\ candidate \in Ranges \cup {NoRange}
    /\ left \subseteq vpcTable
    /\ runs \in Nat
    /\ torn \subseteq Vpcs /\ rejected \subseteq Vpcs /\ removed \subseteq Vpcs

\* Dynamic VPCs share no address of a pool with each other or with what users entered,
\* and stay in the pool to its last address; their subnets lie in their ranges and share no
\* address; in whatever order executions, their ends and users' entries follow each other.
DynamicItem(e) == e.key \in Vpcs /\ Unit[e.key] = NoUnit

RangesDisjoint ==
    \A e, f \in vpcTable :
        (DynamicItem(e) /\ e.pool = f.pool /\ e.key # f.key) => Disjoint(e.range, f.range)

RangesInPool == \A e \in vpcTable : DynamicItem(e) => Contains(PoolRange[e.pool], e.range)

SubnetsInVpc ==
    \A s \in subnetTable :
        DynamicItem(s) =>
            /\ \E e \in ItemsOf(vpcTable, s.key) : Contains(e.range, s.range)
            /\ \A t \in ItemsOf(subnetTable, s.key) : s = t \/ Disjoint(s.range, t.range)

RangesSound == RangesDisjoint /\ RangesInPool /\ SubnetsInVpc

\* A VPC gets one range of a pool and a subnet one range, however often a step is cut
\* short and done again.
AssignedOnce ==
    /\ \A e, f \in vpcTable :
         (DynamicItem(e) /\ e.key = f.key /\ e.pool = f.pool) => e = f
    /\ \A s, t \in subnetTable :
         (s.key = t.key /\ s.subnet = t.subnet /\ s.key \in Vpcs) => s = t

\* The search returns the first range of the pool that is free: none before it is.
FirstFree(range, whole, taken) ==
    \A n \in 0..whole.size :
        LET before == [first |-> whole.first + n * range.size, size |-> range.size]
        IN before.first < range.first => \E b \in taken : ~ Disjoint(b, before)

FirstFit ==
    [][\A e \in vpcTable' \ vpcTable :
         DynamicItem(e) =>
             FirstFree(e.range, PoolRange[e.pool],
                       {f.range : f \in ItemsOfPool(vpcTable, e.pool)})]_vars

\* The assignment ends with every range its VPCs ask for, except those of VPCs whose
\* copying was cut short, and the last step with the ids of whatever outputs tell of,
\* whether or not the execution that deployed it got that far.
Complete(v) ==
    /\ IF Unit[v] = NoUnit
       THEN \A i \in DOMAIN VpcCidrs[v] :
              ItemsOfPool(ItemsOf(vpcTable, v), VpcCidrs[v][i].pool) # {}
       ELSE \A e \in ItemsOf(vpcTable, Unit[v]) : [e EXCEPT !.key = v] \in vpcTable
    /\ \A i \in DOMAIN VpcSubnets[v] :
         \E s \in ItemsOf(subnetTable, v) : s.subnet = VpcSubnets[v][i].subnet

IdsRecorded(v) ==
    outputs[v] # NotDeployed => ItemsOf(vpcTable, v) \subseteq recorded

AssignmentComplete ==
    /\ pc = "compare" => \A v \in PlanSet \ torn : Complete(v)
    /\ pc = "record" /\ todo = <<>> => \A v \in PlanSet : IdsRecorded(v)

\* The same without the exemption: a step that was cut short can be run again.
RerunCompletes == pc = "compare" => \A v \in PlanSet : Complete(v)

\* A deployed VPC makes the comparison fail only if a user freed its ranges: ends of
\* executions, other VPCs and the order of the configuration do not move it.
DeploymentAccepted == rejected \subseteq removed

\* A deployed VPC keeps its primary range, its additional ranges and its subnets.  No
\* execution moves it, compared or not, unless a user freed its ranges; and then the
\* comparison holds the execution back, unless it was skipped or the outputs table did
\* not have the VPC as it was deployed last.
Stands(v) ==
    /\ deployed'[v].first = deployed[v].first
    /\ deployed[v].more \subseteq deployed'[v].more
    /\ deployed[v].subnets \subseteq deployed'[v].subnets

Unnoticed(v) == v \in removed /\ (Compares => seen[v] # deployed[v])

DeploymentStands ==
    [][\A v \in Vpcs : deployed[v] # NotDeployed => Stands(v) \/ Unnoticed(v)]_vars

\* The same of any execution that compares: it holds only for what the outputs table
\* has, and a VPC built in a phase that failed afterwards is not there.
ComparedStands ==
    [][\A v \in Vpcs : deployed[v] # NotDeployed /\ Compares => Stands(v)]_vars


=============================================================================
