------------------------- MODULE CidrAssignmentProofs -------------------------
(***************************************************************************)
(* Proofs about CidrAssignment: type correctness, that the ranges of       *)
(* dynamic VPCs and of their subnets never meet and lie where they should, *)
(* that each is assigned once, that the search finds the first free range, *)
(* that an assignment that ends is complete, that what was deployed from   *)
(* it is accepted, and that what is deployed keeps its ranges; for any     *)
(* pools, sizes, VPCs, entries and number of executions.                   *)
(***************************************************************************)
EXTENDS CidrAssignment, TLAPS

(***************************************************************************)
(* The inductive invariant: what holds in the middle of a VPC.             *)
(***************************************************************************)

Dynamic == {"cidr", "search", "subnet", "searchSubnet"}
Copying == {"copy", "copySubnet"}
Assigning == pc \in {"pools", "next"} \cup Dynamic \cup Copying

\* The locals of the step.
Locals ==
    /\ pc \in Dynamic \cup Copying => todo # <<>>
    /\ pc = "idle" => known = {} /\ knownSubnets = {} /\ left = {}
    /\ used \subseteq Ranges
    /\ pc \in Dynamic => Unit[Vpc] = NoUnit /\ cidr \in [Pools -> Ranges \cup {NoRange}]
    /\ pc \in Copying => Unit[Vpc] # NoUnit
    /\ pc = "copy" => left \subseteq ItemsOf(vpcTable, Unit[Vpc])
    /\ Assigning => \A i, k \in DOMAIN todo : todo[i] = todo[k] => i = k

\* What is new in the tables, and whose it is.
NewVpcItems ==
    pc \in {"cidr", "search"} =>
        \A e \in vpcTable \ known :
            /\ e.key = Vpc
            /\ \E i \in DOMAIN VpcCidrs[Vpc] : i < j /\ e.pool = VpcCidrs[Vpc][i].pool

NewSubnetItems ==
    Assigning =>
        \A t \in subnetTable \ knownSubnets : \A i \in DOMAIN todo :
            t.key = todo[i] =>
                /\ i = 1 /\ pc \in {"subnet", "searchSubnet", "copySubnet"}
                /\ \E k \in DOMAIN VpcSubnets[Vpc] :
                     k < j /\ t.subnet = VpcSubnets[Vpc][k].subnet

\* The candidate is a range of the size wanted, not before the first address it may have.
IsCandidate(size, whole) ==
    /\ candidate \in Ranges /\ candidate.size = size
    /\ size <= whole.size /\ First(whole) <= First(candidate)

Searching ==
    pc = "search" =>
        /\ j \in DOMAIN VpcCidrs[Vpc]
        /\ IsCandidate(Wanted.size, PoolRange[Wanted.pool])
        /\ used = {e.range : e \in ItemsOfPool(known, Wanted.pool)}
        /\ \A e \in ItemsOf(vpcTable, Vpc) : e.pool # Wanted.pool
        /\ FirstFree(candidate, PoolRange[Wanted.pool], used)

SearchingSubnet ==
    /\ pc \in Dynamic =>
         \A p \in Pools : cidr[p] # NoRange =>
             \E e \in ItemsOf(vpcTable, Vpc) : e.range = cidr[p]
    /\ pc \in {"subnet", "searchSubnet"} =>
         \A t \in ItemsOf(subnetTable, Vpc) : t.range \in used
    /\ pc = "searchSubnet" =>
         /\ j \in DOMAIN VpcSubnets[Vpc]
         /\ cidr[WantedSubnet.pool] # NoRange
         /\ IsCandidate(WantedSubnet.size, cidr[WantedSubnet.pool])
         /\ \A t \in ItemsOf(subnetTable, Vpc) : t.subnet # WantedSubnet.subnet

StepInv == TypeOK /\ Locals /\ NewVpcItems /\ NewSubnetItems /\ Searching /\ SearchingSubnet

\* After a comparison nothing moves what the outputs table had.
Compared ==
    /\ DOMAIN deployed = Vpcs /\ DOMAIN outputs = Vpcs
    /\ pc = "deploy" /\ Compares => \A v \in PlanSet : ~ Moved(seen[v], v)

IInv == StepInv /\ RangesSound /\ AssignedOnce

(***************************************************************************)
(* What the assignment has achieved so far, and what that means for what   *)
(* is deployed.                                                            *)
(***************************************************************************)

HasCidr(items, v, i) == ItemsOfPool(ItemsOf(items, v), VpcCidrs[v][i].pool) # {}
HasSubnet(nets, v, i) == \E s \in ItemsOf(nets, v) : s.subnet = VpcSubnets[v][i].subnet

\* Complete, but for copies that were never made.
Supplied(items, nets, v) ==
    /\ IF Unit[v] = NoUnit THEN \A i \in DOMAIN VpcCidrs[v] : HasCidr(items, v, i)
       ELSE ItemsOf(items, v) # {}
    /\ \A i \in DOMAIN VpcSubnets[v] : HasSubnet(nets, v, i)

Waiting == {todo[i] : i \in DOMAIN todo}

\* The VPCs of the plan that are done, and the one at hand.
Progress ==
    /\ pc = "idle" => plan = <<>>
    /\ Assigning => \A v \in PlanSet : v \in Waiting \/ Supplied(vpcTable, subnetTable, v)
    /\ pc \in {"compare", "deploy"} => \A v \in PlanSet : Supplied(vpcTable, subnetTable, v)
    /\ pc \in {"cidr", "search"} =>
         \A i \in DOMAIN VpcCidrs[Vpc] : i < j => HasCidr(vpcTable, Vpc, i)
    /\ pc \in {"subnet", "searchSubnet"} =>
         \A i \in DOMAIN VpcCidrs[Vpc] : HasCidr(vpcTable, Vpc, i)
    /\ pc = "copy" => ItemsOf(vpcTable, Vpc) # {} \/ left # {}
    /\ pc = "copySubnet" => ItemsOf(vpcTable, Vpc) # {}
    /\ pc \in {"subnet", "searchSubnet"} \cup Copying =>
         \A i \in DOMAIN VpcSubnets[Vpc] : i < j => HasSubnet(subnetTable, Vpc, i)

\* A VPC that has copies has all of them, unless it is being copied or that was cut short.
Copies ==
    /\ \A v \in Vpcs : Unit[v] # NoUnit /\ ItemsOf(vpcTable, v) # {} =>
         /\ ItemsOf(vpcTable, Unit[v]) # {}
         /\ v \notin torn => \A e \in ItemsOf(vpcTable, Unit[v]) :
              \/ [e EXCEPT !.key = v] \in vpcTable
              \/ pc = "copy" /\ v = Vpc /\ e \in left
    /\ pc = "copy" /\ ItemsOf(vpcTable, Vpc) = {} => left = ItemsOf(vpcTable, Unit[Vpc])

IdsSoFar == pc = "record" => \A v \in PlanSet : v \in Waiting \/ IdsRecorded(v)

\* A VPC has the ranges it is deployed with, and gets no others.
Anchored(items, nets, v) ==
    /\ IF Unit[v] = NoUnit THEN 1 \in DOMAIN VpcCidrs[v] => HasCidr(items, v, 1)
       ELSE ItemsOf(items, v) # {}
    /\ 1 \in DOMAIN VpcSubnets[v] => ItemsOf(nets, v) # {}

\* What a VPC was deployed with last, and what the outputs table has of it.
Kept(v) == {deployed[v], outputs[v]} \ {NotDeployed}

Settled ==
    /\ \A v \in Vpcs \ removed : \A was \in Kept(v) :
         Anchored(vpcTable, subnetTable, v) /\ ~ Moved(was, v)
    /\ pc = "copy" /\ Vpc \notin removed /\ Kept(Vpc) # {} => left = {}
    /\ rejected \subseteq removed

Achieved == Progress /\ Copies /\ IdsSoFar /\ Settled

-----------------------------------------------------------------------------
(* Ranges *)

LEMMA SizesDivide ==
    /\ Sizes \subseteq Nat \ {0}
    /\ \A s, t \in Sizes : s <= t => \E k \in Nat : t = k * s
<1>1. Sizes \subseteq Nat \ {0} /\ \A s, t \in Sizes : s <= t => \E k \in 1..t : t = k * s
  BY CidrAssumption, Zenon
<1> QED BY <1>1

LEMMA RangeType ==
    ASSUME NEW a \in Ranges
    PROVE  /\ a = [first |-> a.first, size |-> a.size]
           /\ a.first \in Nat /\ a.size \in Sizes /\ a.size \in Nat \ {0}
           /\ \E n \in Nat : a.first = n * a.size
<1>1. a \in [first : Nat, size : Sizes] /\ \E n \in 0..a.first : a.first = n * a.size
  BY DEF Ranges, Aligned
<1>2. a = [first |-> a.first, size |-> a.size] /\ a.first \in Nat /\ a.size \in Sizes
  BY <1>1
<1>3. \E n \in Nat : a.first = n * a.size
  BY <1>1
<1>4. a.size \in Nat \ {0}
  BY <1>2, SizesDivide
<1> QED BY <1>2, <1>3, <1>4

\* No multiple lies between two that follow each other.
LEMMA Multiples ==
    ASSUME NEW s \in Nat \ {0}, NEW m \in Nat, NEW n \in Nat
    PROVE  /\ m < n => m * s + s <= n * s
           /\ m * s < n * s => m < n
           /\ m * s \in Nat
<1>1. m * s \in Nat /\ n * s \in Nat
  OBVIOUS
<1>2. ASSUME m < n
      PROVE  m * s + s <= n * s
  <2>1. PICK d \in Nat : n = m + 1 + d
    <3>1. n - m - 1 \in Nat /\ n = m + 1 + (n - m - 1)
      BY <1>2
    <3> QED BY <3>1
  <2>2. n * s = m * s + s + d * s /\ d * s \in Nat
    BY <2>1
  <2> QED BY <1>1, <2>2
<1>3. ASSUME n <= m
      PROVE  n * s <= m * s
  <2>1. PICK d \in Nat : m = n + d
    <3>1. m - n \in Nat /\ m = n + (m - n)
      BY <1>3
    <3> QED BY <3>1
  <2>2. m * s = n * s + d * s /\ d * s \in Nat
    BY <2>1
  <2> QED BY <1>1, <2>2
<1> QED BY <1>1, <1>2, <1>3

\* A range lies in a range that is not smaller, or has no address in common with it.
LEMMA InsideOrApart ==
    ASSUME NEW a \in Ranges, NEW b \in Ranges, a.size <= b.size
    PROVE  Contains(b, a) \/ Disjoint(a, b)
<1>1. PICK n \in Nat : a.first = n * a.size
  BY RangeType
<1>2. PICK q \in Nat : b.first = q * b.size
  BY RangeType
<1>3. PICK k \in Nat : b.size = k * a.size
  BY RangeType, SizesDivide
<1>4. a.size \in Nat \ {0} /\ b.size \in Nat \ {0} /\ a.first \in Nat /\ b.first \in Nat
  BY RangeType
<1> DEFINE s == a.size
           p == q * k
<1>5. p \in Nat /\ p + k \in Nat /\ n + 1 \in Nat
  OBVIOUS
<1>6. b.first = p * s
  <2>1. q * (k * s) = (q * k) * s
    BY <1>4
  <2> QED BY <1>2, <1>3, <2>1
<1>7. b.first + b.size = (p + k) * s
  <2>1. (p + k) * s = p * s + k * s
    BY <1>4, <1>5
  <2> QED BY <1>3, <1>6, <2>1
<1>8. a.first = n * s
  BY <1>1
<1> HIDE DEF p, s
<1>s. s \in Nat \ {0} /\ a.size = s
  BY <1>4 DEF s
<1>9. CASE n < p
  <2>1. n * s + s <= p * s
    BY <1>9, <1>s, <1>5, Multiples
  <2> QED BY <2>1, <1>6, <1>8, <1>s DEF Disjoint, First, Past
<1>10. CASE p + k <= n
  <2>1. (p + k) * s <= n * s
    <3>1. ~ (n * s < (p + k) * s)
      BY <1>10, <1>5, <1>s, Multiples
    <3>2. n * s \in Nat /\ (p + k) * s \in Nat
      BY <1>5, <1>s, Multiples
    <3> QED BY <3>1, <3>2
  <2> QED BY <2>1, <1>7, <1>8, <1>s DEF Disjoint, First, Past
<1>11. CASE p <= n /\ n < p + k
  <2>1. n * s + s <= (p + k) * s
    BY <1>11, <1>5, <1>s, Multiples
  <2>2. p * s <= n * s
    <3>1. ~ (n * s < p * s)
      BY <1>11, <1>5, <1>s, Multiples
    <3>2. n * s \in Nat /\ p * s \in Nat
      BY <1>5, <1>s, Multiples
    <3> QED BY <3>1, <3>2
  <2> QED BY <2>1, <2>2, <1>6, <1>7, <1>8, <1>s DEF Contains, First, Past
<1> QED BY <1>5, <1>9, <1>10, <1>11

\* So the test of the search, equal, within or around, is all it takes.
LEMMA ApartUnlessMeets ==
    ASSUME NEW a \in Ranges, NEW b \in Ranges, ~ Meets(a, b)
    PROVE  Disjoint(a, b) /\ Disjoint(b, a)
<1>1. a.size \in Nat /\ b.size \in Nat
  BY RangeType
<1> QED BY <1>1, InsideOrApart DEF Meets, Disjoint

LEMMA MeetsNotApart ==
    ASSUME NEW a \in Ranges, NEW b \in Ranges, Meets(a, b)
    PROVE  ~ Disjoint(a, b)
BY RangeType DEF Meets, Disjoint, Contains, First, Past

LEMMA FittingIsInside ==
    ASSUME NEW a \in Ranges, NEW b \in Ranges, a.size <= b.size,
           First(b) <= First(a), Fits(a, b)
    PROVE  Contains(b, a)
<1>1. /\ a.first \in Nat /\ a.size \in Nat \ {0}
      /\ b.first \in Nat /\ b.size \in Nat \ {0}
  BY RangeType
<1> QED BY <1>1, InsideOrApart DEF Disjoint, Fits, First, Past

\* Where a search begins and how it goes on.
LEMMA StartOfSearch ==
    ASSUME NEW b \in Ranges, NEW s \in Sizes, s <= b.size
    PROVE  [first |-> b.first, size |-> s] \in Ranges
<1>1. /\ b.first \in Nat /\ b.size \in Nat \ {0} /\ b.size \in Sizes
      /\ s \in Nat \ {0}
  BY RangeType, SizesDivide
<1>2. PICK q \in Nat : b.first = q * b.size
  BY RangeType
<1>3. PICK k \in Nat : b.size = k * s
  BY <1>1, SizesDivide
<1>4. b.first = (q * k) * s /\ q * k \in Nat
  <2>1. q * (k * s) = (q * k) * s
    BY <1>1
  <2> QED BY <1>2, <1>3, <2>1
<1> DEFINE p == q * k
<1>5. p <= p * s
  <2> HIDE DEF p
  <2>1. p \in Nat
    BY <1>4 DEF p
  <2> QED BY <1>1, <2>1
<1>6. p \in 0..b.first
  BY <1>1, <1>4, <1>5
<1> QED BY <1>1, <1>4, <1>6 DEF Ranges, Aligned

LEMMA NextRangeType ==
    ASSUME NEW b \in Ranges
    PROVE  /\ NextRange(b) \in Ranges
           /\ NextRange(b).size = b.size
           /\ NextRange(b).first = b.first + b.size
<1>1. b.first \in Nat /\ b.size \in Nat \ {0} /\ b.size \in Sizes
  BY RangeType
<1>2. PICK k \in 0..b.first : b.first = k * b.size
  BY DEF Ranges, Aligned
<1>3. NextRange(b) = [first |-> b.first + b.size, size |-> b.size]
  BY DEF NextRange, Ranges
<1>4. b.first + b.size = (k + 1) * b.size /\ k + 1 \in 0..(b.first + b.size)
  BY <1>1, <1>2
<1> QED BY <1>1, <1>3, <1>4 DEF Ranges, Aligned

\* The candidate that meets a used range is not free, nor is any before it.
LEMMA NextIsFirstFree ==
    ASSUME NEW c \in Ranges, NEW whole \in Ranges, c.size <= whole.size,
           First(whole) <= First(c),
           NEW taken \in SUBSET Ranges, FirstFree(c, whole, taken),
           \E b \in taken : Meets(b, c)
    PROVE  FirstFree(NextRange(c), whole, taken)
<1>1. /\ c.first \in Nat /\ c.size \in Nat \ {0} /\ c.size \in Sizes
      /\ whole.first \in Nat /\ whole.size \in Nat \ {0}
  BY RangeType
<1>2. PICK b \in taken : ~ Disjoint(b, c)
  BY MeetsNotApart
<1>3. [first |-> whole.first, size |-> c.size] \in Ranges
  BY <1>1, StartOfSearch
<1>4. PICK p \in Nat : whole.first = p * c.size
  BY <1>3, RangeType
<1>5. PICK m \in Nat : c.first = m * c.size
  BY RangeType
<1> DEFINE Before(n) == [first |-> whole.first + n * c.size, size |-> c.size]
<1>6. ASSUME NEW n \in 0..whole.size, Before(n).first < c.first + c.size
      PROVE  \E d \in taken : ~ Disjoint(d, Before(n))
  <2>1. Before(n).first = (p + n) * c.size
    BY <1>1, <1>4
  <2>2. c.first + c.size = (m + 1) * c.size
    <3>1. (m + 1) * c.size = m * c.size + c.size
      BY <1>1
    <3> QED BY <1>5, <3>1
  <2>3. p + n \in Nat /\ m + 1 \in Nat
    BY <1>1
  <2>4. p + n < m + 1
    BY <1>1, <1>6, <2>1, <2>2, <2>3, Multiples
  <2>5. CASE p + n = m
    <3>1. Before(n).first = c.first
      BY <1>5, <2>1, <2>5
    <3>2. Before(n) = c
      BY <3>1, RangeType
    <3> QED BY <1>2, <3>2
  <2>6. CASE p + n < m
    <3>1. (p + n) * c.size + c.size <= m * c.size /\ (p + n) * c.size \in Nat
      BY <1>1, <2>3, <2>6, Multiples
    <3>2. Before(n).first < c.first
      BY <1>1, <1>5, <2>1, <3>1
    <3> QED BY <3>2 DEF FirstFree
  <2> QED BY <2>3, <2>4, <2>5, <2>6
<1> QED BY <1>6, NextRangeType DEF FirstFree

LEMMA StartIsFirstFree ==
    ASSUME NEW whole \in Ranges, NEW s \in Sizes, s <= whole.size, NEW taken
    PROVE  FirstFree([first |-> whole.first, size |-> s], whole, taken)
<1>1. whole.first \in Nat /\ whole.size \in Nat /\ s \in Nat
  BY RangeType, SizesDivide
<1>2. \A n \in 0..whole.size : n * s \in Nat
  BY <1>1
<1> QED BY <1>1, <1>2 DEF FirstFree

-----------------------------------------------------------------------------
(* Facts the steps use *)

LEMMA Constants ==
    /\ \A p \in Pools : PoolRange[p] \in Ranges
    /\ \A i \in DOMAIN PoolOrder : PoolOrder[i] \in Pools
    /\ \A v \in Vpcs : Unit[v] \in Units \cup {NoUnit} /\ v \notin Units
    /\ NoUnit \notin Keys /\ NoUnit \notin Units /\ Keys = Vpcs \cup Units
    /\ \A v \in Vpcs : \A i \in DOMAIN VpcCidrs[v] :
         VpcCidrs[v][i].pool \in Pools /\ VpcCidrs[v][i].size \in Sizes
    /\ \A v \in Vpcs : DOMAIN VpcCidrs[v] = 1..Len(VpcCidrs[v]) /\ Len(VpcCidrs[v]) \in Nat
    /\ \A v \in Vpcs : \A i \in DOMAIN VpcSubnets[v] :
         /\ VpcSubnets[v][i].subnet \in Subnets
         /\ VpcSubnets[v][i].pool \in Pools /\ VpcSubnets[v][i].size \in Sizes
    /\ \A v \in Vpcs : DOMAIN VpcSubnets[v] = 1..Len(VpcSubnets[v]) /\ Len(VpcSubnets[v]) \in Nat
    /\ \A u \in Units : /\ Entered[u] \subseteq VpcItems
                        /\ EnteredSubnets[u] \subseteq SubnetItems
                        /\ \A e \in Entered[u] : e.key = u
                        /\ \A e \in EnteredSubnets[u] : e.key = u
<1>1. PoolRange \in [Pools -> Ranges] /\ PoolOrder \in Seq(Pools)
  BY CidrAssumption, Zenon
<1>2. /\ NoUnit \notin Keys /\ Vpcs \cap Units = {}
      /\ Unit \in [Vpcs -> Units \cup {NoUnit}]
  BY CidrAssumption, Zenon
<1>3. /\ VpcCidrs \in [Vpcs -> Seq([pool : Pools, size : Sizes])]
      /\ VpcSubnets \in [Vpcs -> Seq([subnet : Subnets, pool : Pools, size : Sizes])]
  BY CidrAssumption, Zenon
<1>4. /\ Entered \in [Units -> SUBSET VpcItems]
      /\ EnteredSubnets \in [Units -> SUBSET SubnetItems]
      /\ \A u \in Units : /\ \A e \in Entered[u] : e.key = u
                          /\ \A e \in EnteredSubnets[u] : e.key = u
  BY CidrAssumption, Zenon
<1>5. /\ \A p \in Pools : PoolRange[p] \in Ranges
      /\ \A i \in DOMAIN PoolOrder : PoolOrder[i] \in Pools
  BY <1>1
<1>6. \A v \in Vpcs : Unit[v] \in Units \cup {NoUnit} /\ v \notin Units
  BY <1>2
<1>7. /\ \A v \in Vpcs : \A i \in DOMAIN VpcCidrs[v] :
           VpcCidrs[v][i].pool \in Pools /\ VpcCidrs[v][i].size \in Sizes
      /\ \A v \in Vpcs : DOMAIN VpcCidrs[v] = 1..Len(VpcCidrs[v]) /\ Len(VpcCidrs[v]) \in Nat
  <2>1. ASSUME NEW v \in Vpcs
        PROVE  VpcCidrs[v] \in Seq([pool : Pools, size : Sizes])
    BY <1>3
  <2>2. ASSUME NEW S, NEW s \in Seq(S)
        PROVE  /\ \A i \in DOMAIN s : s[i] \in S
               /\ DOMAIN s = 1..Len(s) /\ Len(s) \in Nat
    OBVIOUS
  <2>3. ASSUME NEW v \in Vpcs
        PROVE  /\ \A i \in DOMAIN VpcCidrs[v] : VpcCidrs[v][i] \in [pool : Pools, size : Sizes]
               /\ DOMAIN VpcCidrs[v] = 1..Len(VpcCidrs[v]) /\ Len(VpcCidrs[v]) \in Nat
    BY <2>1, <2>2, Zenon
  <2> QED BY <2>3
<1>8. /\ \A v \in Vpcs : \A i \in DOMAIN VpcSubnets[v] :
           /\ VpcSubnets[v][i].subnet \in Subnets
           /\ VpcSubnets[v][i].pool \in Pools /\ VpcSubnets[v][i].size \in Sizes
      /\ \A v \in Vpcs : /\ DOMAIN VpcSubnets[v] = 1..Len(VpcSubnets[v])
                         /\ Len(VpcSubnets[v]) \in Nat
  <2>1. ASSUME NEW v \in Vpcs
        PROVE  VpcSubnets[v] \in Seq([subnet : Subnets, pool : Pools, size : Sizes])
    BY <1>3
  <2>2. ASSUME NEW S, NEW s \in Seq(S)
        PROVE  /\ \A i \in DOMAIN s : s[i] \in S
               /\ DOMAIN s = 1..Len(s) /\ Len(s) \in Nat
    OBVIOUS
  <2>3. ASSUME NEW v \in Vpcs
        PROVE  /\ \A i \in DOMAIN VpcSubnets[v] :
                    VpcSubnets[v][i] \in [subnet : Subnets, pool : Pools, size : Sizes]
               /\ DOMAIN VpcSubnets[v] = 1..Len(VpcSubnets[v]) /\ Len(VpcSubnets[v]) \in Nat
    BY <2>1, <2>2, Zenon
  <2> QED BY <2>3
<1>9. \A u \in Units : /\ Entered[u] \subseteq VpcItems
                       /\ EnteredSubnets[u] \subseteq SubnetItems
  BY <1>4
<1> QED BY <1>2, <1>4, <1>5, <1>6, <1>7, <1>8, <1>9 DEF Keys

\* The VPC at hand and those after it.
LEMMA HeadAndTail ==
    ASSUME NEW s \in Seq(Vpcs), s # <<>>
    PROVE  /\ Head(s) \in Vpcs /\ 1 \in DOMAIN s /\ s[1] = Head(s)
           /\ Tail(s) \in Seq(Vpcs)
           /\ \A i \in DOMAIN Tail(s) :
                i + 1 \in DOMAIN s /\ i + 1 # 1 /\ Tail(s)[i] = s[i + 1]
OBVIOUS

LEMMA HeadOrTail ==
    ASSUME NEW s \in Seq(Vpcs), s # <<>>
    PROVE  {s[i] : i \in DOMAIN s} \subseteq
             {Tail(s)[i] : i \in DOMAIN Tail(s)} \cup {Head(s)}
<1>1. ASSUME NEW i \in DOMAIN s
      PROVE  s[i] = Head(s) \/ (i - 1 \in DOMAIN Tail(s) /\ Tail(s)[i - 1] = s[i])
  <2>1. DOMAIN Tail(s) = 1..(Len(s) - 1) /\ i \in 1..Len(s) /\ Len(s) \in Nat
    OBVIOUS
  <2> QED BY <2>1
<1> QED BY <1>1, Zenon

LEMMA TablesType ==
    ASSUME TypeOK
    PROVE  /\ \A e \in vpcTable : /\ e.key \in Keys /\ e.pool \in Pools /\ e.range \in Ranges
                                  /\ e = [key |-> e.key, pool |-> e.pool, range |-> e.range,
                                          order |-> e.order]
           /\ \A t \in subnetTable : /\ t.key \in Keys /\ t.subnet \in Subnets
                                     /\ t.range \in Ranges
                                     /\ t = [key |-> t.key, subnet |-> t.subnet,
                                             range |-> t.range]
BY DEF TypeOK, VpcItems, SubnetItems

-----------------------------------------------------------------------------
(* Types and locals *)

LEMMA StepInit == Init => StepInv
<1> SUFFICES ASSUME Init
             PROVE  StepInv
  OBVIOUS
<1>1. TypeOK
  <2>1. stored \in BOOLEAN /\ override \in BOOLEAN
    BY Zenon DEF Init
  <2> QED BY <2>1, CidrAssumption DEF Init, TypeOK, Steps
<1>2. Locals /\ NewVpcItems /\ NewSubnetItems /\ Searching /\ SearchingSubnet
  BY DEF Init, Locals, NewVpcItems, NewSubnetItems, Searching, SearchingSubnet, Dynamic,
         Copying, Assigning
<1> QED BY <1>1, <1>2 DEF StepInv

\* A VPC that is being worked on, and what it wants.
LEMMA AtHand ==
    ASSUME StepInv, pc \in Dynamic \cup Copying
    PROVE  /\ Vpc \in Vpcs /\ todo # <<>> /\ 1 \in DOMAIN todo /\ todo[1] = Vpc
           /\ Tail(todo) \in Seq(Vpcs)
           /\ \A i \in DOMAIN Tail(todo) :
                i + 1 \in DOMAIN todo /\ i + 1 # 1 /\ Tail(todo)[i] = todo[i + 1]
           /\ j <= Len(VpcCidrs[Vpc]) <=> j \in DOMAIN VpcCidrs[Vpc]
           /\ j <= Len(VpcSubnets[Vpc]) <=> j \in DOMAIN VpcSubnets[Vpc]
           /\ \A i \in DOMAIN VpcCidrs[Vpc] \cup DOMAIN VpcSubnets[Vpc] : i \in Nat
<1>1. todo \in Seq(Vpcs) /\ todo # <<>> /\ j \in Nat \ {0}
  BY DEF StepInv, TypeOK, Locals
<1>2. Vpc \in Vpcs /\ todo # <<>> /\ 1 \in DOMAIN todo /\ todo[1] = Vpc
      /\ Tail(todo) \in Seq(Vpcs)
      /\ \A i \in DOMAIN Tail(todo) :
           i + 1 \in DOMAIN todo /\ i + 1 # 1 /\ Tail(todo)[i] = todo[i + 1]
  BY <1>1, HeadAndTail DEF Vpc
<1>3. /\ DOMAIN VpcCidrs[Vpc] = 1..Len(VpcCidrs[Vpc]) /\ Len(VpcCidrs[Vpc]) \in Nat
      /\ DOMAIN VpcSubnets[Vpc] = 1..Len(VpcSubnets[Vpc]) /\ Len(VpcSubnets[Vpc]) \in Nat
  BY <1>2, Constants, Zenon
<1> QED BY <1>1, <1>2, <1>3

LEMMA TypeNext ==
    ASSUME StepInv, [Next]_vars
    PROVE  TypeOK'
<1>t. TypeOK
  BY DEF StepInv
<1> USE <1>t
<1>1. ASSUME NEW n \in 0..Cardinality(Vpcs), NEW order \in [1..n -> Vpcs],
             NEW overrides \in BOOLEAN, StartExecution(order, overrides)
      PROVE  TypeOK'
  <2>1. order \in Seq(Vpcs)
    <3>1. n \in Nat
      OBVIOUS
    <3> QED BY <3>1
  <2> QED BY <1>1, <2>1 DEF TypeOK, StartExecution, tables, Steps
<1>2. CASE PutPool
  <2>1. PICK i \in DOMAIN PoolOrder : pools' = pools \cup {PoolOrder[i]}
    BY <1>2 DEF PutPool
  <2>2. pools' \subseteq Pools
    BY <2>1, Constants DEF TypeOK
  <2> QED BY <1>2, <2>2 DEF TypeOK, PutPool, job, mode, history, Steps
<1>3. CASE NextVpc
  <2>1. cidr' \in [Pools -> Ranges \cup {NoRange}]
    BY <1>3 DEF NextVpc
  <2>2. left' \subseteq vpcTable /\ pc' \in Steps
    BY <1>3 DEF NextVpc, ItemsOf, Assigned, Steps
  <2> QED BY <1>3, <2>1, <2>2 DEF TypeOK, NextVpc, tables, mode, history
<1>4. CASE FindCidr
  <2>h. /\ Vpc \in Vpcs /\ j \in DOMAIN VpcCidrs[Vpc] /\ cidr \in [Pools -> Ranges \cup {NoRange}]
    BY <1>4, AtHand DEF FindCidr, Dynamic, StepInv, Locals
  <2>w. Wanted.pool \in Pools /\ Wanted.size \in Sizes
    BY <2>h, Constants, Zenon DEF Wanted
  <2>1. CASE ItemsOfPool(ItemsOf(known, Vpc), Wanted.pool) # {}
    <3>1. PICK e \in ItemsOfPool(ItemsOf(known, Vpc), Wanted.pool) :
              /\ cidr' = [cidr EXCEPT ![Wanted.pool] = e.range]
              /\ j' = j + 1 /\ UNCHANGED <<pc, candidate>>
      BY <1>4, <2>1 DEF FindCidr
    <3>2. e.range \in Ranges
      BY TablesType DEF TypeOK, ItemsOfPool, ItemsOf
    <3>3. cidr' \in [Pools -> Ranges \cup {NoRange}]
      BY <2>h, <3>1, <3>2
    <3> QED BY <1>4, <3>1, <3>3 DEF TypeOK, FindCidr, tables, mode, history
  <2>2. CASE ItemsOfPool(ItemsOf(known, Vpc), Wanted.pool) = {}
    <3>1. /\ candidate' = [first |-> PoolRange[Wanted.pool].first, size |-> Wanted.size]
          /\ Wanted.size <= PoolRange[Wanted.pool].size
          /\ pc' = "search" /\ UNCHANGED <<j, cidr>>
      BY <1>4, <2>2 DEF FindCidr
    <3>2. candidate' \in Ranges
      BY <2>w, <3>1, Constants, StartOfSearch
    <3> QED BY <1>4, <3>1, <3>2 DEF TypeOK, FindCidr, tables, mode, history, Steps
  <2> QED BY <2>1, <2>2
<1>5. CASE TryNextRange
  <2>1. candidate \in Ranges
    BY <1>5 DEF TryNextRange, StepInv, Searching, SearchingSubnet, IsCandidate
  <2>2. candidate' \in Ranges
    BY <1>5, <2>1, NextRangeType DEF TryNextRange
  <2> QED BY <1>5, <2>2 DEF TypeOK, TryNextRange, tables, mode, history
<1>6. CASE AssignCidr
  <2>h. /\ Vpc \in Vpcs /\ j \in DOMAIN VpcCidrs[Vpc] /\ cidr \in [Pools -> Ranges \cup {NoRange}]
        /\ candidate \in Ranges
    BY <1>6, AtHand DEF AssignCidr, Dynamic, StepInv, Locals, Searching, IsCandidate
  <2>w. Wanted.pool \in Pools
    BY <2>h, Constants, Zenon DEF Wanted
  <2>1. [key |-> Vpc, pool |-> Wanted.pool, range |-> candidate, order |-> 0] \in VpcItems
    BY <2>h, <2>w DEF VpcItems, Keys
  <2>2. cidr' \in [Pools -> Ranges \cup {NoRange}] /\ j' \in Nat \ {0} /\ candidate' = NoRange
    BY <1>6, <2>h, <2>w DEF AssignCidr, TypeOK
  <2>3. vpcTable \subseteq vpcTable' /\ vpcTable' \subseteq VpcItems
    BY <1>6, <2>1 DEF AssignCidr, TypeOK
  <2> QED BY <1>6, <2>2, <2>3 DEF TypeOK, AssignCidr, mode, history, Steps
<1>7. CASE CidrsDone
  BY <1>7 DEF TypeOK, CidrsDone, tables, mode, history, Steps
<1>8. CASE FindSubnet
  <2>h. /\ Vpc \in Vpcs /\ j \in DOMAIN VpcSubnets[Vpc]
        /\ cidr \in [Pools -> Ranges \cup {NoRange}]
    BY <1>8, AtHand DEF FindSubnet, Dynamic, StepInv, Locals
  <2>w. WantedSubnet.pool \in Pools /\ WantedSubnet.size \in Sizes
    BY <2>h, Constants, Zenon DEF WantedSubnet
  <2>1. pc' \in Steps /\ j' \in Nat \ {0}
    BY <1>8 DEF FindSubnet, Steps, TypeOK
  <2>2. candidate' \in Ranges \cup {NoRange}
    <3>1. CASE candidate' = candidate
      BY <3>1 DEF TypeOK
    <3>2. CASE candidate' # candidate
      <4>1. /\ WantedSubnet.size <= cidr[WantedSubnet.pool].size
            /\ cidr[WantedSubnet.pool] # NoRange
            /\ candidate' = [first |-> cidr[WantedSubnet.pool].first,
                             size |-> WantedSubnet.size]
        BY <1>8, <3>2 DEF FindSubnet
      <4>2. cidr[WantedSubnet.pool] \in Ranges
        BY <2>h, <2>w, <4>1
      <4> QED BY <2>w, <4>1, <4>2, StartOfSearch
    <3> QED BY <3>1, <3>2
  <2> QED BY <1>8, <2>1, <2>2 DEF TypeOK, FindSubnet, tables, mode, history
<1>9. CASE AssignSubnet
  <2>h. /\ Vpc \in Vpcs /\ j \in DOMAIN VpcSubnets[Vpc] /\ candidate \in Ranges
    BY <1>9, AtHand DEF AssignSubnet, Dynamic, StepInv, SearchingSubnet, IsCandidate
  <2>w. WantedSubnet.subnet \in Subnets
    BY <2>h, Constants, Zenon DEF WantedSubnet
  <2>1. [key |-> Vpc, subnet |-> WantedSubnet.subnet, range |-> candidate] \in SubnetItems
    BY <2>h, <2>w DEF SubnetItems, Keys
  <2>2. subnetTable \subseteq subnetTable' /\ subnetTable' \subseteq SubnetItems
    BY <1>9, <2>1 DEF AssignSubnet, TypeOK
  <2> QED BY <1>9, <2>2 DEF TypeOK, AssignSubnet, mode, history, Steps
<1>10. CASE SubnetsDone
  <2>1. Tail(todo) \in Seq(Vpcs)
    BY <1>10, AtHand DEF SubnetsDone, Dynamic, Copying
  <2> QED BY <1>10, <2>1 DEF TypeOK, SubnetsDone, VpcDone, tables, mode, history, Steps
<1>11. CASE CopyItem
  <2>1. PICK e \in left : /\ vpcTable' = vpcTable \cup {[e EXCEPT !.key = Vpc]}
                          /\ left' = left \ {e}
    BY <1>11 DEF CopyItem
  <2>2. Vpc \in Vpcs
    BY <1>11, AtHand DEF CopyItem, Copying
  <2>3. [e EXCEPT !.key = Vpc] \in VpcItems
    <3>1. e \in VpcItems
      BY <2>1 DEF TypeOK
    <3> QED BY <2>2, <3>1 DEF VpcItems, Keys
  <2>4. vpcTable \subseteq vpcTable' /\ vpcTable' \subseteq VpcItems
    BY <2>1, <2>3 DEF TypeOK
  <2> QED BY <1>11, <2>1, <2>4 DEF TypeOK, CopyItem, mode, history
<1>12. CASE CopiesDone
  BY <1>12 DEF TypeOK, CopiesDone, tables, job, mode, history, Steps
<1>13. CASE CopySubnet
  <2>1. Vpc \in Vpcs
    BY <1>13, AtHand DEF CopySubnet, Copying
  <2>2. subnetTable \subseteq subnetTable' /\ subnetTable' \subseteq SubnetItems
    <3>1. CASE subnetTable' = subnetTable
      BY <3>1 DEF TypeOK
    <3>2. CASE subnetTable' # subnetTable
      <4>1. PICK e \in knownSubnets : subnetTable' = subnetTable \cup {[e EXCEPT !.key = Vpc]}
        BY <1>13, <3>2 DEF CopySubnet, OwnSubnet, ItemsOf
      <4>2. e \in SubnetItems
        BY <4>1 DEF TypeOK
      <4>3. [e EXCEPT !.key = Vpc] \in SubnetItems
        BY <2>1, <4>2 DEF SubnetItems, Keys
      <4> QED BY <4>1, <4>3 DEF TypeOK
    <3> QED BY <3>1, <3>2
  <2> QED BY <1>13, <2>2 DEF TypeOK, CopySubnet, mode, history
<1>14. CASE AssignmentDone \/ CompareConfigurations
  BY <1>14 DEF TypeOK, AssignmentDone, CompareConfigurations, tables, job, mode, history, Steps
<1>15. CASE ComparisonRejects
  <2>1. MovedOutputs \subseteq Vpcs
    BY DEF TypeOK, PlanSet, MovedOutputs
  <2> QED BY <1>15, <2>1 DEF TypeOK, ComparisonRejects, tables, job, mode, Steps
<1>16. ASSUME NEW v \in Vpcs, DeployVpc(v)
      PROVE  TypeOK'
  BY <1>16 DEF TypeOK, DeployVpc, tables, job, mode, history
<1>17. ASSUME NEW v \in Vpcs, UserRemoves(v)
      PROVE  TypeOK'
  <2>1. known = {} /\ knownSubnets = {} /\ left = {}
    BY <1>17 DEF UserRemoves, StepInv, Locals
  <2>2. vpcTable' \subseteq vpcTable /\ subnetTable' \subseteq subnetTable
        /\ recorded' \subseteq vpcTable' \cup subnetTable'
    BY <1>17 DEF UserRemoves
  <2> QED BY <1>17, <2>1, <2>2 DEF TypeOK, UserRemoves, job, mode
<1>18. CASE PhaseDone \/ StoreCommitId \/ \E v \in Vpcs : StoreOutputs(v)
  BY <1>18 DEF TypeOK, PhaseDone, StoreCommitId, StoreOutputs, tables, job, mode, history, Steps
<1>19. CASE RecordIds
  <2>1. Tail(todo) \in Seq(Vpcs)
    BY <1>19, HeadAndTail DEF RecordIds, TypeOK
  <2>2. recorded' \subseteq vpcTable \cup subnetTable
    BY <1>19 DEF RecordIds, TypeOK, ItemsOf
  <2> QED BY <1>19, <2>1, <2>2 DEF TypeOK, RecordIds, tables, mode, history
<1>20. CASE RecordDone
  BY <1>20 DEF TypeOK, RecordDone, tables, job, mode, history, Steps
<1>21. CASE ExecutionEnds
  <2>1. torn' \subseteq Vpcs
    <3>1. pc = "copy" => Vpc \in Vpcs
      BY AtHand DEF Copying
    <3> QED BY <1>21, <3>1 DEF TypeOK, ExecutionEnds
  <2>2. <<>> \in Seq(Vpcs)
    OBVIOUS
  <2>3. stored' \in BOOLEAN /\ override' \in BOOLEAN
    BY <1>21, Zenon DEF TypeOK, ExecutionEnds
  <2> QED BY <1>21, <2>1, <2>2, <2>3 DEF TypeOK, ExecutionEnds, tables, Steps
<1>22. ASSUME NEW u \in Units, UserEnters(u)
      PROVE  TypeOK'
  <2>1. /\ vpcTable' = vpcTable \cup Entered[u]
        /\ subnetTable' = subnetTable \cup EnteredSubnets[u]
    BY <1>22 DEF UserEnters
  <2>2. Entered[u] \subseteq VpcItems /\ EnteredSubnets[u] \subseteq SubnetItems
    BY Constants
  <2>3. /\ vpcTable \subseteq vpcTable' /\ vpcTable' \subseteq VpcItems
        /\ subnetTable \subseteq subnetTable' /\ subnetTable' \subseteq SubnetItems
    BY <2>1, <2>2 DEF TypeOK
  <2> QED BY <1>22, <2>3 DEF TypeOK, UserEnters, job, mode, history
<1>23. CASE UNCHANGED vars
  BY <1>23 DEF TypeOK, vars, tables, job, mode, history
<1> QED
  BY <1>1, <1>2, <1>3, <1>4, <1>5, <1>6, <1>7, <1>8, <1>9, <1>10, <1>11, <1>12, <1>13, <1>14,
     <1>15, <1>16, <1>17, <1>18, <1>19, <1>20, <1>21, <1>22, <1>23 DEF Next

\* What is known of the VPC at hand, of the search and of the VPCs to come.
Work == Locals /\ NewVpcItems /\ NewSubnetItems /\ Searching /\ SearchingSubnet

LEMMA WorkNext ==
    ASSUME StepInv, TypeOK', [Next]_vars
    PROVE  Work'
<1>t. TypeOK /\ Locals /\ NewVpcItems /\ NewSubnetItems /\ Searching /\ SearchingSubnet
  BY DEF StepInv
<1> USE DEF Dynamic, Copying, Assigning
<1>1. ASSUME NEW n \in 0..Cardinality(Vpcs), NEW order \in [1..n -> Vpcs],
             NEW overrides \in BOOLEAN, StartExecution(order, overrides)
      PROVE  Work'
  <2>1. /\ pc' \in {"pools", "next"} /\ todo' = order /\ used' = used
        /\ knownSubnets' = subnetTable /\ subnetTable' = subnetTable
        /\ \A i, k \in DOMAIN order : order[i] = order[k] => i = k
    BY <1>1 DEF StartExecution, tables
  <2>2. Locals'
    BY <1>t, <2>1 DEF Locals
  <2> QED BY <2>1, <2>2 DEF Work, NewVpcItems, NewSubnetItems, Searching, SearchingSubnet
<1>2. CASE PutPool
  <2>1. /\ pc = "pools" /\ pc' \in {"pools", "next"}
        /\ UNCHANGED <<todo, used, knownSubnets, subnetTable>>
    BY <1>2 DEF PutPool, job
  <2>2. Locals' /\ NewSubnetItems'
    BY <1>t, <2>1 DEF Locals, NewSubnetItems
  <2> QED BY <2>1, <2>2 DEF Work, NewVpcItems, Searching, SearchingSubnet
<1>3. CASE NextVpc
  <2>1. /\ pc = "next" /\ todo # <<>> /\ known' = vpcTable /\ used' = {}
        /\ cidr' = [p \in Pools |-> NoRange]
        /\ UNCHANGED <<todo, knownSubnets, subnetTable, vpcTable>>
    BY <1>3 DEF NextVpc, tables
  <2>2. Vpc' = Vpc
    BY <2>1 DEF Vpc
  <2>3. \/ Unit[Vpc] = NoUnit /\ pc' = "cidr"
        \/ /\ Unit[Vpc] # NoUnit /\ pc' = "copy"
           /\ left' \subseteq ItemsOf(vpcTable, Unit[Vpc])
    BY <1>3 DEF NextVpc, Assigned, ItemsOf
  <2>4. Locals'
    BY <1>t, <2>1, <2>2, <2>3 DEF Locals, ItemsOf
  <2>5. NewVpcItems' /\ NewSubnetItems'
    BY <1>t, <2>1, <2>3 DEF NewVpcItems, NewSubnetItems
  <2>6. Searching' /\ SearchingSubnet'
    BY <2>1, <2>3 DEF Searching, SearchingSubnet
  <2> QED BY <2>4, <2>5, <2>6 DEF Work
<1>4. CASE FindCidr
  <2>h. /\ Vpc \in Vpcs /\ j \in DOMAIN VpcCidrs[Vpc] /\ Vpc' = Vpc
        /\ cidr \in [Pools -> Ranges \cup {NoRange}]
        /\ j \in Nat /\ \A i \in DOMAIN VpcCidrs[Vpc] : i \in Nat
    BY <1>4, <1>t, AtHand DEF FindCidr, Locals, Vpc, TypeOK
  <2>w. Wanted.pool \in Pools /\ Wanted.size \in Sizes
    BY <2>h, Constants, Zenon DEF Wanted
  <2>c. /\ pc = "cidr" /\ UNCHANGED <<vpcTable, subnetTable, todo, known, knownSubnets>>
    BY <1>4 DEF FindCidr, tables
  <2>1. CASE ItemsOfPool(ItemsOf(known, Vpc), Wanted.pool) # {}
    <3>1. PICK e \in ItemsOfPool(ItemsOf(known, Vpc), Wanted.pool) :
              /\ cidr' = [cidr EXCEPT ![Wanted.pool] = e.range]
              /\ j' = j + 1 /\ UNCHANGED <<pc, used, candidate>>
      BY <1>4, <2>1 DEF FindCidr
    <3>2. e \in ItemsOf(vpcTable, Vpc) /\ e.range \in Ranges
      BY <1>t, TablesType DEF TypeOK, ItemsOfPool, ItemsOf
    <3>3. cidr' \in [Pools -> Ranges \cup {NoRange}]
      BY <2>h, <3>1, <3>2
    <3>4. Locals'
      BY <1>t, <2>h, <2>c, <3>1, <3>3 DEF Locals
    <3>5. NewVpcItems' /\ NewSubnetItems'
      BY <1>t, <2>h, <2>c, <3>1 DEF NewVpcItems, NewSubnetItems
    <3>6. \A p \in Pools : cidr'[p] = IF p = Wanted.pool THEN e.range ELSE cidr[p]
      BY <2>h, <3>1
    <3>7. Searching' /\ SearchingSubnet'
      BY <1>t, <2>h, <2>c, <3>1, <3>2, <3>6 DEF Searching, SearchingSubnet, ItemsOf
    <3> QED BY <3>4, <3>5, <3>7 DEF Work
  <2>2. CASE ItemsOfPool(ItemsOf(known, Vpc), Wanted.pool) = {}
    <3>1. /\ candidate' = [first |-> PoolRange[Wanted.pool].first, size |-> Wanted.size]
          /\ Wanted.size <= PoolRange[Wanted.pool].size
          /\ used' = {e.range : e \in ItemsOfPool(known, Wanted.pool)}
          /\ pc' = "search" /\ UNCHANGED <<j, cidr>>
      BY <1>4, <2>2 DEF FindCidr
    <3>2. PoolRange[Wanted.pool] \in Ranges
      BY <2>w, Constants
    <3>3. candidate' \in Ranges /\ FirstFree(candidate', PoolRange[Wanted.pool], used')
      BY <2>w, <3>1, <3>2, StartOfSearch, StartIsFirstFree
    <3>4. \A e \in ItemsOf(vpcTable, Vpc) : e.pool # Wanted.pool
      <4>1. ASSUME NEW e \in ItemsOf(vpcTable, Vpc), e.pool = Wanted.pool
            PROVE  FALSE
        <5>1. e \notin known
          BY <2>2, <4>1 DEF ItemsOfPool, ItemsOf
        <5>2. PICK i \in DOMAIN VpcCidrs[Vpc] : i < j /\ e.pool = VpcCidrs[Vpc][i].pool
          BY <1>t, <2>c, <5>1 DEF NewVpcItems, ItemsOf
        <5>3. i = j
          BY <2>h, <4>1, <5>2, OncePerVpc, Zenon DEF Wanted
        <5> QED BY <2>h, <5>2, <5>3
      <4> QED BY <4>1
    <3>5. Wanted' = Wanted
      BY <2>h, <3>1 DEF Wanted
    <3>6. used' \subseteq Ranges
      BY <1>t, <3>1, TablesType DEF TypeOK, ItemsOfPool
    <3>7. Locals' /\ NewVpcItems' /\ NewSubnetItems'
      BY <1>t, <2>h, <2>c, <3>1, <3>6 DEF Locals, NewVpcItems, NewSubnetItems
    <3>8. Searching'
      <4>1. IsCandidate(Wanted.size, PoolRange[Wanted.pool])'
        <5>1. First(PoolRange[Wanted.pool]) <= First(candidate')
          BY <3>1, <3>2, RangeType DEF First
        <5>2. candidate'.size = Wanted.size
          BY <3>1
        <5> QED BY <3>1, <3>3, <3>5, <5>1, <5>2 DEF IsCandidate, First
      <4>2. FirstFree(candidate, PoolRange[Wanted.pool], used)'
        BY <3>3, <3>5 DEF FirstFree
      <4>3. \A e \in ItemsOf(vpcTable, Vpc)' : e.pool # Wanted'.pool
        BY <2>h, <2>c, <3>4, <3>5 DEF ItemsOf
      <4>4. used' = {e.range : e \in ItemsOfPool(known, Wanted.pool)'}
        BY <2>c, <3>1, <3>5 DEF ItemsOfPool
      <4> QED BY <2>h, <3>1, <4>1, <4>2, <4>3, <4>4 DEF Searching
    <3>9. SearchingSubnet'
      BY <1>t, <2>h, <2>c, <3>1 DEF SearchingSubnet, ItemsOf
    <3> QED BY <3>7, <3>8, <3>9 DEF Work
  <2> QED BY <2>1, <2>2
<1>5. CASE TryNextRange
  <2>1. /\ pc \in {"search", "searchSubnet"} /\ \E b \in used : Meets(b, candidate)
        /\ candidate' = NextRange(candidate)
        /\ UNCHANGED <<vpcTable, subnetTable, pc, todo, known, knownSubnets, j, cidr, used, left>>
    BY <1>5 DEF TryNextRange, tables
  <2>2. Vpc' = Vpc /\ Wanted' = Wanted /\ WantedSubnet' = WantedSubnet
    BY <2>1 DEF Vpc, Wanted, WantedSubnet
  <2>h. Vpc \in Vpcs /\ used \subseteq Ranges /\ cidr \in [Pools -> Ranges \cup {NoRange}]
    BY <1>t, <2>1, AtHand DEF Locals
  <2>3. Locals' /\ NewVpcItems' /\ NewSubnetItems'
    BY <1>t, <2>1, <2>2 DEF Locals, NewVpcItems, NewSubnetItems, ItemsOf
  <2>4. ASSUME NEW size, NEW whole \in Ranges, IsCandidate(size, whole)
        PROVE  /\ candidate' \in Ranges /\ candidate'.size = size /\ size <= whole.size
               /\ First(whole) <= First(candidate')
    <3>1. /\ candidate \in Ranges /\ candidate.size = size /\ size <= whole.size
          /\ First(whole) <= First(candidate)
      BY <2>4 DEF IsCandidate
    <3>2. candidate'.first = candidate.first + candidate.size
      BY <2>1, <3>1, NextRangeType
    <3>3. /\ candidate.first \in Nat /\ candidate.size \in Nat
          /\ whole.first \in Nat
      BY <3>1, RangeType
    <3> QED BY <2>1, <3>1, <3>2, <3>3, NextRangeType DEF First
  <2>5. Searching'
    <3>1. SUFFICES ASSUME pc = "search"
                   PROVE  Searching'
      BY <2>1 DEF Searching
    <3>2. /\ j \in DOMAIN VpcCidrs[Vpc]
          /\ IsCandidate(Wanted.size, PoolRange[Wanted.pool])
          /\ used = {e.range : e \in ItemsOfPool(known, Wanted.pool)}
          /\ \A e \in ItemsOf(vpcTable, Vpc) : e.pool # Wanted.pool
          /\ FirstFree(candidate, PoolRange[Wanted.pool], used)
      BY <1>t, <3>1 DEF Searching
    <3>3. PoolRange[Wanted.pool] \in Ranges
      <4>1. Wanted.pool \in Pools
        BY <2>h, <3>2, Constants, Zenon DEF Wanted
      <4> QED BY <4>1, Constants
    <3>4. FirstFree(candidate', PoolRange[Wanted.pool], used)
      BY <2>1, <2>h, <3>2, <3>3, NextIsFirstFree DEF IsCandidate
    <3>5. IsCandidate(Wanted.size, PoolRange[Wanted.pool])'
      BY <2>2, <2>4, <3>2, <3>3 DEF IsCandidate, First
    <3>6. FirstFree(candidate, PoolRange[Wanted.pool], used)'
      BY <2>1, <2>2, <3>4 DEF FirstFree
    <3>7. used' = {e.range : e \in ItemsOfPool(known, Wanted.pool)'}
      BY <2>1, <2>2, <3>2 DEF ItemsOfPool
    <3>8. \A e \in ItemsOf(vpcTable, Vpc)' : e.pool # Wanted'.pool
      BY <2>1, <2>2, <3>2 DEF ItemsOf
    <3> QED BY <2>1, <2>2, <3>2, <3>5, <3>6, <3>7, <3>8 DEF Searching
  <2>6. SearchingSubnet'
    <3>1. ASSUME pc = "searchSubnet"
          PROVE  IsCandidate(WantedSubnet.size, cidr[WantedSubnet.pool])'
      <4>1. /\ j \in DOMAIN VpcSubnets[Vpc] /\ cidr[WantedSubnet.pool] # NoRange
            /\ IsCandidate(WantedSubnet.size, cidr[WantedSubnet.pool])
        BY <1>t, <3>1 DEF SearchingSubnet
      <4>2. WantedSubnet.pool \in Pools
        BY <2>h, <4>1, Constants, Zenon DEF WantedSubnet
      <4>3. cidr[WantedSubnet.pool] \in Ranges
        BY <2>h, <4>1, <4>2
      <4> QED BY <2>1, <2>2, <2>4, <4>1, <4>3 DEF IsCandidate, First
    <3> QED BY <1>t, <2>1, <2>2, <3>1 DEF SearchingSubnet, ItemsOf
  <2> QED BY <2>3, <2>5, <2>6 DEF Work
<1>6. CASE AssignCidr
  <2> DEFINE new == [key |-> Vpc, pool |-> Wanted.pool, range |-> candidate, order |-> 0]
  <2>1. /\ pc = "search" /\ pc' = "cidr" /\ j' = j + 1 /\ used' = {}
        /\ cidr' = [cidr EXCEPT ![Wanted.pool] = candidate]
        /\ UNCHANGED <<subnetTable, todo, known, knownSubnets>>
        /\ vpcTable' = vpcTable \cup {new}
    BY <1>6 DEF AssignCidr
  <2>h. /\ Vpc \in Vpcs /\ j \in DOMAIN VpcCidrs[Vpc] /\ Vpc' = Vpc
        /\ cidr \in [Pools -> Ranges \cup {NoRange}] /\ candidate \in Ranges
        /\ j \in Nat /\ \A i \in DOMAIN VpcCidrs[Vpc] : i \in Nat
    BY <1>t, <2>1, AtHand DEF Locals, Vpc, TypeOK, Searching, IsCandidate
  <2>w. Wanted.pool \in Pools
    BY <2>h, Constants, Zenon DEF Wanted
  <2>2. new.key = Vpc /\ new.pool = VpcCidrs[Vpc][j].pool /\ new.range = candidate
    BY DEF Wanted
  <2> HIDE DEF new
  <2>3. cidr' \in [Pools -> Ranges \cup {NoRange}]
    BY <2>1, <2>h, <2>w
  <2>4. Locals'
    BY <1>t, <2>1, <2>h, <2>3 DEF Locals
  <2>5. NewVpcItems'
    <3>1. ASSUME NEW e \in vpcTable' \ known
          PROVE  /\ e.key = Vpc
                 /\ \E i \in DOMAIN VpcCidrs[Vpc] : i < j + 1 /\ e.pool = VpcCidrs[Vpc][i].pool
      <4>1. CASE e \in vpcTable
        BY <1>t, <2>1, <2>h, <3>1, <4>1 DEF NewVpcItems
      <4>2. CASE e = new
        BY <2>2, <2>h, <4>2
      <4> QED BY <2>1, <3>1, <4>1, <4>2
    <3> QED BY <2>1, <2>h, <3>1 DEF NewVpcItems
  <2>6. NewSubnetItems'
    BY <1>t, <2>1, <2>h DEF NewSubnetItems
  <2>7. Searching' /\ SearchingSubnet'
    <3>1. \A p \in Pools : cidr'[p] = IF p = Wanted.pool THEN candidate ELSE cidr[p]
      BY <2>1, <2>h
    <3>2. ItemsOf(vpcTable, Vpc)' = ItemsOf(vpcTable, Vpc) \cup {new}
      BY <2>1, <2>2, <2>h DEF ItemsOf
    <3> QED BY <1>t, <2>1, <2>2, <2>h, <3>1, <3>2 DEF Searching, SearchingSubnet
  <2> QED BY <2>4, <2>5, <2>6, <2>7 DEF Work
<1>7. CASE CidrsDone
  <2>1. /\ pc = "cidr" /\ pc' = "subnet"
        /\ used' = {e.range : e \in {e \in knownSubnets : Site[e.key] = Site[Vpc]}}
        /\ UNCHANGED <<vpcTable, subnetTable, todo, known, knownSubnets, cidr>>
    BY <1>7 DEF CidrsDone, tables
  <2>h. Vpc \in Vpcs /\ Vpc' = Vpc /\ 1 \in DOMAIN todo /\ todo[1] = Vpc
    BY <1>t, <2>1, AtHand DEF Vpc
  <2>2. used' \subseteq Ranges
    BY <1>t, <2>1, TablesType DEF TypeOK
  <2>3. Locals' /\ NewVpcItems'
    BY <1>t, <2>1, <2>2, <2>h DEF Locals, NewVpcItems
  <2>4. \A t \in subnetTable \ knownSubnets : \A i \in DOMAIN todo : t.key # todo[i]
    BY <1>t, <2>1 DEF NewSubnetItems
  <2>5. NewSubnetItems'
    BY <2>1, <2>4 DEF NewSubnetItems
  <2>6. \A t \in ItemsOf(subnetTable, Vpc) : t.range \in used'
    <3>1. \A t \in ItemsOf(subnetTable, Vpc) : t.key = Vpc /\ t \in knownSubnets
      BY <2>4, <2>h DEF ItemsOf
    <3> QED BY <2>1, <3>1
  <2>7. Searching' /\ SearchingSubnet'
    BY <1>t, <2>1, <2>6, <2>h DEF Searching, SearchingSubnet, ItemsOf
  <2> QED BY <2>3, <2>5, <2>7 DEF Work
<1>8. CASE FindSubnet
  <2>1. /\ pc = "subnet" /\ j <= Len(VpcSubnets[Vpc]) /\ cidr[WantedSubnet.pool] # NoRange
        /\ UNCHANGED <<vpcTable, subnetTable, todo, known, knownSubnets, cidr, used>>
    BY <1>8 DEF FindSubnet, tables
  <2>h. /\ Vpc \in Vpcs /\ Vpc' = Vpc /\ 1 \in DOMAIN todo /\ todo[1] = Vpc
        /\ j \in Nat /\ j \in DOMAIN VpcSubnets[Vpc]
        /\ \A i \in DOMAIN VpcSubnets[Vpc] : i \in Nat
        /\ cidr \in [Pools -> Ranges \cup {NoRange}]
    BY <1>t, <2>1, AtHand DEF Vpc, TypeOK, Locals
  <2>w. WantedSubnet.pool \in Pools /\ WantedSubnet.size \in Sizes
    BY <2>h, Constants, Zenon DEF WantedSubnet
  <2>2. CASE OwnSubnet(Vpc, WantedSubnet.subnet) # {}
    <3>1. j' = j + 1 /\ pc' = pc
      BY <1>8, <2>2 DEF FindSubnet
    <3>2. Locals' /\ NewVpcItems' /\ NewSubnetItems'
      BY <1>t, <2>1, <2>h, <3>1 DEF Locals, NewVpcItems, NewSubnetItems
    <3>3. Searching' /\ SearchingSubnet'
      BY <1>t, <2>1, <2>h, <3>1 DEF Searching, SearchingSubnet, ItemsOf
    <3> QED BY <3>2, <3>3 DEF Work
  <2>3. CASE OwnSubnet(Vpc, WantedSubnet.subnet) = {}
    <3>1. /\ WantedSubnet.size <= cidr[WantedSubnet.pool].size
          /\ candidate' = [first |-> cidr[WantedSubnet.pool].first, size |-> WantedSubnet.size]
          /\ pc' = "searchSubnet" /\ j' = j
      BY <1>8, <2>3 DEF FindSubnet
    <3>2. Locals' /\ NewVpcItems' /\ NewSubnetItems'
      BY <1>t, <2>1, <2>h, <3>1 DEF Locals, NewVpcItems, NewSubnetItems
    <3>3. WantedSubnet' = WantedSubnet
      BY <2>h, <3>1 DEF WantedSubnet
    <3>4. \A t \in ItemsOf(subnetTable, Vpc) : t.subnet # WantedSubnet.subnet
      <4>1. ASSUME NEW t \in ItemsOf(subnetTable, Vpc), t.subnet = WantedSubnet.subnet
            PROVE  FALSE
        <5>1. t \in subnetTable \ knownSubnets /\ t.key = todo[1]
          BY <2>3, <2>h, <4>1 DEF OwnSubnet, ItemsOf
        <5>2. PICK k \in DOMAIN VpcSubnets[Vpc] : k < j /\ t.subnet = VpcSubnets[Vpc][k].subnet
          BY <1>t, <2>1, <2>h, <5>1 DEF NewSubnetItems
        <5>3. k = j
          BY <2>h, <4>1, <5>2, OncePerVpc, Zenon DEF WantedSubnet
        <5> QED BY <2>h, <5>2, <5>3
      <4> QED BY <4>1
    <3>5. IsCandidate(WantedSubnet.size, cidr[WantedSubnet.pool])'
      <4>1. cidr[WantedSubnet.pool] \in Ranges
        BY <2>1, <2>h, <2>w
      <4>2. candidate' \in Ranges
        BY <2>w, <3>1, <4>1, StartOfSearch
      <4>3. First(cidr[WantedSubnet.pool]) <= First(candidate')
        BY <3>1, <4>1, RangeType DEF First
      <4> QED BY <2>1, <3>1, <3>3, <4>2, <4>3 DEF IsCandidate, First
    <3>6. \A t \in ItemsOf(subnetTable, Vpc)' : t.subnet # WantedSubnet'.subnet
      BY <2>1, <2>h, <3>3, <3>4 DEF ItemsOf
    <3>7. Searching' /\ SearchingSubnet'
      BY <1>t, <2>1, <2>h, <3>1, <3>3, <3>5, <3>6 DEF Searching, SearchingSubnet, ItemsOf
    <3> QED BY <3>2, <3>7 DEF Work
  <2> QED BY <2>2, <2>3
<1>9. CASE AssignSubnet
  <2> DEFINE new == [key |-> Vpc, subnet |-> WantedSubnet.subnet, range |-> candidate]
  <2>1. /\ pc = "searchSubnet" /\ pc' = "subnet" /\ j' = j + 1
        /\ used' = used \cup {candidate} /\ subnetTable' = subnetTable \cup {new}
        /\ UNCHANGED <<vpcTable, todo, known, knownSubnets, cidr>>
    BY <1>9 DEF AssignSubnet
  <2>h. /\ Vpc \in Vpcs /\ Vpc' = Vpc /\ 1 \in DOMAIN todo /\ todo[1] = Vpc
        /\ j \in Nat /\ j \in DOMAIN VpcSubnets[Vpc] /\ candidate \in Ranges
        /\ \A i \in DOMAIN VpcSubnets[Vpc] : i \in Nat
        /\ \A i \in DOMAIN todo : todo[i] = todo[1] => i = 1
    BY <1>t, <2>1, AtHand DEF Vpc, TypeOK, Locals, SearchingSubnet, IsCandidate
  <2>2. new.key = Vpc /\ new.subnet = VpcSubnets[Vpc][j].subnet /\ new.range = candidate
    BY DEF WantedSubnet
  <2> HIDE DEF new
  <2>3. Locals' /\ NewVpcItems'
    BY <1>t, <2>1, <2>h DEF Locals, NewVpcItems
  <2>4. NewSubnetItems'
    <3>1. ASSUME NEW t \in subnetTable' \ knownSubnets, NEW i \in DOMAIN todo, t.key = todo[i]
          PROVE  i = 1 /\ \E k \in DOMAIN VpcSubnets[Vpc] :
                              k < j + 1 /\ t.subnet = VpcSubnets[Vpc][k].subnet
      <4>1. CASE t \in subnetTable
        BY <1>t, <2>1, <2>h, <3>1, <4>1 DEF NewSubnetItems
      <4>2. CASE t = new
        BY <2>2, <2>h, <3>1, <4>2
      <4> QED BY <2>1, <3>1, <4>1, <4>2
    <3> QED BY <2>1, <2>h, <3>1 DEF NewSubnetItems
  <2>5. \A t \in ItemsOf(subnetTable, Vpc)' : t.range \in used'
    BY <1>t, <2>1, <2>2, <2>h DEF SearchingSubnet, ItemsOf
  <2>6. Searching' /\ SearchingSubnet'
    BY <1>t, <2>1, <2>h, <2>5 DEF Searching, SearchingSubnet, ItemsOf
  <2> QED BY <2>3, <2>4, <2>6 DEF Work
<1>10. CASE SubnetsDone
  <2>1. /\ pc \in {"subnet", "copySubnet"} /\ pc' = "next" /\ todo' = Tail(todo) /\ used' = {}
        /\ UNCHANGED <<subnetTable, knownSubnets>>
    BY <1>10 DEF SubnetsDone, VpcDone, tables
  <2>h. \A i \in DOMAIN Tail(todo) :
          i \in Int /\ i + 1 \in DOMAIN todo /\ i + 1 # 1 /\ Tail(todo)[i] = todo[i + 1]
    <3>1. Tail(todo) \in Seq(Vpcs)
      BY <2>1, AtHand
    <3>2. \A i \in DOMAIN Tail(todo) : i \in Int
      BY <3>1
    <3> QED BY <2>1, <3>2, AtHand
  <2>2. Locals'
    <3>1. ASSUME NEW i \in DOMAIN Tail(todo), NEW k \in DOMAIN Tail(todo),
                 Tail(todo)[i] = Tail(todo)[k]
          PROVE  i = k
      <4>1. i + 1 = k + 1
        BY <1>t, <2>1, <2>h, <3>1 DEF Locals
      <4> QED BY <2>h, <4>1
    <3> QED BY <2>1, <3>1 DEF Locals
  <2>3. NewSubnetItems'
    BY <1>t, <2>1, <2>h DEF NewSubnetItems
  <2> QED BY <2>1, <2>2, <2>3 DEF Work, NewVpcItems, Searching, SearchingSubnet
<1>11. CASE CopyItem
  <2>1. PICK e \in left : /\ vpcTable' = vpcTable \cup {[e EXCEPT !.key = Vpc]}
                          /\ left' = left \ {e}
    BY <1>11 DEF CopyItem
  <2>2. /\ pc = "copy" /\ pc' = "copy"
        /\ UNCHANGED <<subnetTable, todo, known, knownSubnets, used>>
    BY <1>11 DEF CopyItem
  <2>3. Locals' /\ NewSubnetItems'
    BY <1>t, <2>1, <2>2 DEF Locals, NewSubnetItems, Vpc, ItemsOf
  <2> QED BY <2>2, <2>3 DEF Work, NewVpcItems, Searching, SearchingSubnet
<1>12. CASE CopiesDone
  <2>1. /\ pc = "copy" /\ pc' = "copySubnet"
        /\ UNCHANGED <<subnetTable, todo, known, knownSubnets, used>>
    BY <1>12 DEF CopiesDone, tables, job
  <2>2. Locals' /\ NewSubnetItems'
    BY <1>t, <2>1 DEF Locals, NewSubnetItems, Vpc
  <2> QED BY <2>1, <2>2 DEF Work, NewVpcItems, Searching, SearchingSubnet
<1>13. CASE CopySubnet
  <2>1. /\ pc = "copySubnet" /\ pc' = "copySubnet" /\ j' = j + 1 /\ j <= Len(VpcSubnets[Vpc])
        /\ UNCHANGED <<todo, known, knownSubnets, used>>
    BY <1>13 DEF CopySubnet
  <2>h. /\ Vpc \in Vpcs /\ Vpc' = Vpc /\ 1 \in DOMAIN todo /\ todo[1] = Vpc
        /\ j \in Nat /\ j \in DOMAIN VpcSubnets[Vpc]
        /\ \A i \in DOMAIN VpcSubnets[Vpc] : i \in Nat
        /\ \A i \in DOMAIN todo : todo[i] = todo[1] => i = 1
    BY <1>t, <2>1, AtHand DEF Vpc, TypeOK, Locals
  <2>2. Locals'
    BY <1>t, <2>1, <2>h DEF Locals
  <2>3. \A t \in subnetTable' \ subnetTable : t.key = Vpc /\ t.subnet = WantedSubnet.subnet
    <3>1. CASE subnetTable' = subnetTable
      BY <3>1
    <3>2. CASE subnetTable' # subnetTable
      <4>1. PICK e \in OwnSubnet(Unit[Vpc], WantedSubnet.subnet) :
                subnetTable' = subnetTable \cup {[e EXCEPT !.key = Vpc]}
        BY <1>13, <3>2 DEF CopySubnet
      <4>2. e \in SubnetItems /\ e.subnet = WantedSubnet.subnet
        BY <1>t, <4>1 DEF TypeOK, OwnSubnet, ItemsOf
      <4>3. [e EXCEPT !.key = Vpc].key = Vpc /\ [e EXCEPT !.key = Vpc].subnet = e.subnet
        BY <4>2 DEF SubnetItems
      <4> QED BY <4>1, <4>2, <4>3
    <3> QED BY <3>1, <3>2
  <2>4. NewSubnetItems'
    <3>1. ASSUME NEW t \in subnetTable' \ knownSubnets, NEW i \in DOMAIN todo, t.key = todo[i]
          PROVE  i = 1 /\ \E k \in DOMAIN VpcSubnets[Vpc] :
                              k < j + 1 /\ t.subnet = VpcSubnets[Vpc][k].subnet
      <4>1. CASE t \in subnetTable
        BY <1>t, <2>1, <2>h, <3>1, <4>1 DEF NewSubnetItems
      <4>2. CASE t \notin subnetTable
        BY <2>3, <2>h, <3>1, <4>2 DEF WantedSubnet
      <4> QED BY <4>1, <4>2
    <3> QED BY <2>1, <2>h, <3>1 DEF NewSubnetItems
  <2> QED BY <2>1, <2>2, <2>4 DEF Work, NewVpcItems, Searching, SearchingSubnet
<1>14. CASE \/ AssignmentDone \/ CompareConfigurations \/ ComparisonRejects \/ PhaseDone
            \/ StoreCommitId \/ RecordIds \/ RecordDone
            \/ \E v \in Vpcs : DeployVpc(v) \/ StoreOutputs(v)
  <2>1. pc' \in {"compare", "deploy", "store", "record", "done"} /\ used' = used
    BY <1>14 DEF AssignmentDone, CompareConfigurations, ComparisonRejects, PhaseDone,
                 StoreCommitId, RecordIds, RecordDone, DeployVpc, StoreOutputs, job
  <2> QED BY <1>t, <2>1 DEF Work, Locals, NewVpcItems, NewSubnetItems, Searching,
                            SearchingSubnet
<1>15. CASE ExecutionEnds \/ \E v \in Vpcs : UserRemoves(v)
  <2>1. pc' = "idle" /\ known' = {} /\ knownSubnets' = {} /\ left' = {} /\ used' \subseteq Ranges
    BY <1>t, <1>15 DEF ExecutionEnds, UserRemoves, Locals, job
  <2> QED BY <2>1 DEF Work, Locals, NewVpcItems, NewSubnetItems, Searching, SearchingSubnet
<1>16. ASSUME NEW u \in Units, UserEnters(u)
       PROVE  Work'
  <2>1. pc' = "idle" /\ known' = {} /\ knownSubnets' = {} /\ left' = {} /\ used' \subseteq Ranges
    BY <1>t, <1>16 DEF UserEnters, Locals, job
  <2> QED BY <2>1 DEF Work, Locals, NewVpcItems, NewSubnetItems, Searching, SearchingSubnet
<1>17. CASE UNCHANGED vars
  <2>1. /\ UNCHANGED <<vpcTable, subnetTable, pc, todo, known, knownSubnets, j, cidr, used,
                       candidate, left>>
    BY <1>17 DEF vars, tables, job
  <2>2. Vpc' = Vpc
    BY <2>1 DEF Vpc
  <2>3. Locals' /\ NewVpcItems' /\ NewSubnetItems'
    BY <1>t, <2>1, <2>2 DEF Locals, NewVpcItems, NewSubnetItems, ItemsOf
  <2>4. Searching' /\ SearchingSubnet'
    BY <1>t, <2>1, <2>2 DEF Searching, SearchingSubnet, ItemsOf, ItemsOfPool, IsCandidate,
                            FirstFree, Wanted, WantedSubnet
  <2> QED BY <2>3, <2>4 DEF Work
<1> QED
  BY <1>1, <1>2, <1>3, <1>4, <1>5, <1>6, <1>7, <1>8, <1>9, <1>10, <1>11, <1>12, <1>13, <1>14,
     <1>15, <1>16, <1>17 DEF Next

LEMMA StepNext ==
    ASSUME StepInv, [Next]_vars
    PROVE  StepInv'
BY TypeNext, WorkNext DEF StepInv, Work

-----------------------------------------------------------------------------
(* What is in the tables *)

\* Most steps leave the tables alone, or only take from them.
LEMMA Writers ==
    ASSUME StepInv, [Next]_vars
    PROVE  \/ UNCHANGED <<vpcTable, subnetTable>>
           \/ AssignCidr \/ AssignSubnet \/ CopyItem \/ CopySubnet
           \/ \E u \in Units : UserEnters(u)
           \/ \E v \in Vpcs : UserRemoves(v)
BY DEF Next, vars, tables, job, history, StartExecution, PutPool, NextVpc, FindCidr,
       TryNextRange, CidrsDone, FindSubnet, SubnetsDone, CopiesDone, AssignmentDone,
       CompareConfigurations, ComparisonRejects, DeployVpc, PhaseDone, StoreOutputs,
       StoreCommitId, RecordIds, RecordDone, ExecutionEnds

\* The item a dynamic VPC gets: no other of its pool has an address of it.
LEMMA NewRange ==
    ASSUME StepInv, AssignCidr
    PROVE  /\ vpcTable' = vpcTable \cup {[key |-> Vpc, pool |-> Wanted.pool,
                                          range |-> candidate, order |-> 0]}
           /\ Contains(PoolRange[Wanted.pool], candidate)
           /\ \A e \in vpcTable : e.pool = Wanted.pool =>
                e.key # Vpc /\ Disjoint(e.range, candidate) /\ Disjoint(candidate, e.range)
<1>1. /\ pc = "search" /\ \A b \in used : ~ Meets(b, candidate)
      /\ Fits(candidate, PoolRange[Wanted.pool])
      /\ vpcTable' = vpcTable \cup {[key |-> Vpc, pool |-> Wanted.pool,
                                     range |-> candidate, order |-> 0]}
  BY DEF AssignCidr
<1>2. /\ j \in DOMAIN VpcCidrs[Vpc]
      /\ IsCandidate(Wanted.size, PoolRange[Wanted.pool])
      /\ used = {e.range : e \in ItemsOfPool(known, Wanted.pool)}
      /\ \A e \in ItemsOf(vpcTable, Vpc) : e.pool # Wanted.pool
      /\ TypeOK
  BY <1>1 DEF StepInv, Searching
<1>3. PoolRange[Wanted.pool] \in Ranges
  <2>1. Vpc \in Vpcs
    BY <1>1, AtHand DEF Dynamic
  <2>2. Wanted.pool \in Pools
    BY <1>2, <2>1, Constants, Zenon DEF Wanted
  <2> QED BY <2>2, Constants
<1>4. Contains(PoolRange[Wanted.pool], candidate)
  BY <1>1, <1>2, <1>3, FittingIsInside DEF IsCandidate
<1>5. ASSUME NEW e \in vpcTable, e.pool = Wanted.pool
      PROVE  e.key # Vpc /\ Disjoint(e.range, candidate) /\ Disjoint(candidate, e.range)
  <2>1. e.key # Vpc
    BY <1>2, <1>5 DEF ItemsOf
  <2>2. e \in known
    BY <1>1, <2>1 DEF StepInv, NewVpcItems
  <2>3. e.range \in used
    BY <1>2, <1>5, <2>2 DEF ItemsOfPool
  <2>4. e.range \in Ranges /\ candidate \in Ranges
    BY <1>2, TablesType DEF IsCandidate
  <2> QED BY <1>1, <2>1, <2>3, <2>4, ApartUnlessMeets
<1> QED BY <1>1, <1>4, <1>5

\* The item a subnet gets: within the VPC, apart from the VPC's other subnets.
LEMMA NewSubnetRange ==
    ASSUME StepInv, AssignSubnet
    PROVE  /\ subnetTable' = subnetTable \cup {[key |-> Vpc, subnet |-> WantedSubnet.subnet,
                                                range |-> candidate]}
           /\ \E e \in ItemsOf(vpcTable, Vpc) : Contains(e.range, candidate)
           /\ \A t \in ItemsOf(subnetTable, Vpc) :
                /\ t.subnet # WantedSubnet.subnet
                /\ Disjoint(t.range, candidate) /\ Disjoint(candidate, t.range)
<1>1. /\ pc = "searchSubnet" /\ \A b \in used : ~ Meets(b, candidate)
      /\ Fits(candidate, cidr[WantedSubnet.pool])
      /\ subnetTable' = subnetTable \cup {[key |-> Vpc, subnet |-> WantedSubnet.subnet,
                                           range |-> candidate]}
  BY DEF AssignSubnet
<1>2. /\ j \in DOMAIN VpcSubnets[Vpc] /\ cidr[WantedSubnet.pool] # NoRange
      /\ IsCandidate(WantedSubnet.size, cidr[WantedSubnet.pool])
      /\ \A t \in ItemsOf(subnetTable, Vpc) : t.subnet # WantedSubnet.subnet
      /\ \A t \in ItemsOf(subnetTable, Vpc) : t.range \in used
      /\ \A p \in Pools : cidr[p] # NoRange =>
           \E e \in ItemsOf(vpcTable, Vpc) : e.range = cidr[p]
      /\ TypeOK
  BY <1>1 DEF StepInv, SearchingSubnet, Dynamic
<1>3. WantedSubnet.pool \in Pools
  <2>1. Vpc \in Vpcs
    BY <1>1, AtHand DEF Dynamic
  <2> QED BY <1>2, <2>1, Constants, Zenon DEF WantedSubnet
<1>4. PICK e \in ItemsOf(vpcTable, Vpc) : e.range = cidr[WantedSubnet.pool]
  BY <1>2, <1>3
<1>5. e.range \in Ranges
  BY <1>2, TablesType DEF ItemsOf
<1>6. Contains(e.range, candidate)
  BY <1>1, <1>2, <1>4, <1>5, FittingIsInside DEF IsCandidate
<1>7. \A t \in ItemsOf(subnetTable, Vpc) : t.range \in Ranges /\ ~ Meets(t.range, candidate)
  BY <1>1, <1>2, TablesType DEF ItemsOf
<1> QED BY <1>1, <1>2, <1>6, <1>7, ApartUnlessMeets DEF IsCandidate

\* A copy for a VPC that looks its ranges up is no item of a dynamic one.
LEMMA NewCopy ==
    ASSUME StepInv, CopyItem
    PROVE  \E e \in vpcTable :
             /\ vpcTable' = vpcTable \cup {[e EXCEPT !.key = Vpc]}
             /\ e.key \notin Vpcs
             /\ [e EXCEPT !.key = Vpc].key = Vpc
             /\ [e EXCEPT !.key = Vpc].pool = e.pool
             /\ [e EXCEPT !.key = Vpc].range = e.range
             /\ Unit[Vpc] # NoUnit
<1>1. PICK e \in left : vpcTable' = vpcTable \cup {[e EXCEPT !.key = Vpc]}
  BY DEF CopyItem
<1>2. pc = "copy" /\ TypeOK
  BY DEF CopyItem, StepInv
<1>3. e \in vpcTable /\ e.key = Unit[Vpc] /\ Unit[Vpc] # NoUnit
  BY <1>2 DEF StepInv, Locals, Copying, ItemsOf, TypeOK
<1>4. Vpc \in Vpcs
  BY <1>2, AtHand DEF Copying
<1>5. e.key \in Units /\ e.key \notin Vpcs
  BY <1>3, <1>4, Constants
<1>6. e \in VpcItems
  BY <1>2, <1>3 DEF TypeOK
<1>7. /\ [e EXCEPT !.key = Vpc].key = Vpc
      /\ [e EXCEPT !.key = Vpc].pool = e.pool
      /\ [e EXCEPT !.key = Vpc].range = e.range
  BY <1>6 DEF VpcItems
<1> QED BY <1>1, <1>3, <1>5, <1>7

\* A copied subnet is new to its VPC.
LEMMA NewSubnetCopy ==
    ASSUME StepInv, CopySubnet
    PROVE  \A t \in subnetTable' \ subnetTable :
             /\ t.key = Vpc /\ Unit[Vpc] # NoUnit
             /\ \A s \in subnetTable' : s.key = t.key /\ s.subnet = t.subnet => s = t
<1>1. /\ pc = "copySubnet" /\ TypeOK /\ NewSubnetItems /\ Unit[Vpc] # NoUnit
      /\ j <= Len(VpcSubnets[Vpc])
  BY DEF CopySubnet, StepInv, Locals, Copying
<1>h. /\ Vpc \in Vpcs /\ 1 \in DOMAIN todo /\ todo[1] = Vpc
      /\ j \in Nat /\ j \in DOMAIN VpcSubnets[Vpc]
      /\ \A i \in DOMAIN VpcSubnets[Vpc] : i \in Nat
  BY <1>1, AtHand DEF Copying, TypeOK
<1>2. SUFFICES ASSUME subnetTable' # subnetTable
               PROVE  \A t \in subnetTable' \ subnetTable :
                        /\ t.key = Vpc
                        /\ \A s \in subnetTable' :
                             s.key = t.key /\ s.subnet = t.subnet => s = t
  BY <1>1
<1>3. PICK e \in OwnSubnet(Unit[Vpc], WantedSubnet.subnet) :
          subnetTable' = subnetTable \cup {[e EXCEPT !.key = Vpc]}
  BY <1>2 DEF CopySubnet
<1>4. OwnSubnet(Vpc, WantedSubnet.subnet) = {}
  BY <1>2 DEF CopySubnet
<1>5. e \in SubnetItems /\ e.subnet = WantedSubnet.subnet
  BY <1>1, <1>3 DEF TypeOK, OwnSubnet, ItemsOf
<1>6. [e EXCEPT !.key = Vpc].key = Vpc /\ [e EXCEPT !.key = Vpc].subnet = WantedSubnet.subnet
  BY <1>5 DEF SubnetItems
<1>7. ASSUME NEW s \in subnetTable, s.key = Vpc, s.subnet = WantedSubnet.subnet
      PROVE  FALSE
  <2>1. s \in subnetTable \ knownSubnets
    BY <1>4, <1>7 DEF OwnSubnet, ItemsOf
  <2>2. PICK k \in DOMAIN VpcSubnets[Vpc] : k < j /\ s.subnet = VpcSubnets[Vpc][k].subnet
    BY <1>1, <1>h, <1>7, <2>1 DEF NewSubnetItems, Assigning, Copying
  <2>3. k = j
    BY <1>h, <1>7, <2>2, OncePerVpc, Zenon DEF WantedSubnet
  <2> QED BY <1>h, <2>2, <2>3
<1> QED BY <1>3, <1>6, <1>7

LEMMA RangesSoundNext ==
    ASSUME StepInv, RangesSound, [Next]_vars
    PROVE  RangesSound'
<1>t. TypeOK /\ RangesDisjoint /\ RangesInPool /\ SubnetsInVpc
  BY DEF StepInv, RangesSound
<1> USE DEF RangesSound, DynamicItem
<1>1. CASE UNCHANGED <<vpcTable, subnetTable>>
  BY <1>1, <1>t DEF RangesDisjoint, RangesInPool, SubnetsInVpc, ItemsOf
<1>2. CASE AssignCidr
  <2> DEFINE new == [key |-> Vpc, pool |-> Wanted.pool, range |-> candidate, order |-> 0]
  <2>1. /\ vpcTable' = vpcTable \cup {new} /\ subnetTable' = subnetTable
        /\ new.key = Vpc /\ new.pool = Wanted.pool /\ new.range = candidate
        /\ Contains(PoolRange[new.pool], new.range)
        /\ \A e \in vpcTable : e.pool = new.pool =>
             Disjoint(e.range, new.range) /\ Disjoint(new.range, e.range)
    BY <1>2, NewRange DEF AssignCidr
  <2> HIDE DEF new
  <2>2. RangesDisjoint'
    BY <1>t, <2>1 DEF RangesDisjoint
  <2>3. RangesInPool' /\ SubnetsInVpc'
    BY <1>t, <2>1 DEF RangesInPool, SubnetsInVpc, ItemsOf
  <2> QED BY <2>2, <2>3
<1>3. CASE AssignSubnet
  <2> DEFINE new == [key |-> Vpc, subnet |-> WantedSubnet.subnet, range |-> candidate]
  <2>1. /\ subnetTable' = subnetTable \cup {new} /\ vpcTable' = vpcTable
        /\ new.key = Vpc /\ new.range = candidate
        /\ \E e \in ItemsOf(vpcTable, Vpc) : Contains(e.range, new.range)
        /\ \A t \in ItemsOf(subnetTable, Vpc) :
             Disjoint(t.range, new.range) /\ Disjoint(new.range, t.range)
    BY <1>3, NewSubnetRange DEF AssignSubnet
  <2> HIDE DEF new
  <2> QED BY <1>t, <2>1 DEF RangesDisjoint, RangesInPool, SubnetsInVpc, ItemsOf
<1>4. CASE CopyItem
  <2>1. PICK e \in vpcTable :
             /\ vpcTable' = vpcTable \cup {[e EXCEPT !.key = Vpc]}
             /\ e.key \notin Vpcs
             /\ [e EXCEPT !.key = Vpc].key = Vpc
             /\ [e EXCEPT !.key = Vpc].pool = e.pool
             /\ [e EXCEPT !.key = Vpc].range = e.range
             /\ Unit[Vpc] # NoUnit
    BY <1>4, NewCopy
  <2> DEFINE new == [e EXCEPT !.key = Vpc]
  <2>2. /\ vpcTable' = vpcTable \cup {new} /\ subnetTable' = subnetTable
        /\ new.pool = e.pool /\ new.range = e.range /\ Unit[new.key] # NoUnit
    BY <1>4, <2>1 DEF CopyItem
  <2> HIDE DEF new
  <2>3. RangesDisjoint'
    BY <1>t, <2>1, <2>2 DEF RangesDisjoint
  <2>4. RangesInPool' /\ SubnetsInVpc'
    BY <1>t, <2>2 DEF RangesInPool, SubnetsInVpc, ItemsOf
  <2> QED BY <2>3, <2>4
<1>5. CASE CopySubnet
  <2>1. /\ vpcTable' = vpcTable /\ subnetTable \subseteq subnetTable'
        /\ \A t \in subnetTable' \ subnetTable : Unit[t.key] # NoUnit
    <3>1. vpcTable' = vpcTable /\ subnetTable \subseteq subnetTable'
      BY <1>5 DEF CopySubnet
    <3> QED BY <1>5, <3>1, NewSubnetCopy
  <2> QED BY <1>t, <2>1 DEF RangesDisjoint, RangesInPool, SubnetsInVpc, ItemsOf
<1>6. ASSUME NEW u \in Units, UserEnters(u)
      PROVE  RangesSound'
  <2>1. /\ vpcTable' = vpcTable \cup Entered[u]
        /\ subnetTable' = subnetTable \cup EnteredSubnets[u]
        /\ \A e \in Entered[u], f \in vpcTable : e.pool = f.pool => Disjoint(e.range, f.range)
    BY <1>6 DEF UserEnters
  <2>2. /\ \A e \in Entered[u] : e.key = u /\ e.key \notin Vpcs
        /\ \A e \in EnteredSubnets[u] : e.key = u /\ e.key \notin Vpcs
    BY Constants
  <2>3. RangesDisjoint'
    BY <1>t, <2>1, <2>2 DEF RangesDisjoint, Disjoint
  <2>4. RangesInPool' /\ SubnetsInVpc'
    BY <1>t, <2>1, <2>2 DEF RangesInPool, SubnetsInVpc, ItemsOf
  <2> QED BY <2>3, <2>4
<1>7. ASSUME NEW v \in Vpcs, UserRemoves(v)
      PROVE  RangesSound'
  <2>1. /\ vpcTable' = {e \in vpcTable : e.key # v}
        /\ subnetTable' = {e \in subnetTable : e.key # v}
    BY <1>7 DEF UserRemoves, ItemsOf
  <2> QED BY <1>t, <2>1 DEF RangesDisjoint, RangesInPool, SubnetsInVpc, ItemsOf
<1> QED BY <1>1, <1>2, <1>3, <1>4, <1>5, <1>6, <1>7, Writers

LEMMA AssignedOnceNext ==
    ASSUME StepInv, AssignedOnce, [Next]_vars
    PROVE  AssignedOnce'
<1>t. TypeOK /\ AssignedOnce
  BY DEF StepInv
<1> USE DEF DynamicItem
<1>1. CASE UNCHANGED <<vpcTable, subnetTable>>
  BY <1>1, <1>t DEF AssignedOnce
<1>2. CASE AssignCidr
  <2> DEFINE new == [key |-> Vpc, pool |-> Wanted.pool, range |-> candidate, order |-> 0]
  <2>1. /\ vpcTable' = vpcTable \cup {new} /\ subnetTable' = subnetTable
        /\ new.key = Vpc /\ new.pool = Wanted.pool
        /\ \A e \in vpcTable : e.pool = new.pool => e.key # new.key
    BY <1>2, NewRange DEF AssignCidr
  <2> HIDE DEF new
  <2> QED BY <1>t, <2>1 DEF AssignedOnce
<1>3. CASE AssignSubnet
  <2> DEFINE new == [key |-> Vpc, subnet |-> WantedSubnet.subnet, range |-> candidate]
  <2>1. /\ subnetTable' = subnetTable \cup {new} /\ vpcTable' = vpcTable
        /\ new.key = Vpc /\ new.subnet = WantedSubnet.subnet
        /\ \A t \in ItemsOf(subnetTable, Vpc) : t.subnet # new.subnet
    BY <1>3, NewSubnetRange DEF AssignSubnet
  <2> HIDE DEF new
  <2> QED BY <1>t, <2>1 DEF AssignedOnce, ItemsOf
<1>4. CASE CopyItem
  <2>1. PICK e \in vpcTable :
             /\ vpcTable' = vpcTable \cup {[e EXCEPT !.key = Vpc]}
             /\ [e EXCEPT !.key = Vpc].key = Vpc
             /\ Unit[Vpc] # NoUnit
    BY <1>4, NewCopy
  <2> DEFINE new == [e EXCEPT !.key = Vpc]
  <2>2. /\ vpcTable' = vpcTable \cup {new} /\ subnetTable' = subnetTable
        /\ Unit[new.key] # NoUnit
    BY <1>4, <2>1 DEF CopyItem
  <2> HIDE DEF new
  <2> QED BY <1>t, <2>2 DEF AssignedOnce
<1>5. CASE CopySubnet
  <2>1. /\ vpcTable' = vpcTable
        /\ \A t \in subnetTable' \ subnetTable : \A s \in subnetTable' :
             s.key = t.key /\ s.subnet = t.subnet => s = t
    BY <1>5, NewSubnetCopy DEF CopySubnet
  <2> QED BY <1>t, <2>1 DEF AssignedOnce
<1>6. ASSUME NEW u \in Units, UserEnters(u)
      PROVE  AssignedOnce'
  <2>1. /\ vpcTable' = vpcTable \cup Entered[u]
        /\ subnetTable' = subnetTable \cup EnteredSubnets[u]
    BY <1>6 DEF UserEnters
  <2>2. /\ \A e \in Entered[u] : e.key \notin Vpcs
        /\ \A e \in EnteredSubnets[u] : e.key \notin Vpcs
    BY Constants
  <2> QED BY <1>t, <2>1, <2>2 DEF AssignedOnce
<1>7. ASSUME NEW v \in Vpcs, UserRemoves(v)
      PROVE  AssignedOnce'
  <2>1. vpcTable' \subseteq vpcTable /\ subnetTable' \subseteq subnetTable
    BY <1>7 DEF UserRemoves
  <2> QED BY <1>t, <2>1 DEF AssignedOnce
<1> QED BY <1>1, <1>2, <1>3, <1>4, <1>5, <1>6, <1>7, Writers

-----------------------------------------------------------------------------
(* What is deployed *)

LEMMA ComparedNext ==
    ASSUME TypeOK, Compared, [Next]_vars
    PROVE  Compared'
<1> USE DEF Compared
<1>s. ASSUME UNCHANGED <<vpcTable, subnetTable, plan>>
      PROVE  PlanSet' = PlanSet /\ \A was, v : Moved(was, v)' <=> Moved(was, v)
  BY <1>s DEF PlanSet, Moved, Built, Primary, Assigned, ItemsOf, ItemsOfPool
<1>1. ASSUME NEW v \in Vpcs, DeployVpc(v)
      PROVE  Compared'
  <2>1. /\ pc = "deploy" /\ deployed' = [deployed EXCEPT ![v] = Built(v)]
        /\ UNCHANGED <<vpcTable, subnetTable, outputs, seen, plan, stored, override>>
    BY <1>1 DEF DeployVpc, tables, job
  <2>2. DOMAIN deployed' = Vpcs
    BY <2>1
  <2> QED BY <1>s, <2>1, <2>2 DEF Compares
<1>2. CASE CompareConfigurations
  <2>1. /\ UNCHANGED <<vpcTable, subnetTable, outputs, deployed, plan, stored, override>>
        /\ Compares => MovedOutputs = {}
        /\ seen' = outputs
    BY <1>2 DEF CompareConfigurations, tables, job
  <2>2. Compares => \A v \in PlanSet : ~ Moved(seen'[v], v)
    BY <2>1 DEF MovedOutputs
  <2> QED BY <1>s, <2>1, <2>2 DEF Compares
<1>3. CASE UNCHANGED vars
  <2>1. UNCHANGED <<vpcTable, subnetTable, deployed, outputs, seen, plan, pc, stored, override>>
    BY <1>3 DEF vars, tables, job, mode
  <2> QED BY <1>s, <2>1 DEF Compares
<1>4. ASSUME NEW v \in Vpcs, StoreOutputs(v)
      PROVE  Compared'
  <2>1. /\ outputs' = [outputs EXCEPT ![v] = deployed[v]] /\ pc' = pc
        /\ UNCHANGED <<vpcTable, subnetTable, deployed, seen, plan, stored, override>>
    BY <1>4 DEF StoreOutputs, tables, job
  <2>2. DOMAIN outputs' = Vpcs
    BY <2>1
  <2> QED BY <1>s, <2>1, <2>2 DEF Compares
<1>5. CASE pc' # "deploy" /\ UNCHANGED <<deployed, outputs>>
  BY <1>5
<1> QED
  <2>1. \/ \E v \in Vpcs : DeployVpc(v) \/ StoreOutputs(v)
        \/ CompareConfigurations
        \/ UNCHANGED vars
        \/ pc' # "deploy" /\ UNCHANGED <<deployed, outputs>>
    BY DEF Next, tables, job, history, mode, StartExecution, PutPool, NextVpc, FindCidr,
           TryNextRange, AssignCidr, CidrsDone, FindSubnet, AssignSubnet, SubnetsDone, VpcDone,
           CopyItem, CopiesDone, CopySubnet, AssignmentDone, ComparisonRejects, PhaseDone,
           StoreCommitId, RecordIds, RecordDone, ExecutionEnds, UserEnters, UserRemoves
  <2> QED BY <1>1, <1>2, <1>3, <1>4, <1>5, <2>1

-----------------------------------------------------------------------------
(* What the assignment achieves *)

\* New items are those of the VPC at hand, or what users enter between executions.
LEMMA Growth ==
    ASSUME StepInv, [Next]_vars
    PROVE  \/ UNCHANGED <<vpcTable, subnetTable>>
           \/ /\ pc \in {"search", "searchSubnet", "copy", "copySubnet"}
              /\ vpcTable \subseteq vpcTable' /\ subnetTable \subseteq subnetTable'
              /\ \A e \in vpcTable' \ vpcTable : e.key = Vpc /\ pc \in {"search", "copy"}
              /\ \A t \in subnetTable' \ subnetTable :
                   t.key = Vpc /\ pc \in {"searchSubnet", "copySubnet"}
           \/ \E u \in Units : UserEnters(u)
           \/ \E v \in Vpcs : UserRemoves(v)
<1>1. CASE AssignCidr
  BY <1>1 DEF AssignCidr
<1>2. CASE AssignSubnet
  BY <1>2 DEF AssignSubnet
<1>3. CASE CopyItem
  BY <1>3, NewCopy DEF CopyItem
<1>4. CASE CopySubnet
  <2>1. pc = "copySubnet" /\ vpcTable' = vpcTable /\ subnetTable \subseteq subnetTable'
    BY <1>4 DEF CopySubnet
  <2> QED BY <1>4, <2>1, NewSubnetCopy
<1> QED BY <1>1, <1>2, <1>3, <1>4, Writers

\* What a VPC has it keeps while tables grow.
LEMMA SuppliedStays ==
    ASSUME vpcTable \subseteq vpcTable', subnetTable \subseteq subnetTable', NEW v
    PROVE  /\ \A i : HasCidr(vpcTable, v, i) => HasCidr(vpcTable', v, i)
           /\ \A i : HasSubnet(subnetTable, v, i) => HasSubnet(subnetTable', v, i)
           /\ ItemsOf(vpcTable, v) \subseteq ItemsOf(vpcTable', v)
           /\ ItemsOf(subnetTable, v) \subseteq ItemsOf(subnetTable', v)
           /\ Supplied(vpcTable, subnetTable, v) => Supplied(vpcTable', subnetTable', v)
<1>1. ItemsOf(vpcTable, v) \subseteq ItemsOf(vpcTable', v)
      /\ ItemsOf(subnetTable, v) \subseteq ItemsOf(subnetTable', v)
  BY DEF ItemsOf
<1>2. /\ \A i : HasCidr(vpcTable, v, i) => HasCidr(vpcTable', v, i)
      /\ \A i : HasSubnet(subnetTable, v, i) => HasSubnet(subnetTable', v, i)
  BY <1>1 DEF HasCidr, HasSubnet, ItemsOfPool
<1>3. Supplied(vpcTable, subnetTable, v) => Supplied(vpcTable', subnetTable', v)
  BY <1>1, <1>2 DEF Supplied
<1> QED BY <1>1, <1>2, <1>3

LEMMA ProgressNext ==
    ASSUME StepInv, Progress, [Next]_vars
    PROVE  Progress'
<1>t. TypeOK /\ Locals
  BY DEF StepInv
<1> USE DEF Assigning, Dynamic, Copying
<1>s. ASSUME vpcTable \subseteq vpcTable', subnetTable \subseteq subnetTable', Assigning,
             plan' = plan, todo' = todo
      PROVE  \A v \in PlanSet' : v \in Waiting' \/ Supplied(vpcTable, subnetTable, v)'
  BY <1>s, SuppliedStays DEF Progress, PlanSet, Waiting
<1>1. ASSUME NEW n \in 0..Cardinality(Vpcs), NEW order \in [1..n -> Vpcs],
             NEW overrides \in BOOLEAN, StartExecution(order, overrides)
      PROVE  Progress'
  <2>1. pc' \in {"pools", "next"} /\ plan' = todo'
    BY <1>1 DEF StartExecution
  <2>2. PlanSet' = Waiting'
    BY <2>1 DEF PlanSet, Waiting
  <2> QED BY <2>1, <2>2 DEF Progress
<1>2. CASE PutPool
  <2>1. /\ pc = "pools" /\ pc' \in {"pools", "next"}
        /\ UNCHANGED <<vpcTable, subnetTable, plan, todo>>
    BY <1>2 DEF PutPool, job
  <2> QED BY <1>s, <2>1 DEF Progress
<1>3. CASE NextVpc
  <2>1. /\ pc = "next" /\ todo # <<>> /\ j' = 1
        /\ UNCHANGED <<vpcTable, subnetTable, plan, todo>>
        /\ \/ pc' = "cidr"
           \/ /\ pc' = "copy" /\ Assigned(vpcTable, Vpc) # {}
              /\ left' = ItemsOf(Assigned(vpcTable, Vpc), Unit[Vpc])
    BY <1>3 DEF NextVpc, tables
  <2>2. Vpc \in Vpcs /\ Vpc' = Vpc
    BY <1>t, <2>1, HeadAndTail DEF Vpc, TypeOK
  <2>3. \A i \in DOMAIN VpcCidrs[Vpc] \cup DOMAIN VpcSubnets[Vpc] : ~ (i < 1)
    <3>1. /\ DOMAIN VpcCidrs[Vpc] = 1..Len(VpcCidrs[Vpc])
          /\ DOMAIN VpcSubnets[Vpc] = 1..Len(VpcSubnets[Vpc])
      BY <2>2, Constants, Zenon
    <3> QED BY <3>1
  <2>4. pc' = "copy" => ItemsOf(vpcTable, Vpc) # {} \/ left' # {}
    BY <2>1 DEF Assigned, ItemsOf
  <2> QED BY <1>s, <2>1, <2>2, <2>3, <2>4 DEF Progress
<1>4. CASE FindCidr
  <2>1. /\ pc = "cidr" /\ UNCHANGED <<vpcTable, subnetTable, plan, todo>>
        /\ \/ /\ ItemsOfPool(ItemsOf(known, Vpc), Wanted.pool) # {}
              /\ pc' = "cidr" /\ j' = j + 1
           \/ pc' = "search" /\ j' = j
    BY <1>4 DEF FindCidr, tables
  <2>2. Vpc' = Vpc
    BY <2>1 DEF Vpc
  <2>3. j \in Nat /\ \A i \in DOMAIN VpcCidrs[Vpc] : i \in Nat
    BY <1>t, <2>1, AtHand DEF TypeOK
  <2>4. ItemsOfPool(ItemsOf(known, Vpc), Wanted.pool) # {} => HasCidr(vpcTable, Vpc, j)
    BY <1>t DEF TypeOK, ItemsOfPool, ItemsOf, HasCidr, Wanted
  <2>5. \A i \in DOMAIN VpcCidrs[Vpc] : i < j' => HasCidr(vpcTable, Vpc, i)
    <3>1. \A i \in DOMAIN VpcCidrs[Vpc] : i < j + 1 => i < j \/ i = j
      BY <2>3
    <3> QED BY <2>1, <2>4, <3>1 DEF Progress
  <2> QED BY <1>s, <2>1, <2>2, <2>5 DEF Progress
<1>5. CASE TryNextRange
  <2>1. /\ pc \in {"search", "searchSubnet"}
        /\ UNCHANGED <<vpcTable, subnetTable, plan, todo, pc, j>>
    BY <1>5 DEF TryNextRange, tables
  <2>2. Vpc' = Vpc
    BY <2>1 DEF Vpc
  <2> QED BY <1>s, <2>1, <2>2 DEF Progress
<1>6. CASE AssignCidr
  <2> DEFINE new == [key |-> Vpc, pool |-> Wanted.pool, range |-> candidate, order |-> 0]
  <2>1. /\ pc = "search" /\ pc' = "cidr" /\ j' = j + 1
        /\ UNCHANGED <<subnetTable, plan, todo>>
        /\ vpcTable' = vpcTable \cup {new}
    BY <1>6 DEF AssignCidr
  <2>2. Vpc' = Vpc /\ vpcTable \subseteq vpcTable' /\ subnetTable \subseteq subnetTable'
    BY <2>1 DEF Vpc
  <2>3. j \in Nat /\ \A i \in DOMAIN VpcCidrs[Vpc] : i \in Nat
    BY <1>t, <2>1, AtHand DEF TypeOK
  <2>4. HasCidr(vpcTable', Vpc, j)
    <3>1. new \in vpcTable' /\ new.key = Vpc /\ new.pool = Wanted.pool
      BY <2>1
    <3> HIDE DEF new
    <3> QED BY <3>1 DEF HasCidr, ItemsOf, ItemsOfPool, Wanted
  <2>5. \A i \in DOMAIN VpcCidrs[Vpc] : i < j' => HasCidr(vpcTable', Vpc, i)
    <3>1. \A i \in DOMAIN VpcCidrs[Vpc] : i < j + 1 => i < j \/ i = j
      BY <2>3
    <3>2. \A i \in DOMAIN VpcCidrs[Vpc] : i < j => HasCidr(vpcTable', Vpc, i)
      BY <2>1, <2>2, SuppliedStays DEF Progress
    <3> QED BY <2>1, <2>4, <3>1, <3>2
  <2> QED BY <1>s, <2>1, <2>2, <2>5 DEF Progress
<1>7. CASE CidrsDone
  <2>1. /\ pc = "cidr" /\ j > Len(VpcCidrs[Vpc]) /\ pc' = "subnet" /\ j' = 1
        /\ UNCHANGED <<vpcTable, subnetTable, plan, todo>>
    BY <1>7 DEF CidrsDone, tables
  <2>2. Vpc' = Vpc /\ Vpc \in Vpcs
    BY <2>1, AtHand DEF Vpc
  <2>3. /\ \A i \in DOMAIN VpcCidrs[Vpc] : i < j
        /\ \A i \in DOMAIN VpcSubnets[Vpc] : ~ (i < 1)
    <3>1. /\ DOMAIN VpcCidrs[Vpc] = 1..Len(VpcCidrs[Vpc]) /\ Len(VpcCidrs[Vpc]) \in Nat
          /\ DOMAIN VpcSubnets[Vpc] = 1..Len(VpcSubnets[Vpc])
      BY <2>2, Constants, Zenon
    <3> QED BY <1>t, <2>1, <3>1 DEF TypeOK
  <2> QED BY <1>s, <2>1, <2>2, <2>3 DEF Progress
<1>8. CASE FindSubnet
  <2>1. /\ pc = "subnet" /\ UNCHANGED <<vpcTable, subnetTable, plan, todo>>
        /\ \/ /\ OwnSubnet(Vpc, WantedSubnet.subnet) # {}
              /\ pc' = "subnet" /\ j' = j + 1
           \/ pc' = "searchSubnet" /\ j' = j
    BY <1>8 DEF FindSubnet, tables
  <2>2. Vpc' = Vpc
    BY <2>1 DEF Vpc
  <2>3. j \in Nat /\ \A i \in DOMAIN VpcSubnets[Vpc] : i \in Nat
    BY <1>t, <2>1, AtHand DEF TypeOK
  <2>4. OwnSubnet(Vpc, WantedSubnet.subnet) # {} => HasSubnet(subnetTable, Vpc, j)
    BY <1>t DEF TypeOK, OwnSubnet, ItemsOf, HasSubnet, WantedSubnet
  <2>5. \A i \in DOMAIN VpcSubnets[Vpc] : i < j' => HasSubnet(subnetTable, Vpc, i)
    <3>1. \A i \in DOMAIN VpcSubnets[Vpc] : i < j + 1 => i < j \/ i = j
      BY <2>3
    <3> QED BY <2>1, <2>4, <3>1 DEF Progress
  <2> QED BY <1>s, <2>1, <2>2, <2>5 DEF Progress
<1>9. CASE AssignSubnet \/ CopySubnet
  <2>1. /\ pc \in {"searchSubnet", "copySubnet"} /\ j' = j + 1
        /\ pc' = IF pc = "searchSubnet" THEN "subnet" ELSE "copySubnet"
        /\ UNCHANGED <<vpcTable, plan, todo>> /\ subnetTable \subseteq subnetTable'
    BY <1>9 DEF AssignSubnet, CopySubnet
  <2>2. Vpc' = Vpc
    BY <2>1 DEF Vpc
  <2>3. j \in Nat /\ \A i \in DOMAIN VpcSubnets[Vpc] : i \in Nat
    BY <1>t, <2>1, AtHand DEF TypeOK
  <2>4. HasSubnet(subnetTable', Vpc, j)
    <3>1. CASE AssignSubnet
      <4> DEFINE new == [key |-> Vpc, subnet |-> WantedSubnet.subnet, range |-> candidate]
      <4>1. new \in subnetTable' /\ new.key = Vpc /\ new.subnet = WantedSubnet.subnet
        BY <3>1 DEF AssignSubnet
      <4> HIDE DEF new
      <4> QED BY <4>1 DEF HasSubnet, ItemsOf, WantedSubnet
    <3>2. CASE CopySubnet /\ OwnSubnet(Vpc, WantedSubnet.subnet) # {}
      BY <1>t, <2>1, <3>2 DEF TypeOK, OwnSubnet, ItemsOf, HasSubnet, WantedSubnet
    <3>3. CASE CopySubnet /\ OwnSubnet(Vpc, WantedSubnet.subnet) = {}
      <4>1. PICK e \in OwnSubnet(Unit[Vpc], WantedSubnet.subnet) :
                subnetTable' = subnetTable \cup {[e EXCEPT !.key = Vpc]}
        BY <3>3 DEF CopySubnet
      <4>2. e \in SubnetItems /\ e.subnet = WantedSubnet.subnet
        BY <1>t, <4>1 DEF TypeOK, OwnSubnet, ItemsOf
      <4> DEFINE new == [e EXCEPT !.key = Vpc]
      <4>3. new.key = Vpc /\ new.subnet = WantedSubnet.subnet /\ new \in subnetTable'
        BY <4>1, <4>2 DEF SubnetItems
      <4> HIDE DEF new
      <4> QED BY <4>3 DEF HasSubnet, ItemsOf, WantedSubnet
    <3> QED BY <1>9, <3>1, <3>2, <3>3
  <2>5. \A i \in DOMAIN VpcSubnets[Vpc] : i < j' => HasSubnet(subnetTable', Vpc, i)
    <3>1. \A i \in DOMAIN VpcSubnets[Vpc] : i < j + 1 => i < j \/ i = j
      BY <2>3
    <3>2. \A i \in DOMAIN VpcSubnets[Vpc] : i < j => HasSubnet(subnetTable', Vpc, i)
      BY <2>1, SuppliedStays DEF Progress
    <3> QED BY <2>1, <2>4, <3>1, <3>2
  <2>6. CASE pc = "searchSubnet"
    BY <1>s, <2>1, <2>2, <2>5, <2>6 DEF Progress
  <2>7. CASE pc = "copySubnet"
    BY <1>s, <2>1, <2>2, <2>5, <2>7 DEF Progress
  <2> QED BY <2>1, <2>6, <2>7
<1>10. CASE SubnetsDone
  <2>1. /\ pc \in {"subnet", "copySubnet"} /\ j > Len(VpcSubnets[Vpc]) /\ pc' = "next"
        /\ todo' = Tail(todo) /\ UNCHANGED <<vpcTable, subnetTable, plan>>
    BY <1>10 DEF SubnetsDone, VpcDone, tables
  <2>2. /\ Vpc \in Vpcs /\ todo # <<>> /\ todo[1] = Vpc /\ todo \in Seq(Vpcs)
        /\ pc = "subnet" => Unit[Vpc] = NoUnit
        /\ pc = "copySubnet" => Unit[Vpc] # NoUnit
    BY <1>t, <2>1, AtHand DEF Locals, TypeOK
  <2>3. \A i \in DOMAIN VpcSubnets[Vpc] : i < j
    <3>1. DOMAIN VpcSubnets[Vpc] = 1..Len(VpcSubnets[Vpc]) /\ Len(VpcSubnets[Vpc]) \in Nat
      BY <2>2, Constants, Zenon
    <3> QED BY <1>t, <2>1, <3>1 DEF TypeOK
  <2>4. Supplied(vpcTable, subnetTable, Vpc)
    BY <2>1, <2>2, <2>3 DEF Progress, Supplied
  <2>5. Waiting \subseteq Waiting' \cup {Vpc}
    <3>1. Waiting' = {Tail(todo)[i] : i \in DOMAIN Tail(todo)}
      BY <2>1, Zenon DEF Waiting
    <3> QED BY <2>2, <3>1, HeadOrTail, Zenon DEF Waiting, Vpc
  <2>6. \A v \in PlanSet' : v \in Waiting' \/ Supplied(vpcTable, subnetTable, v)'
    BY <2>1, <2>4, <2>5 DEF Progress, PlanSet
  <2> QED BY <2>1, <2>6 DEF Progress
<1>11. CASE CopyItem
  <2>1. PICK e \in vpcTable : /\ vpcTable' = vpcTable \cup {[e EXCEPT !.key = Vpc]}
                              /\ [e EXCEPT !.key = Vpc].key = Vpc
    BY <1>11, NewCopy
  <2>2. pc = "copy" /\ UNCHANGED <<subnetTable, plan, todo, pc, j>>
    BY <1>11 DEF CopyItem
  <2>3. Vpc' = Vpc
    BY <2>2 DEF Vpc
  <2>4. ItemsOf(vpcTable', Vpc) # {}
    BY <2>1 DEF ItemsOf
  <2> QED BY <1>s, <2>1, <2>2, <2>3, <2>4 DEF Progress
<1>12. CASE CopiesDone
  <2>1. /\ pc = "copy" /\ left = {} /\ pc' = "copySubnet"
        /\ UNCHANGED <<vpcTable, subnetTable, plan, todo, j>>
    BY <1>12 DEF CopiesDone, tables, job
  <2>2. Vpc' = Vpc
    BY <2>1 DEF Vpc
  <2> QED BY <1>s, <2>1, <2>2 DEF Progress
<1>13. CASE AssignmentDone
  <2>1. /\ pc = "next" /\ todo = <<>> /\ pc' = "compare"
        /\ UNCHANGED <<vpcTable, subnetTable, plan, todo>>
    BY <1>13 DEF AssignmentDone, tables, job
  <2>2. Waiting' = {}
    BY <2>1 DEF Waiting
  <2> QED BY <1>s, <2>1, <2>2 DEF Progress
<1>14. CASE CompareConfigurations \/ \E v \in Vpcs : DeployVpc(v)
  <2>1. /\ pc \in {"compare", "deploy"} /\ pc' = "deploy"
        /\ UNCHANGED <<vpcTable, subnetTable, plan>>
    BY <1>14 DEF CompareConfigurations, DeployVpc, tables, job
  <2> QED BY <2>1 DEF Progress, PlanSet
<1>15. CASE ComparisonRejects \/ PhaseDone \/ StoreCommitId \/ RecordIds \/ RecordDone
  <2>1. pc' \in {"done", "store", "record"}
    BY <1>15 DEF ComparisonRejects, PhaseDone, StoreCommitId, RecordIds, RecordDone
  <2> QED BY <2>1 DEF Progress
<1>o. ASSUME NEW v \in Vpcs, StoreOutputs(v)
      PROVE  Progress'
  <2>1. /\ pc \in {"store", "deploy"} /\ UNCHANGED <<vpcTable, subnetTable, plan, pc>>
    BY <1>o DEF StoreOutputs, tables, job
  <2> QED BY <2>1 DEF Progress, PlanSet
<1>16. CASE ExecutionEnds \/ (\E v \in Vpcs : UserRemoves(v)) \/ \E u \in Units : UserEnters(u)
  <2>1. pc' = "idle" /\ plan' = <<>>
    BY <1>16 DEF ExecutionEnds, UserRemoves, UserEnters, job, Progress
  <2> QED BY <2>1 DEF Progress
<1>17. CASE UNCHANGED vars
  <2>1. UNCHANGED <<vpcTable, subnetTable, pc, plan, todo, j, left>>
    BY <1>17 DEF vars, tables, job
  <2>2. Vpc' = Vpc /\ PlanSet' = PlanSet /\ Waiting' = Waiting
    BY <2>1 DEF Vpc, PlanSet, Waiting
  <2> QED BY <2>1, <2>2 DEF Progress
<1> QED
  BY <1>1, <1>2, <1>3, <1>4, <1>5, <1>6, <1>7, <1>8, <1>9, <1>10, <1>11, <1>12, <1>13, <1>14,
     <1>15, <1>o, <1>16, <1>17 DEF Next

\* The steps that copies depend on; no other changes items of a unit or of a VPC with copies.
LEMMA CopiesNext ==
    ASSUME StepInv, Copies, [Next]_vars
    PROVE  Copies'
<1>t. TypeOK /\ Locals
  BY DEF StepInv
<1> DEFINE Copied(v, e) == [e EXCEPT !.key = v]
<1>1. CASE CopyItem
  <2>1. PICK d \in left : vpcTable' = vpcTable \cup {Copied(Vpc, d)} /\ left' = left \ {d}
    BY <1>1 DEF CopyItem
  <2>2. pc = "copy" /\ UNCHANGED <<pc, todo, torn>>
    BY <1>1 DEF CopyItem, history
  <2>3. /\ Vpc \in Vpcs /\ Vpc' = Vpc /\ left \subseteq ItemsOf(vpcTable, Unit[Vpc])
        /\ Unit[Vpc] # NoUnit
    BY <1>t, <2>2, AtHand DEF Copying, Vpc, Locals
  <2>4. d \in VpcItems /\ Copied(Vpc, d).key = Vpc
    <3>1. d \in VpcItems
      BY <1>t, <2>1 DEF TypeOK
    <3> QED BY <3>1 DEF VpcItems
  <2>5. ASSUME NEW v \in Vpcs
        PROVE  ItemsOf(vpcTable', Unit[v]) = ItemsOf(vpcTable, Unit[v])
    <3>1. Unit[v] # Vpc
      BY <2>3, Constants
    <3> HIDE DEF Copied
    <3> QED BY <2>1, <2>4, <3>1 DEF ItemsOf
  <2>6. ASSUME NEW v \in Vpcs, v # Vpc
        PROVE  ItemsOf(vpcTable', v) = ItemsOf(vpcTable, v)
    <3> HIDE DEF Copied
    <3> QED BY <2>1, <2>4, <2>6 DEF ItemsOf
  <2>7. ASSUME NEW v \in Vpcs, Unit[v] # NoUnit, ItemsOf(vpcTable', v) # {}
        PROVE  /\ ItemsOf(vpcTable', Unit[v]) # {}
               /\ v \notin torn' => \A e \in ItemsOf(vpcTable', Unit[v]) :
                    Copied(v, e) \in vpcTable' \/ (pc' = "copy" /\ v = Vpc' /\ e \in left')
    <3>1. CASE v # Vpc
      <4>1. ItemsOf(vpcTable, v) # {}
        BY <2>6, <2>7, <3>1
      <4>2. vpcTable \subseteq vpcTable'
        BY <2>1
      <4> HIDE DEF Copied
      <4> QED BY <2>2, <2>3, <2>5, <2>7, <3>1, <4>1, <4>2 DEF Copies, Copied
    <3>2. CASE v = Vpc
      <4>1. d \in ItemsOf(vpcTable, Unit[v])
        BY <2>1, <2>3, <3>2
      <4>2. ASSUME v \notin torn, NEW e \in ItemsOf(vpcTable, Unit[v])
            PROVE  Copied(v, e) \in vpcTable \/ e \in left
        <5>1. CASE ItemsOf(vpcTable, v) = {}
          BY <2>2, <3>2, <4>2, <5>1 DEF Copies
        <5>2. CASE ItemsOf(vpcTable, v) # {}
          BY <2>7, <4>2, <5>2 DEF Copies
        <5> QED BY <5>1, <5>2
      <4> HIDE DEF Copied
      <4> QED BY <2>1, <2>2, <2>3, <2>5, <3>2, <4>1, <4>2
    <3> QED BY <3>1, <3>2
  <2>8. ItemsOf(vpcTable', Vpc') # {}
    <3>1. Copied(Vpc, d) \in vpcTable'
      BY <2>1
    <3> HIDE DEF Copied
    <3> QED BY <2>3, <2>4, <3>1 DEF ItemsOf
  <2> QED BY <2>7, <2>8 DEF Copies
<1>2. CASE NextVpc
  <2>1. /\ pc = "next" /\ todo # <<>> /\ UNCHANGED <<vpcTable, todo, torn>>
        /\ pc' = "copy" => left' = ItemsOf(Assigned(vpcTable, Vpc), Unit[Vpc])
    BY <1>2 DEF NextVpc, tables, history
  <2>2. Vpc' = Vpc
    BY <2>1 DEF Vpc
  <2>3. pc' = "copy" /\ ItemsOf(vpcTable, Vpc) = {} => left' = ItemsOf(vpcTable, Unit[Vpc])
    BY <2>1 DEF Assigned, ItemsOf
  <2> QED BY <2>1, <2>2, <2>3 DEF Copies
<1>3. CASE ExecutionEnds
  <2>1. /\ pc' = "idle" /\ vpcTable' = vpcTable
        /\ torn' = IF pc = "copy" /\ left # {} /\ ItemsOf(vpcTable, Vpc) # {}
                   THEN torn \cup {Vpc} ELSE torn
    BY <1>3 DEF ExecutionEnds, tables
  <2> QED BY <2>1 DEF Copies
<1>4. CASE AssignCidr
  <2> DEFINE new == [key |-> Vpc, pool |-> Wanted.pool, range |-> candidate, order |-> 0]
  <2>1. /\ pc = "search" /\ pc' = "cidr" /\ torn' = torn /\ vpcTable' = vpcTable \cup {new}
        /\ new.key = Vpc
    BY <1>4 DEF AssignCidr, history
  <2>2. Vpc \in Vpcs /\ Unit[Vpc] = NoUnit
    BY <1>t, <2>1, AtHand DEF Dynamic, Locals
  <2> HIDE DEF new
  <2>3. ASSUME NEW v \in Vpcs, Unit[v] # NoUnit
        PROVE  /\ ItemsOf(vpcTable', v) = ItemsOf(vpcTable, v)
               /\ ItemsOf(vpcTable', Unit[v]) = ItemsOf(vpcTable, Unit[v])
    <3>1. v # Vpc /\ Unit[v] # Vpc
      BY <2>2, <2>3, Constants
    <3> QED BY <2>1, <3>1 DEF ItemsOf
  <2> QED BY <2>1, <2>3 DEF Copies
<1>5. ASSUME NEW u \in Units, UserEnters(u)
      PROVE  Copies'
  <2>1. /\ pc = "idle" /\ pc' = "idle" /\ vpcTable' = vpcTable \cup Entered[u]
        /\ ItemsOf(vpcTable, u) = {} /\ torn' = torn
    BY <1>5 DEF UserEnters, history
  <2>2. ASSUME NEW v \in Vpcs
        PROVE  ItemsOf(vpcTable', v) = ItemsOf(vpcTable, v)
    BY <2>1, Constants DEF ItemsOf
  <2>3. ASSUME NEW v \in Vpcs, Unit[v] # u
        PROVE  ItemsOf(vpcTable', Unit[v]) = ItemsOf(vpcTable, Unit[v])
    BY <2>1, <2>3, Constants DEF ItemsOf
  <2> QED BY <2>1, <2>2, <2>3 DEF Copies
<1>6. ASSUME NEW w \in Vpcs, UserRemoves(w)
      PROVE  Copies'
  <2>1. /\ pc = "idle" /\ pc' = "idle" /\ torn' = torn
        /\ vpcTable' = {e \in vpcTable : e.key # w}
    BY <1>6 DEF UserRemoves, ItemsOf
  <2>2. ASSUME NEW v \in Vpcs
        PROVE  /\ ItemsOf(vpcTable', Unit[v]) = ItemsOf(vpcTable, Unit[v])
               /\ v # w => ItemsOf(vpcTable', v) = ItemsOf(vpcTable, v)
               /\ v = w => ItemsOf(vpcTable', v) = {}
    <3>1. Unit[v] # w
      BY Constants
    <3> QED BY <2>1, <3>1 DEF ItemsOf
  <2>3. ASSUME NEW v \in Vpcs, v # w, NEW e \in ItemsOf(vpcTable, Unit[v]),
               Copied(v, e) \in vpcTable
        PROVE  Copied(v, e) \in vpcTable'
    <3>1. e \in VpcItems
      BY <1>t DEF TypeOK, ItemsOf
    <3>2. Copied(v, e).key = v
      BY <3>1 DEF VpcItems
    <3> HIDE DEF Copied
    <3> QED BY <2>1, <2>3, <3>2
  <2> QED BY <2>1, <2>2, <2>3 DEF Copies
<1>7. CASE vpcTable' = vpcTable /\ torn' = torn /\ (pc = "copy" => left = {}) /\ pc' # "copy"
  BY <1>7 DEF Copies
<1>8. CASE UNCHANGED vars
  <2>1. UNCHANGED <<vpcTable, pc, todo, left, torn>>
    BY <1>8 DEF vars, tables, job, history
  <2>2. Vpc' = Vpc
    BY <2>1 DEF Vpc
  <2> QED BY <2>1, <2>2 DEF Copies
<1>9. ASSUME \/ \E n \in 0..Cardinality(Vpcs) :
                  \E order \in [1..n -> Vpcs], overrides \in BOOLEAN :
                    StartExecution(order, overrides)
             \/ PutPool \/ FindCidr \/ TryNextRange \/ CidrsDone \/ FindSubnet \/ AssignSubnet
             \/ SubnetsDone \/ CopiesDone \/ CopySubnet \/ AssignmentDone
             \/ CompareConfigurations \/ ComparisonRejects \/ (\E v \in Vpcs : DeployVpc(v))
             \/ PhaseDone \/ (\E v \in Vpcs : StoreOutputs(v)) \/ StoreCommitId
             \/ RecordIds \/ RecordDone
      PROVE  vpcTable' = vpcTable /\ torn' = torn /\ (pc = "copy" => left = {}) /\ pc' # "copy"
  BY <1>9 DEF StartExecution, PutPool, FindCidr, TryNextRange, CidrsDone, FindSubnet,
              AssignSubnet, SubnetsDone, VpcDone, CopiesDone, CopySubnet, AssignmentDone,
              CompareConfigurations, ComparisonRejects, DeployVpc, PhaseDone, StoreOutputs,
              StoreCommitId, RecordIds, RecordDone, tables, history
<1> QED BY <1>1, <1>2, <1>3, <1>4, <1>5, <1>6, <1>7, <1>8, <1>9 DEF Next

LEMMA IdsSoFarNext ==
    ASSUME TypeOK, IdsSoFar, [Next]_vars
    PROVE  IdsSoFar'
<1>1. CASE StoreCommitId
  <2>1. todo' = plan /\ plan' = plan
    BY <1>1 DEF StoreCommitId
  <2> QED BY <2>1 DEF IdsSoFar, PlanSet, Waiting
<1>2. CASE RecordIds
  <2>1. /\ pc = "record" /\ todo # <<>> /\ todo' = Tail(todo)
        /\ recorded' = IF outputs[Vpc] = NotDeployed THEN recorded
                       ELSE recorded \cup ItemsOf(vpcTable, Vpc)
                            \cup {e \in ItemsOf(subnetTable, Vpc) :
                                    <<e.subnet, e.range>> \in outputs[Vpc].subnets}
        /\ UNCHANGED <<vpcTable, outputs, plan>>
    BY <1>2 DEF RecordIds, tables, mode
  <2>2. Waiting \subseteq Waiting' \cup {Vpc}
    <3>1. Waiting' = {Tail(todo)[i] : i \in DOMAIN Tail(todo)}
      BY <2>1, Zenon DEF Waiting
    <3>2. todo \in Seq(Vpcs)
      BY DEF TypeOK
    <3> QED BY <2>1, <3>1, <3>2, HeadOrTail, Zenon DEF Waiting, Vpc
  <2>3. \A v : IdsRecorded(v) => IdsRecorded(v)'
    BY <2>1 DEF IdsRecorded
  <2>4. \A v : v = Vpc => IdsRecorded(v)'
    BY <2>1 DEF IdsRecorded
  <2> QED BY <2>1, <2>2, <2>3, <2>4 DEF IdsSoFar, PlanSet
<1>3. CASE UNCHANGED vars
  <2>1. UNCHANGED <<vpcTable, recorded, outputs, pc, plan, todo>>
    BY <1>3 DEF vars, tables, job, mode
  <2> QED BY <2>1 DEF IdsSoFar, PlanSet, Waiting, IdsRecorded, ItemsOf
<1>4. CASE pc' # "record"
  BY <1>4 DEF IdsSoFar
<1>5. StoreCommitId \/ RecordIds \/ UNCHANGED vars \/ pc' # "record"
  BY DEF Next, StartExecution, PutPool, NextVpc, FindCidr, TryNextRange, AssignCidr, CidrsDone,
         FindSubnet, AssignSubnet, SubnetsDone, VpcDone, CopyItem, CopiesDone, CopySubnet,
         AssignmentDone, CompareConfigurations, ComparisonRejects, DeployVpc, PhaseDone,
         StoreOutputs, RecordDone, ExecutionEnds, UserEnters, UserRemoves
<1> QED BY <1>1, <1>2, <1>3, <1>4, <1>5

\* What the comparison looks at.
LEMMA StaysInPlace ==
    ASSUME NEW v, NEW was, ~ Moved(was, v),
           Primary(vpcTable', v) = Primary(vpcTable, v),
           Assigned(vpcTable, v) \subseteq Assigned(vpcTable', v),
           Assigned(subnetTable, v) \subseteq Assigned(subnetTable', v)
    PROVE  ~ Moved(was, v)'
<1>1. /\ Built(v).more = {e.range : e \in Assigned(vpcTable, v)} \ Primary(vpcTable, v)
      /\ Built(v).subnets = {<<e.subnet, e.range>> : e \in Assigned(subnetTable, v)}
      /\ Built(v)'.more = {e.range : e \in Assigned(vpcTable', v)} \ Primary(vpcTable', v)
      /\ Built(v)'.subnets = {<<e.subnet, e.range>> : e \in Assigned(subnetTable', v)}
  BY DEF Built
<1>2. Built(v).more \subseteq Built(v)'.more /\ Built(v).subnets \subseteq Built(v)'.subnets
  BY <1>1
<1> QED BY <1>2 DEF Moved

LEMMA SameAssigned ==
    ASSUME NEW v, NEW items, NEW more,
           ItemsOf(more, v) = ItemsOf(items, v), ItemsOf(more, Unit[v]) = ItemsOf(items, Unit[v])
    PROVE  Assigned(more, v) = Assigned(items, v) /\ Primary(more, v) = Primary(items, v)
BY DEF Assigned, Primary

\* A deployed VPC does not move while others get ranges.
LEMMA SettledNext ==
    ASSUME StepInv, Compared, Progress, Settled, [Next]_vars
    PROVE  Settled'
<1>t. TypeOK /\ Locals
  BY DEF StepInv
<1> USE DEF Dynamic, Copying
<1>k. /\ \A v \in Vpcs : \A w \in Vpcs : Unit[v] # w
      /\ NoUnit \notin Keys /\ Keys = Vpcs \cup Units
      /\ \A e \in vpcTable : e.key \in Keys
      /\ \A e \in subnetTable : e.key \in Keys
  BY <1>t, Constants, TablesType
\* Everything but the tables and the copying of a VPC.
<1>s. ASSUME NEW v \in Vpcs, v \notin removed, NEW was \in Kept(v),
             Primary(vpcTable', v) = Primary(vpcTable, v),
             Assigned(vpcTable, v) \subseteq Assigned(vpcTable', v),
             Assigned(subnetTable, v) \subseteq Assigned(subnetTable', v),
             ItemsOf(vpcTable, v) \subseteq ItemsOf(vpcTable', v),
             ItemsOf(subnetTable, v) \subseteq ItemsOf(subnetTable', v)
      PROVE  Anchored(vpcTable', subnetTable', v) /\ ~ Moved(was, v)'
  <2>1. Anchored(vpcTable, subnetTable, v) /\ ~ Moved(was, v)
    BY <1>s DEF Settled
  <2>2. Anchored(vpcTable', subnetTable', v)
    BY <1>s, <2>1 DEF Anchored, HasCidr, ItemsOfPool
  <2> QED BY <1>s, <2>1, <2>2, StaysInPlace
<1>1. CASE AssignCidr
  <2> DEFINE new == [key |-> Vpc, pool |-> Wanted.pool, range |-> candidate, order |-> 0]
  <2>1. /\ vpcTable' = vpcTable \cup {new} /\ pc = "search" /\ pc' = "cidr"
        /\ new.key = Vpc /\ new.pool = Wanted.pool
        /\ UNCHANGED <<subnetTable, deployed, outputs, removed, rejected>>
    BY <1>1 DEF AssignCidr, mode, history
  <2>2. /\ Vpc \in Vpcs /\ Unit[Vpc] = NoUnit /\ j \in DOMAIN VpcCidrs[Vpc]
        /\ \A e \in ItemsOf(vpcTable, Vpc) : e.pool # new.pool
    BY <1>t, <2>1, AtHand DEF StepInv, Searching, Locals
  <2> HIDE DEF new
  <2>3. 1 \in DOMAIN VpcCidrs[Vpc]
    <3>1. DOMAIN VpcCidrs[Vpc] = 1..Len(VpcCidrs[Vpc]) /\ Len(VpcCidrs[Vpc]) \in Nat
      BY <2>2, Constants, Zenon
    <3> QED BY <2>2, <3>1
  <2>4. ASSUME NEW v \in Vpcs, v \notin removed, NEW was \in Kept(v)
        PROVE  Anchored(vpcTable', subnetTable', v) /\ ~ Moved(was, v)'
    <3>1. CASE v # Vpc
      <4>1. /\ ItemsOf(vpcTable', v) = ItemsOf(vpcTable, v)
            /\ ItemsOf(vpcTable', Unit[v]) = ItemsOf(vpcTable, Unit[v])
        BY <1>k, <2>1, <2>2, <3>1 DEF ItemsOf
      <4>2. /\ Assigned(vpcTable', v) = Assigned(vpcTable, v)
            /\ Primary(vpcTable', v) = Primary(vpcTable, v)
        BY <4>1, SameAssigned
      <4> QED BY <1>s, <2>1, <2>4, <4>1, <4>2
    <3>2. CASE v = Vpc
      <4>1. HasCidr(vpcTable, v, 1)
        BY <2>2, <2>3, <2>4, <3>2 DEF Settled, Anchored
      <4>2. PICK d \in ItemsOf(vpcTable, v) : d.pool = VpcCidrs[v][1].pool
        BY <4>1 DEF HasCidr, ItemsOfPool
      <4>3. new.pool # VpcCidrs[v][1].pool
        BY <2>2, <3>2, <4>2
      <4>4. /\ Assigned(vpcTable, v) = ItemsOf(vpcTable, v)
            /\ Assigned(vpcTable', v) = ItemsOf(vpcTable', v)
            /\ ItemsOf(vpcTable', v) = ItemsOf(vpcTable, v) \cup {new}
        <5>1. ItemsOf(vpcTable', v) = ItemsOf(vpcTable, v) \cup {new}
          BY <2>1, <3>2 DEF ItemsOf
        <5> QED BY <4>2, <5>1 DEF Assigned
      <4>5. ItemsOfPool(Assigned(vpcTable', v), VpcCidrs[v][1].pool)
              = ItemsOfPool(Assigned(vpcTable, v), VpcCidrs[v][1].pool)
        BY <4>3, <4>4 DEF ItemsOfPool
      <4>6. Primary(vpcTable', v) = Primary(vpcTable, v)
        BY <2>2, <3>2, <4>5 DEF Primary
      <4> QED BY <1>s, <2>1, <2>4, <4>4, <4>6
    <3> QED BY <3>1, <3>2
  <2> QED BY <2>1, <2>4 DEF Settled, Kept
<1>2. CASE AssignSubnet \/ CopySubnet
  <2>1. /\ pc \in {"searchSubnet", "copySubnet"} /\ pc' \in {"subnet", "copySubnet"}
        /\ UNCHANGED <<vpcTable, deployed, outputs, removed, rejected>>
        /\ subnetTable \subseteq subnetTable'
    BY <1>2 DEF AssignSubnet, CopySubnet, mode, history
  <2>2. Vpc \in Vpcs /\ j \in DOMAIN VpcSubnets[Vpc]
    <3>1. j <= Len(VpcSubnets[Vpc]) \/ j \in DOMAIN VpcSubnets[Vpc]
      BY <1>2 DEF AssignSubnet, CopySubnet, StepInv, SearchingSubnet
    <3> QED BY <2>1, <3>1, AtHand
  <2>3. 1 \in DOMAIN VpcSubnets[Vpc]
    <3>1. DOMAIN VpcSubnets[Vpc] = 1..Len(VpcSubnets[Vpc]) /\ Len(VpcSubnets[Vpc]) \in Nat
      BY <2>2, Constants, Zenon
    <3> QED BY <2>2, <3>1
  <2>4. \A t \in subnetTable' \ subnetTable : t.key = Vpc
    <3>1. CASE AssignSubnet
      BY <3>1 DEF AssignSubnet
    <3>2. CASE CopySubnet
      BY <3>2, NewSubnetCopy
    <3> QED BY <1>2, <3>1, <3>2
  <2>5. ASSUME NEW v \in Vpcs, v \notin removed, NEW was \in Kept(v)
        PROVE  Anchored(vpcTable', subnetTable', v) /\ ~ Moved(was, v)'
    <3>1. CASE v # Vpc
      <4>1. /\ ItemsOf(subnetTable', v) = ItemsOf(subnetTable, v)
            /\ ItemsOf(subnetTable', Unit[v]) = ItemsOf(subnetTable, Unit[v])
        BY <1>k, <2>1, <2>2, <2>4, <3>1 DEF ItemsOf
      <4>2. Assigned(subnetTable', v) = Assigned(subnetTable, v)
        BY <4>1, SameAssigned
      <4> QED BY <1>s, <2>1, <2>5, <4>1, <4>2
    <3>2. CASE v = Vpc
      <4>1. ItemsOf(subnetTable, v) # {}
        BY <2>3, <2>5, <3>2 DEF Settled, Anchored
      <4>2. ItemsOf(subnetTable, v) \subseteq ItemsOf(subnetTable', v)
        BY <2>1 DEF ItemsOf
      <4>3. Assigned(subnetTable, v) \subseteq Assigned(subnetTable', v)
        BY <4>1, <4>2 DEF Assigned
      <4> QED BY <1>s, <2>1, <2>5, <4>2, <4>3
    <3> QED BY <3>1, <3>2
  <2> QED BY <2>1, <2>5 DEF Settled, Kept
<1>3. CASE CopyItem
  <2>1. /\ pc = "copy" /\ left # {} /\ left' \subseteq left
        /\ UNCHANGED <<subnetTable, deployed, outputs, removed, rejected, todo, pc>>
    BY <1>3 DEF CopyItem, mode, history
  <2>2. PICK e \in vpcTable : /\ vpcTable' = vpcTable \cup {[e EXCEPT !.key = Vpc]}
                              /\ [e EXCEPT !.key = Vpc].key = Vpc
    BY <1>3, NewCopy
  <2>3. Vpc \in Vpcs /\ Vpc' = Vpc
    BY <2>1, AtHand DEF Vpc
  <2>4. ASSUME NEW v \in Vpcs, v \notin removed, NEW was \in Kept(v)
        PROVE  Anchored(vpcTable', subnetTable', v) /\ ~ Moved(was, v)'
    <3>1. v # Vpc
      BY <2>1, <2>4 DEF Settled
    <3>2. /\ ItemsOf(vpcTable', v) = ItemsOf(vpcTable, v)
          /\ ItemsOf(vpcTable', Unit[v]) = ItemsOf(vpcTable, Unit[v])
      BY <1>k, <2>2, <2>3, <3>1 DEF ItemsOf
    <3>3. /\ Assigned(vpcTable', v) = Assigned(vpcTable, v)
          /\ Primary(vpcTable', v) = Primary(vpcTable, v)
      BY <3>2, SameAssigned
    <3> QED BY <1>s, <2>1, <2>4, <3>2, <3>3
  <2> QED BY <2>1, <2>3, <2>4 DEF Settled, Kept
<1>4. ASSUME NEW u \in Units, UserEnters(u)
      PROVE  Settled'
  <2>1. /\ pc = "idle" /\ pc' = "idle"
        /\ vpcTable' = vpcTable \cup Entered[u]
        /\ subnetTable' = subnetTable \cup EnteredSubnets[u]
        /\ UNCHANGED <<deployed, outputs, removed, rejected>>
    BY <1>4 DEF UserEnters, mode, history
  <2>2. /\ \A e \in Entered[u] \cup EnteredSubnets[u] : e.key = u
        /\ u \notin Vpcs /\ u # NoUnit
    BY <1>k, Constants
  <2>3. ASSUME NEW v \in Vpcs, v \notin removed, NEW was \in Kept(v)
        PROVE  Anchored(vpcTable', subnetTable', v) /\ ~ Moved(was, v)'
    <3>1. /\ ItemsOf(vpcTable', v) = ItemsOf(vpcTable, v)
          /\ ItemsOf(subnetTable', v) = ItemsOf(subnetTable, v)
      BY <2>1, <2>2 DEF ItemsOf
    <3>2. ItemsOf(subnetTable, Unit[v]) \subseteq ItemsOf(subnetTable', Unit[v])
      BY <2>1 DEF ItemsOf
    <3>3. Assigned(subnetTable, v) \subseteq Assigned(subnetTable', v)
      BY <3>1, <3>2 DEF Assigned
    <3>4. Assigned(vpcTable', v) = Assigned(vpcTable, v)
      <4>1. CASE Unit[v] = NoUnit
        <5>1. ItemsOf(vpcTable', NoUnit) = {} /\ ItemsOf(vpcTable, NoUnit) = {}
          BY <1>k, <2>1, <2>2 DEF ItemsOf
        <5> QED BY <3>1, <4>1, <5>1 DEF Assigned
      <4>2. CASE Unit[v] # NoUnit
        <5>1. ItemsOf(vpcTable, v) # {}
          BY <2>3, <4>2 DEF Settled, Anchored
        <5> QED BY <3>1, <5>1 DEF Assigned
      <4> QED BY <4>1, <4>2
    <3>5. Primary(vpcTable', v) = Primary(vpcTable, v)
      BY <3>4 DEF Primary
    <3> QED BY <1>s, <2>1, <2>3, <3>1, <3>3, <3>4, <3>5
  <2> QED BY <2>1, <2>3 DEF Settled, Kept
<1>5. ASSUME NEW w \in Vpcs, UserRemoves(w)
      PROVE  Settled'
  <2>1. /\ pc = "idle" /\ pc' = "idle" /\ removed = {} /\ removed' = {w}
        /\ vpcTable' = {e \in vpcTable : e.key # w}
        /\ subnetTable' = {e \in subnetTable : e.key # w}
        /\ UNCHANGED <<deployed, outputs, rejected>>
    BY <1>5 DEF UserRemoves, ItemsOf, mode
  <2>2. ASSUME NEW v \in Vpcs, v # w, NEW was \in Kept(v)
        PROVE  Anchored(vpcTable', subnetTable', v) /\ ~ Moved(was, v)'
    <3>1. /\ ItemsOf(vpcTable', v) = ItemsOf(vpcTable, v)
          /\ ItemsOf(vpcTable', Unit[v]) = ItemsOf(vpcTable, Unit[v])
          /\ ItemsOf(subnetTable', v) = ItemsOf(subnetTable, v)
          /\ ItemsOf(subnetTable', Unit[v]) = ItemsOf(subnetTable, Unit[v])
      BY <1>k, <2>1, <2>2 DEF ItemsOf
    <3>2. /\ Assigned(vpcTable', v) = Assigned(vpcTable, v)
          /\ Primary(vpcTable', v) = Primary(vpcTable, v)
          /\ Assigned(subnetTable', v) = Assigned(subnetTable, v)
      BY <3>1, SameAssigned
    <3> QED BY <1>s, <2>1, <2>2, <3>1, <3>2
  <2> QED BY <2>1, <2>2 DEF Settled, Kept
<1>6. ASSUME NEW w \in Vpcs, DeployVpc(w)
      PROVE  Settled'
  <2>1. /\ pc = "deploy" /\ pc' = "deploy" /\ w \in PlanSet
        /\ deployed' = [deployed EXCEPT ![w] = Built(w)]
        /\ UNCHANGED <<vpcTable, subnetTable, outputs, removed, rejected>>
    BY <1>6 DEF DeployVpc, tables, history
  <2>2. \A v \in Vpcs : Kept(v)' \subseteq Kept(v) \cup {IF v = w THEN Built(w) ELSE deployed[v]}
    BY <2>1 DEF Kept, Compared
  <2>3. ASSUME NEW v \in Vpcs, v \notin removed, NEW was \in Kept(v)'
        PROVE  Anchored(vpcTable', subnetTable', v) /\ ~ Moved(was, v)'
    <3>1. CASE was \in Kept(v)
      BY <1>s, <2>1, <2>3, <3>1
    <3>2. CASE was \notin Kept(v)
      <4>1. v = w /\ was = Built(v)
        BY <2>2, <2>3, <3>2 DEF Kept
      <4>2. Anchored(vpcTable, subnetTable, v)
        BY <2>1, <4>1 DEF Progress, Supplied, Anchored, HasSubnet
      <4>3. Built(v)' = Built(v) /\ Primary(vpcTable', v) = Primary(vpcTable, v)
        BY <2>1 DEF Built, Primary, Assigned
      <4>4. Built(v).first = Primary(vpcTable, v)
        BY DEF Built
      <4> QED BY <2>1, <4>1, <4>2, <4>3, <4>4 DEF Moved
    <3> QED BY <3>1, <3>2
  <2> QED BY <2>1, <2>3 DEF Settled
<1>7. ASSUME UNCHANGED <<vpcTable, subnetTable, removed>>,
             \A v \in Vpcs : Kept(v)' \subseteq Kept(v)
      PROVE  \A v \in Vpcs \ removed' : \A was \in Kept(v)' :
               Anchored(vpcTable', subnetTable', v) /\ ~ Moved(was, v)'
  BY <1>s, <1>7
<1>o. ASSUME NEW w \in Vpcs, StoreOutputs(w)
      PROVE  Settled'
  <2>1. /\ pc' # "copy" /\ outputs' = [outputs EXCEPT ![w] = deployed[w]]
        /\ UNCHANGED <<vpcTable, subnetTable, deployed, removed, rejected>>
    BY <1>o DEF StoreOutputs, tables, history
  <2>2. \A v \in Vpcs : Kept(v)' \subseteq Kept(v)
    BY <2>1 DEF Kept, Compared
  <2> QED BY <1>7, <2>1, <2>2 DEF Settled
<1>8. CASE NextVpc
  <2>1. /\ UNCHANGED <<vpcTable, subnetTable, deployed, outputs, removed, rejected, todo>>
        /\ pc = "next" /\ todo # <<>>
        /\ pc' = "copy" => /\ Unit[Vpc] # NoUnit
                           /\ left' = ItemsOf(Assigned(vpcTable, Vpc), Unit[Vpc])
    BY <1>8 DEF NextVpc, tables, mode, history
  <2>2. Vpc' = Vpc /\ Vpc \in Vpcs
    BY <1>t, <2>1, HeadAndTail DEF Vpc, TypeOK
  <2>3. pc' = "copy" /\ Vpc \notin removed /\ Kept(Vpc) # {} => left' = {}
    <3>1. SUFFICES ASSUME pc' = "copy", Vpc \notin removed, Kept(Vpc) # {}
                   PROVE  left' = {}
      OBVIOUS
    <3>2. ItemsOf(vpcTable, Vpc) # {}
      BY <2>1, <2>2, <3>1 DEF Settled, Anchored
    <3>3. Unit[Vpc] # Vpc
      BY <1>k, <2>2
    <3> QED BY <2>1, <3>1, <3>2, <3>3 DEF Assigned, ItemsOf
  <2> QED BY <1>7, <2>1, <2>2, <2>3 DEF Settled, Kept
<1>9. CASE ComparisonRejects
  <2>1. /\ UNCHANGED <<vpcTable, subnetTable, deployed, outputs, removed>> /\ pc' = "done"
        /\ rejected' = rejected \cup MovedOutputs
    BY <1>9 DEF ComparisonRejects, tables, mode
  <2>2. PlanSet \subseteq Vpcs
    BY <1>t DEF PlanSet, TypeOK
  <2>3. ASSUME NEW v \in MovedOutputs
        PROVE  v \in removed
    <3>1. v \in Vpcs /\ Moved(outputs[v], v) /\ outputs[v] \in Kept(v)
      BY <2>2 DEF MovedOutputs, Moved, Kept
    <3> QED BY <3>1 DEF Settled
  <2> QED BY <1>7, <2>1, <2>3 DEF Settled, Kept
<1>10. CASE UNCHANGED vars
  <2>1. UNCHANGED <<vpcTable, subnetTable, deployed, outputs, removed, rejected, pc, todo, left>>
    BY <1>10 DEF vars, tables, job, mode, history
  <2>2. Vpc' = Vpc
    BY <2>1 DEF Vpc
  <2> QED BY <1>7, <2>1, <2>2 DEF Settled, Kept
<1>11. ASSUME \/ \E n \in 0..Cardinality(Vpcs) :
                   \E order \in [1..n -> Vpcs], overrides \in BOOLEAN :
                     StartExecution(order, overrides)
              \/ PutPool \/ FindCidr \/ TryNextRange \/ CidrsDone \/ FindSubnet
              \/ SubnetsDone \/ CopiesDone \/ AssignmentDone \/ CompareConfigurations
              \/ PhaseDone \/ StoreCommitId \/ RecordIds \/ RecordDone \/ ExecutionEnds
       PROVE  /\ UNCHANGED <<vpcTable, subnetTable, deployed, outputs, removed, rejected>>
              /\ pc' # "copy"
  BY <1>11 DEF StartExecution, PutPool, FindCidr, TryNextRange, CidrsDone, FindSubnet,
               SubnetsDone, VpcDone, CopiesDone, AssignmentDone, CompareConfigurations,
               PhaseDone, StoreCommitId, RecordIds, RecordDone, ExecutionEnds, tables, mode,
               history
<1>12. CASE /\ UNCHANGED <<vpcTable, subnetTable, deployed, outputs, removed, rejected>>
            /\ pc' # "copy"
  BY <1>7, <1>12 DEF Settled, Kept
<1> QED
  BY <1>1, <1>2, <1>3, <1>4, <1>5, <1>6, <1>o, <1>8, <1>9, <1>10, <1>11, <1>12 DEF Next

-----------------------------------------------------------------------------
(* The theorems *)

LEMMA InductiveInvariant == Spec => [](IInv /\ Compared)
<1>1. Init => IInv /\ Compared
  <2>1. ASSUME Init
        PROVE  RangesSound /\ AssignedOnce /\ Compared
    BY <2>1 DEF Init, RangesSound, RangesDisjoint, RangesInPool, SubnetsInVpc, AssignedOnce,
                Compared
  <2> QED BY <2>1, StepInit DEF IInv
<1>2. IInv /\ Compared /\ [Next]_vars => IInv' /\ Compared'
  BY StepNext, RangesSoundNext, AssignedOnceNext, ComparedNext DEF IInv, StepInv
<1> QED BY <1>1, <1>2, PTL DEF Spec

\* The tables and the locals of the assignment keep their shape.
THEOREM TypeCorrect == Spec => []TypeOK
<1>1. IInv => TypeOK
  BY DEF IInv, StepInv
<1> QED BY <1>1, InductiveInvariant, PTL

\* Whatever the pools, the sizes, the VPCs and what users enter, and wherever executions
\* end: ranges of dynamic VPCs share no address with another's, and lie in their pools;
\* subnets lie in them and share none.
THEOREM RangesAreSound == Spec => []RangesSound
<1>1. IInv => RangesSound
  BY DEF IInv
<1> QED BY <1>1, InductiveInvariant, PTL

\* No execution assigns a second range where an earlier one, complete or not, did.
THEOREM AssignedOnlyOnce == Spec => []AssignedOnce
<1>1. IInv => AssignedOnce
  BY DEF IInv
<1> QED BY <1>1, InductiveInvariant, PTL

\* Every range that is assigned is the first of its size that was free in the pool.
THEOREM SearchIsFirstFit == Spec => FirstFit
<1> DEFINE Step == \A e \in vpcTable' \ vpcTable :
                     DynamicItem(e) =>
                       FirstFree(e.range, PoolRange[e.pool],
                                 {f.range : f \in ItemsOfPool(vpcTable, e.pool)})
<1>1. IInv /\ [Next]_vars => [Step]_vars
  <2>1. SUFFICES ASSUME StepInv, [Next]_vars
                 PROVE  Step
    BY DEF IInv
  <2>2. CASE UNCHANGED <<vpcTable, subnetTable>> \/ AssignSubnet \/ CopySubnet
    BY <2>2 DEF AssignSubnet, CopySubnet
  <2>3. CASE AssignCidr
    <3> DEFINE new == [key |-> Vpc, pool |-> Wanted.pool, range |-> candidate, order |-> 0]
    <3>1. /\ vpcTable' = vpcTable \cup {new} /\ pc = "search"
          /\ new.pool = Wanted.pool /\ new.range = candidate
      BY <2>3 DEF AssignCidr
    <3> HIDE DEF new
    <3>2. /\ FirstFree(candidate, PoolRange[new.pool], used)
          /\ used = {e.range : e \in ItemsOfPool(known, new.pool)}
      BY <2>1, <3>1 DEF StepInv, Searching
    <3>3. known \subseteq vpcTable
      BY <2>1 DEF StepInv, TypeOK
    <3>4. used \subseteq {f.range : f \in ItemsOfPool(vpcTable, new.pool)}
      BY <3>2, <3>3 DEF ItemsOfPool
    <3>5. FirstFree(candidate, PoolRange[new.pool],
                    {f.range : f \in ItemsOfPool(vpcTable, new.pool)})
      BY <3>2, <3>4 DEF FirstFree
    <3> QED BY <3>1, <3>5
  <2>4. CASE CopyItem
    <3>1. PICK e \in vpcTable :
             /\ vpcTable' = vpcTable \cup {[e EXCEPT !.key = Vpc]}
             /\ [e EXCEPT !.key = Vpc].key = Vpc
             /\ Unit[Vpc] # NoUnit
      BY <2>1, <2>4, NewCopy
    <3> QED BY <3>1 DEF DynamicItem
  <2>5. CASE \E u \in Units : UserEnters(u)
    BY <2>5, Constants DEF UserEnters, DynamicItem
  <2>6. CASE \E v \in Vpcs : UserRemoves(v)
    BY <2>6 DEF UserRemoves
  <2> QED BY <2>1, <2>2, <2>3, <2>4, <2>5, <2>6, Writers
<1>2. Spec => [][Step]_vars
  BY <1>1, InductiveInvariant, PTL DEF Spec
<1> QED BY <1>2 DEF FirstFit

LEMMA AchievedAlways == Spec => [](IInv /\ Compared /\ Achieved)
<1>1. Init => Achieved
  BY DEF Init, Achieved, Progress, Copies, IdsSoFar, Settled, Kept, Assigning, Dynamic,
         Copying, ItemsOf
<1>2. IInv /\ Compared /\ Achieved /\ [Next]_vars => Achieved'
  BY ProgressNext, CopiesNext, IdsSoFarNext, SettledNext DEF IInv, StepInv, Compared, Achieved
<1> QED BY <1>1, <1>2, InductiveInvariant, PTL DEF Spec

\* However often executions end and users enter and free ranges in between: the assignment
\* leaves its VPCs with all they ask for, copies that were cut short aside; and the last
\* step leaves the ids of what is deployed.
THEOREM AssignmentIsComplete == Spec => []AssignmentComplete
<1>1. IInv /\ Achieved => AssignmentComplete
  <2> SUFFICES ASSUME StepInv, Progress, Copies, IdsSoFar
               PROVE  AssignmentComplete
    BY DEF IInv, Achieved
  <2>1. ASSUME pc = "compare", NEW v \in PlanSet \ torn
        PROVE  Complete(v)
    <3>1. Supplied(vpcTable, subnetTable, v) /\ v \in Vpcs
      BY <2>1 DEF Progress, StepInv, TypeOK, PlanSet
    <3>2. CASE Unit[v] = NoUnit
      BY <3>1, <3>2 DEF Supplied, HasCidr, HasSubnet, Complete
    <3>3. CASE Unit[v] # NoUnit
      BY <2>1, <3>1, <3>3 DEF Supplied, HasSubnet, Copies, Complete
    <3> QED BY <3>2, <3>3
  <2>2. ASSUME pc = "record", todo = <<>>, NEW v \in PlanSet
        PROVE  IdsRecorded(v)
    BY <2>2 DEF IdsSoFar, Waiting
  <2> QED BY <2>1, <2>2 DEF AssignmentComplete
<1> QED BY <1>1, AchievedAlways, PTL

\* No end of an execution, no other VPC and no order of the configuration makes the
\* comparison reject a deployed VPC, unless its ranges were freed.
THEOREM DeploymentsAreAccepted == Spec => []DeploymentAccepted
<1>1. Achieved => DeploymentAccepted
  BY DEF Achieved, Settled, DeploymentAccepted
<1> QED BY <1>1, AchievedAlways, PTL

\* No execution, compared or not, moves a deployed VPC whose ranges no user freed; and one
\* that compares moves none that the outputs table had as it was deployed, even if its
\* ranges were freed and given away.
THEOREM DeploymentsStand == Spec => DeploymentStands
<1> DEFINE Step == \A v \in Vpcs : deployed[v] # NotDeployed => Stands(v) \/ Unnoticed(v)
<1>1. IInv /\ Compared /\ Achieved /\ [Next]_vars => [Step]_vars
  <2>1. SUFFICES ASSUME TypeOK, Compared, Settled, [Next]_vars
                 PROVE  Step
    BY DEF IInv, StepInv, Achieved
  <2>2. ASSUME NEW v \in Vpcs, DeployVpc(v)
        PROVE  Step
    <3>1. /\ pc = "deploy" /\ v \in PlanSet
          /\ deployed' = [deployed EXCEPT ![v] = Built(v)]
      BY <2>2 DEF DeployVpc
    <3>2. \A w \in Vpcs : deployed'[w] = IF w = v THEN Built(v) ELSE deployed[w]
      BY <2>1, <3>1 DEF Compared
    <3>3. ASSUME deployed[v] # NotDeployed, ~ Unnoticed(v)
          PROVE  ~ Moved(deployed[v], v)
      <4>1. CASE v \notin removed
        BY <2>1, <3>3, <4>1 DEF Settled, Kept
      <4>2. CASE Compares /\ seen[v] = deployed[v]
        <5>1. ~ Moved(seen[v], v)
          BY <2>1, <3>1, <4>2 DEF Compared
        <5> QED BY <4>2, <5>1
      <4> QED BY <3>3, <4>1, <4>2 DEF Unnoticed
    <3>4. Built(v).first = Primary(vpcTable, v)
      BY DEF Built
    <3>5. deployed[v] # NotDeployed => Stands(v) \/ Unnoticed(v)
      BY <3>2, <3>3, <3>4 DEF Moved, Stands
    <3>6. ASSUME NEW w \in Vpcs, w # v
          PROVE  Stands(w)
      BY <3>2, <3>6 DEF Stands
    <3> QED BY <3>5, <3>6
  <2>3. CASE deployed' = deployed
    BY <2>3 DEF Stands
  <2>4. deployed' = deployed \/ \E v \in Vpcs : DeployVpc(v)
    BY <2>1 DEF Next, vars, StartExecution, PutPool, NextVpc, FindCidr, TryNextRange,
           AssignCidr, CidrsDone, FindSubnet, AssignSubnet, SubnetsDone, CopyItem, CopiesDone,
           CopySubnet, AssignmentDone, CompareConfigurations, ComparisonRejects, PhaseDone,
           StoreOutputs, StoreCommitId, RecordIds, RecordDone, ExecutionEnds, UserEnters,
           UserRemoves
  <2> QED BY <2>2, <2>3, <2>4
<1>2. Spec => [][Step]_vars
  BY <1>1, AchievedAlways, PTL DEF Spec
<1> QED BY <1>2 DEF DeploymentStands

=============================================================================
