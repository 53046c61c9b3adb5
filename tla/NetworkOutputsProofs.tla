------------------------- MODULE NetworkOutputsProofs -------------------------
(***************************************************************************)
(* Proofs about NetworkOutputs: type correctness; that VPCs, and the       *)
(* subnets and security groups within each, have numbers of their own; and *)
(* that what is published is what is recorded, for any VPCs,               *)
(* configurations and number of runs.                                      *)
(***************************************************************************)
EXTENDS NetworkOutputs, Sequences, WellFoundedInduction, TLAPS

(***************************************************************************)
(* The inductive invariant.                                                *)
(***************************************************************************)

Bounded(list) == \E n \in Nat : \A e \in list : e.index <= n

VpcsDiffer(list) == \A e, f \in list : e.vpc = f.vpc <=> e.index = f.index

InVpc == pc \in {"nets", "groups"}
Saving == pc = "vpcs" \/ InVpc

\* What the run goes by.
RunIs ==
    /\ pc # "idle" => config \in Configs
    /\ InVpc => entry.vpc \in DOMAIN config /\ before.vpc = entry.vpc
    /\ pc = "groups" /\ names # {} => SourceOf(entry.vpc) # NoVpc
    /\ pc \in {"idle", "vpcs"} => names = {}
    /\ pc = "idle" => kept = {}

\* Every list has a highest number.
ListsBounded ==
    /\ Bounded(record) /\ Bounded(kept)
    /\ \A e \in record \cup kept : Bounded(e.groups) /\ Bounded(e.nets)
    /\ Bounded(entry.groups \cup before.groups) /\ Bounded(entry.nets \cup before.nets)

\* VPCs done so far and the one at hand: each with its old number, or a higher one.
KeptVpcs ==
    /\ VpcsDiffer(record) /\ VpcsDiffer(kept)
    /\ pc = "vpcs" => \A e \in kept : e.vpc \notin todo
    /\ Saving =>
         /\ \A e \in record \cup kept : e.index <= max
         /\ \A e \in kept, f \in record : e.vpc = f.vpc <=> e.index = f.index
    /\ InVpc =>
         /\ entry.index <= max
         /\ entry.vpc \notin todo /\ \A e \in kept : e.vpc \notin todo
         /\ \A e \in kept : e.vpc # entry.vpc /\ e.index # entry.index
         /\ \A f \in record : f.vpc = entry.vpc <=> f.index = entry.index

\* Within a VPC: a name that is yet to be done has its old entry or none.
KeptNames ==
    /\ \A e \in record \cup kept : Numbered(e.groups) /\ Numbered(e.nets)
    /\ pc = "nets" =>
         /\ Numbered(entry.nets \cup before.nets)
         /\ entry.groups = before.groups /\ Numbered(entry.groups)
         /\ \A n \in entry.nets : n.name \in names => Named(before.nets, n.name) # {}
    /\ pc = "groups" =>
         /\ Numbered(entry.nets) /\ Numbered(entry.groups \cup before.groups)
         /\ \A g \in entry.groups : g.name \in names => Named(before.groups, g.name) # {}

IInv == TypeOK /\ RunIs /\ ListsBounded /\ KeptVpcs /\ KeptNames

(***************************************************************************)
(* What is published, for as long as no run was cut short and none met two *)
(* shared VPCs.                                                            *)
(***************************************************************************)

Clean == ~ torn /\ ~ mixed

OneEach(list) == \A e, f \in list : e.vpc = f.vpc => e = f

\* The groups of a VPC are looked up in its own output.
SourcesInv ==
    /\ OneEach(record) /\ OneEach(kept)
    /\ InVpc => entry.vpc \in DOMAIN outputs
    /\ Saving /\ ~ mixed => \A v \in DOMAIN outputs : SourceOf(v) \in {v, NoVpc}

\* What the entry at hand is made of: what it had, and what is wanted.
MadeOf(list, old, wanted) ==
    /\ names \subseteq wanted
    /\ \A m \in list : m \in old \/ m.name \in wanted
    /\ \A m \in old : m.name \in names => m \in list

NamesInv ==
    /\ pc = "nets" => MadeOf(entry.nets, before.nets, SubnetNames(entry.vpc))
    /\ pc = "groups" => MadeOf(entry.groups, before.groups, config[entry.vpc].groups)

\* Leftover VPCs have no entry in the new list.
LeftInv ==
    /\ Saving => left \subseteq record /\ \A e \in left, k \in kept : e.vpc # k.vpc
    /\ pc = "sweep" => \A e \in left, f \in record : e.index # f.index

Param(path, v, n) == [path |-> path, vpc |-> v, name |-> n]

Published(e) ==
    /\ Param(VpcPath(e.index), e.vpc, e.vpc) \in params
    /\ \A g \in e.groups :
         <<e.vpc, g.name>> \notin missed => Param(GroupPath(e.index, g), e.vpc, g.name) \in params
    /\ \A n \in e.nets : \A z \in n.zones :
         <<e.vpc, n.name, z>> \notin missed =>
             Param(SubnetPath(e.index, n, z), e.vpc, n.name) \in params

PublishedInv ==
    Clean =>
        /\ pc \in {"idle", "sweep"} => \A e \in record : Published(e)
        /\ Saving => /\ \A e \in kept : Published(e)
                     /\ \A e \in record : e.vpc \in todo => Published(e)
        /\ InVpc => Published(entry)

\* The entries that account for what is published.
Holders ==
    CASE pc = "idle" -> record
      [] pc = "sweep" -> record \cup left
      [] pc = "vpcs" -> kept \cup left
      [] OTHER -> kept \cup (left \ EntryOf(record, entry.vpc)) \cup {entry}

Holds(e, p) == p.path \in VpcPaths(e) /\ p.vpc = e.vpc

OwnersInv ==
    Clean /\ ~ stray =>
        \A p \in params : p.path = Cidr2Path(p.path[1]) \/ \E e \in Holders : Holds(e, p)

\* Groups gone through that have no output are known to be missing.
MissedInv ==
    pc = "groups" =>
        \A g \in config[entry.vpc].groups \ names :
            (SavesGroups(entry.vpc) /\ g \notin outputs[SourceOf(entry.vpc)].groups)
            => <<entry.vpc, g>> \in missed

PInv == SourcesInv /\ NamesInv /\ LeftInv /\ MissedInv /\ PublishedInv /\ OwnersInv

-----------------------------------------------------------------------------
(* Lists and their highest numbers *)

\* A set of numbers with a bound has a highest element: the one that is least below it.
LEMMA HighestExists ==
    ASSUME NEW S \in SUBSET Nat, S # {},
           NEW n \in Nat, \A s \in S : s <= n
    PROVE  \E x \in S : \A y \in S : x >= y
<1> DEFINE Below == {n - s : s \in S}
<1>1. Below \subseteq Nat /\ Below # {}
  <2>1. \A s \in S : n - s \in Nat /\ n - s \in Below
    OBVIOUS
  <2> QED BY <2>1
<1>2. PICK d \in Below : \A c \in Below : ~ (<<c, d>> \in OpToRel(<, Nat))
  BY <1>1, NatLessThanWellFounded, WFMin, Zenon
<1>3. \A c \in Below : ~ (c < d)
  BY <1>1, <1>2 DEF OpToRel
<1>4. PICK x \in S : d = n - x
  OBVIOUS
<1>5. \A y \in S : x >= y
  BY <1>3, <1>4
<1> QED BY <1>5

LEMMA MaxIndexProperties ==
    ASSUME NEW l, \A e \in l : e.index \in Nat, Bounded(l)
    PROVE  /\ MaxIndex(l) \in Nat
           /\ \A e \in l : e.index <= MaxIndex(l)
           /\ MaxIndex(l) = 0 \/ \E e \in l : e.index = MaxIndex(l)
<1> DEFINE S == {e.index : e \in l} \cup {0}
<1>1. PICK n \in Nat : \A e \in l : e.index <= n
  BY DEF Bounded
<1>2. S \in SUBSET Nat /\ S # {} /\ \A s \in S : s <= n
  BY <1>1
<1>3. \E x \in S : \A y \in S : x >= y
  <2> HIDE DEF S
  <2> QED BY <1>2, HighestExists
<1>4. Max(S) \in S /\ \A y \in S : Max(S) >= y
  BY <1>3 DEF Max
<1> QED BY <1>2, <1>4 DEF MaxIndex

LEMMA PartIsBounded ==
    ASSUME NEW l, Bounded(l), NEW part, part \subseteq l
    PROVE  Bounded(part)
BY DEF Bounded

LEMMA OneMoreIsBounded ==
    ASSUME NEW l, \A e \in l : e.index \in Nat, Bounded(l), NEW x, x.index \in Nat
    PROVE  Bounded(l \cup {x})
<1>1. PICK n \in Nat : \A e \in l : e.index <= n
  BY DEF Bounded
<1>2. \A e \in l \cup {x} : e.index <= n + x.index
  BY <1>1
<1> QED BY <1>1, <1>2 DEF Bounded

\* The entry of a name in a list: the number it had, or one higher than all.
LEMMA NumberOfName ==
    ASSUME NEW was, NEW is, \A e \in is \cup was : e.index \in Nat,
           Bounded(is \cup was), Numbered(is \cup was),
           NEW x, \A e \in is : e.name = x.name => Named(was, x.name) # {},
           x.index = IF Named(was, x.name) # {} THEN MaxIndex(Named(was, x.name))
                     ELSE MaxIndex(was \cup is) + 1
    PROVE  LET now == (is \ Named(was, x.name)) \cup {x}
           IN /\ x.index \in Nat
              /\ Numbered(now \cup was) /\ Bounded(now \cup was)
<1> DEFINE had == Named(was, x.name)
           now == (is \ had) \cup {x}
<1>1. CASE had # {}
  <2>1. PICK h \in had : TRUE
    BY <1>1
  <2>2. h \in was /\ h.name = x.name /\ \A e \in had : e \in was /\ e.name = x.name
    BY DEF Named
  <2>3. \A e \in had : e.index = h.index
    BY <2>2 DEF Numbered
  <2>4. /\ MaxIndex(had) \in Nat /\ h.index <= MaxIndex(had)
        /\ MaxIndex(had) = 0 \/ \E e \in had : e.index = MaxIndex(had)
    <3>1. had \subseteq is \cup was /\ \A e \in had : e.index \in Nat
      BY <2>2
    <3>2. Bounded(had)
      BY <3>1, PartIsBounded
    <3> HIDE DEF had
    <3> QED BY <2>1, <3>1, <3>2, MaxIndexProperties
  <2>5. x.index = h.index /\ h.index \in Nat
    BY <1>1, <2>2, <2>3, <2>4
  <2>6. \A e \in now \cup was : \E f \in is \cup was : f.name = e.name /\ f.index = e.index
    BY <2>2, <2>5
  <2>7. Numbered(now \cup was)
    <3> HIDE DEF now
    <3> QED BY <2>6 DEF Numbered
  <2>8. Bounded(now \cup was)
    <3> HIDE DEF now
    <3>1. PICK n \in Nat : \A e \in is \cup was : e.index <= n
      BY DEF Bounded
    <3>2. \A e \in now \cup was : e.index <= n
      BY <2>6, <3>1
    <3> QED BY <3>1, <3>2 DEF Bounded
  <2> QED BY <2>5, <2>7, <2>8
<1>2. CASE had = {}
  <2>1. /\ MaxIndex(was \cup is) \in Nat
        /\ \A e \in was \cup is : e.index <= MaxIndex(was \cup is)
    <3>1. \A e \in was \cup is : e.index \in Nat
      OBVIOUS
    <3>2. Bounded(was \cup is)
      BY PartIsBounded
    <3> QED BY <3>1, <3>2, MaxIndexProperties
  <2>2. x.index = MaxIndex(was \cup is) + 1
    BY <1>2
  <2>3. \A e \in is \cup was : e.name # x.name /\ e.index < x.index
    <3>1. \A e \in was : e.name # x.name
      BY <1>2 DEF Named
    <3>2. \A e \in is : e.name # x.name
      BY <1>2
    <3>3. \A e \in is \cup was : e.index < x.index
      <4>1. ASSUME NEW e \in is \cup was
            PROVE  e.index \in Nat /\ e.index <= MaxIndex(was \cup is)
        BY <2>1
      <4> QED BY <2>1, <2>2, <4>1
    <3> QED BY <3>1, <3>2, <3>3
  <2>4. x.index \in Nat /\ Numbered(now \cup was)
    BY <2>1, <2>2, <2>3 DEF Numbered
  <2>5. Bounded(now \cup was)
    <3>1. now \cup was \subseteq (is \cup was) \cup {x}
      OBVIOUS
    <3>2. Bounded((is \cup was) \cup {x})
      BY <2>4, OneMoreIsBounded
    <3> HIDE DEF now
    <3> QED BY <3>1, <3>2, PartIsBounded
  <2> QED BY <2>4, <2>5
<1> QED BY <1>1, <1>2

-----------------------------------------------------------------------------
(* Types *)

LEMMA ConfigType ==
    ASSUME NEW c \in Configs
    PROVE  /\ DOMAIN c \subseteq Vpcs
           /\ \A v \in DOMAIN c :
                /\ c[v].groups \subseteq Groups
                /\ \A s \in c[v].nets : s[1] \in Subnets /\ s[2] \in Zones
<1>1. c \in UNION {[vs -> VpcConfig] : vs \in SUBSET Vpcs}
  BY NetworkAssumption
<1>2. PICK vs \in SUBSET Vpcs : c \in [vs -> VpcConfig]
  BY <1>1
<1>3. \A v \in DOMAIN c : c[v] \in VpcConfig
  BY <1>2
<1> QED BY <1>2, <1>3 DEF VpcConfig

\* What the entry at hand is made of.
LEMMA EntryType ==
    ASSUME TypeOK
    PROVE  /\ \A e \in record \cup kept \cup left : e.vpc \in Vpcs /\ e.index \in Nat
           /\ \A e \in record \cup kept \cup left : \A g \in e.groups \cup e.nets : g.index \in Nat
           /\ entry.index \in Nat /\ before.index \in Nat
           /\ \A g \in entry.groups \cup before.groups : g \in GroupEntries /\ g.index \in Nat
           /\ \A n \in entry.nets \cup before.nets :
                n \in SubnetEntries /\ n.index \in Nat /\ n.zones \subseteq Zones
BY DEF TypeOK, IsEntry, GroupEntries, SubnetEntries

LEMMA NewVpc ==
    ASSUME NEW v, NEW i
    PROVE  LET e == [NoEntry EXCEPT !.vpc = v, !.index = i]
           IN /\ e.vpc = v /\ e.index = i /\ e.groups = {} /\ e.nets = {}
              /\ DOMAIN e = {"vpc", "index", "groups", "nets"}
BY DEF NoEntry

LEMMA NoEntryType ==
    /\ NoEntry.groups = {} /\ NoEntry.nets = {} /\ NoEntry.vpc = NoVpc
    /\ IsEntry(NoEntry, Vpcs \cup {NoVpc})
BY DEF NoEntry, IsEntry

\* The entry after a subnet and after a group.
LEMMA SubnetPut ==
    ASSUME IInv, NEW n \in Subnets, PutSubnet(n)
    PROVE  /\ entry'.vpc = entry.vpc /\ entry'.index = entry.index
           /\ entry'.groups = entry.groups /\ IsEntry(entry', Vpcs \cup {NoVpc})
           /\ Numbered(entry'.nets \cup before.nets) /\ Bounded(entry'.nets \cup before.nets)
           /\ \A m \in entry'.nets : m \in entry.nets \/ m.name = n
<1> DEFINE had == Named(before.nets, n)
           zones == ZonesOf(entry.vpc, n)
           new == [name |-> n, zones |-> zones,
                   index |-> IF had # {} THEN MaxIndex(had)
                             ELSE MaxIndex(before.nets \cup entry.nets) + 1]
<1>1. /\ entry' = [entry EXCEPT !.nets = (entry.nets \ had) \cup {new}]
      /\ pc = "nets" /\ n \in names
  BY DEF PutSubnet
<1>2. /\ Numbered(entry.nets \cup before.nets) /\ Bounded(entry.nets \cup before.nets)
      /\ \A m \in entry.nets : m.name \in names => Named(before.nets, m.name) # {}
      /\ \A m \in entry.nets \cup before.nets : m.index \in Nat
      /\ TypeOK
  BY <1>1, EntryType DEF IInv, KeptNames, ListsBounded
<1>3. /\ new.name = n /\ new.zones = zones
      /\ new.index = IF Named(before.nets, new.name) # {} THEN MaxIndex(Named(before.nets, new.name))
                     ELSE MaxIndex(before.nets \cup entry.nets) + 1
  OBVIOUS
<1>4. zones \subseteq Zones
  <2>1. config[entry.vpc].nets = {s \in config[entry.vpc].nets : s[2] \in Zones}
    BY <1>1, ConfigType DEF IInv, RunIs, InVpc
  <2> QED BY <2>1 DEF ZonesOf
<1>5. new = [name |-> n, zones |-> zones, index |-> new.index]
  OBVIOUS
<1> HIDE DEF new
<1>6. \A m \in entry.nets : m.name = new.name => Named(before.nets, new.name) # {}
  BY <1>1, <1>2, <1>3
<1>7. /\ new.index \in Nat
      /\ Numbered(((entry.nets \ had) \cup {new}) \cup before.nets)
      /\ Bounded(((entry.nets \ had) \cup {new}) \cup before.nets)
  BY <1>2, <1>3, <1>6, NumberOfName
<1>8. (entry.nets \ had) \cup {new} \subseteq SubnetEntries
  <2>1. new \in SubnetEntries
    BY <1>4, <1>5, <1>7 DEF SubnetEntries
  <2>2. entry.nets \subseteq SubnetEntries
    BY <1>2, EntryType
  <2> QED BY <2>1, <2>2
<1>9. IsEntry(entry, Vpcs \cup {NoVpc})
  BY <1>2 DEF TypeOK
<1> DEFINE nets == (entry.nets \ had) \cup {new}
<1>10. /\ \A m \in nets : m \in entry.nets \/ m.name = n
       /\ nets \subseteq SubnetEntries /\ entry' = [entry EXCEPT !.nets = nets]
       /\ Numbered(nets \cup before.nets) /\ Bounded(nets \cup before.nets)
  BY <1>1, <1>3, <1>7, <1>8
<1> HIDE DEF nets
<1>11. /\ entry'.nets = nets /\ entry'.groups = entry.groups
       /\ entry'.vpc = entry.vpc /\ entry'.index = entry.index
       /\ IsEntry(entry', Vpcs \cup {NoVpc})
  BY <1>9, <1>10 DEF IsEntry
<1> QED BY <1>10, <1>11

LEMMA GroupPut ==
    ASSUME IInv, NEW g \in Groups, PutGroup(g)
    PROVE  /\ entry'.vpc = entry.vpc /\ entry'.index = entry.index
           /\ entry'.nets = entry.nets /\ IsEntry(entry', Vpcs \cup {NoVpc})
           /\ Numbered(entry'.groups \cup before.groups)
           /\ Bounded(entry'.groups \cup before.groups)
           /\ \A m \in entry'.groups : m \in entry.groups \/ m.name = g
<1> DEFINE had == Named(before.groups, g)
           new == GroupEntry(g)
<1>1. /\ entry' = [entry EXCEPT !.groups = (entry.groups \ had) \cup {new}]
      /\ pc = "groups" /\ g \in names
  BY DEF PutGroup
<1>2. /\ Numbered(entry.groups \cup before.groups) /\ Bounded(entry.groups \cup before.groups)
      /\ \A m \in entry.groups : m.name \in names => Named(before.groups, m.name) # {}
      /\ \A m \in entry.groups \cup before.groups : m.index \in Nat
      /\ TypeOK
  BY <1>1, EntryType DEF IInv, KeptNames, ListsBounded
<1>3. /\ new.name = g
      /\ new.index = IF Named(before.groups, new.name) # {}
                     THEN MaxIndex(Named(before.groups, new.name))
                     ELSE MaxIndex(before.groups \cup entry.groups) + 1
      /\ new = [name |-> g, index |-> new.index]
  BY DEF GroupEntry
<1> HIDE DEF new
<1>4. \A m \in entry.groups : m.name = new.name => Named(before.groups, new.name) # {}
  BY <1>1, <1>2, <1>3
<1>5. /\ new.index \in Nat
      /\ Numbered(((entry.groups \ had) \cup {new}) \cup before.groups)
      /\ Bounded(((entry.groups \ had) \cup {new}) \cup before.groups)
  BY <1>2, <1>3, <1>4, NumberOfName
<1>6. (entry.groups \ had) \cup {new} \subseteq GroupEntries
  <2>1. new \in GroupEntries
    BY <1>3, <1>5 DEF GroupEntries
  <2>2. entry.groups \subseteq GroupEntries
    BY <1>2, EntryType
  <2> QED BY <2>1, <2>2
<1>7. IsEntry(entry, Vpcs \cup {NoVpc})
  BY <1>2 DEF TypeOK
<1> DEFINE groups == (entry.groups \ had) \cup {new}
<1>8. /\ \A m \in groups : m \in entry.groups \/ m.name = g
      /\ groups \subseteq GroupEntries /\ entry' = [entry EXCEPT !.groups = groups]
      /\ Numbered(groups \cup before.groups) /\ Bounded(groups \cup before.groups)
  BY <1>1, <1>3, <1>5, <1>6
<1> HIDE DEF groups
<1>9. /\ entry'.groups = groups /\ entry'.nets = entry.nets
      /\ entry'.vpc = entry.vpc /\ entry'.index = entry.index
      /\ IsEntry(entry', Vpcs \cup {NoVpc})
  BY <1>7, <1>8 DEF IsEntry
<1> QED BY <1>8, <1>9

\* The entry of a VPC when it is done.
LEMMA VpcPut ==
    ASSUME IInv, GroupsDone
    PROVE  \E e :
             /\ kept' = kept \cup {e} /\ IsEntry(e, Vpcs)
             /\ e.vpc = entry.vpc /\ e.index = entry.index
             /\ e.nets = entry.nets /\ e.groups \subseteq entry.groups
<1>1. PICK gone : kept' = kept \cup {[entry EXCEPT !.groups = entry.groups \ gone]}
  BY DEF GroupsDone
<1>2. IsEntry(entry, Vpcs \cup {NoVpc}) /\ entry.vpc \in Vpcs
  <2>1. entry.vpc \in DOMAIN config /\ config \in Configs
    BY DEF GroupsDone, IInv, RunIs, InVpc
  <2> QED BY <2>1, ConfigType DEF IInv, TypeOK
<1>3. entry.groups \ gone \subseteq GroupEntries
  BY <1>2 DEF IsEntry
<1> DEFINE rest == entry.groups \ gone
           e == [entry EXCEPT !.groups = rest]
<1>4. /\ e.vpc = entry.vpc /\ e.index = entry.index
      /\ e.nets = entry.nets /\ e.groups = rest /\ rest \subseteq entry.groups
      /\ IsEntry(e, Vpcs \cup {NoVpc})
  <2>1. rest \subseteq GroupEntries /\ rest \subseteq entry.groups
    BY <1>3
  <2> HIDE DEF rest
  <2> QED BY <1>2, <2>1 DEF IsEntry
<1> HIDE DEF e
<1>5. IsEntry(e, Vpcs)
  BY <1>2, <1>4 DEF IsEntry
<1> QED BY <1>1, <1>4, <1>5 DEF e

-----------------------------------------------------------------------------
(* Every step keeps the invariant *)

LEMMA Initially == Init => IInv
<1> SUFFICES ASSUME Init
             PROVE  IInv
  OBVIOUS
<1>1. TypeOK
  <2>1. {torn, stray, mixed} \subseteq BOOLEAN
    BY DEF Init
  <2> QED BY <2>1, NoEntryType DEF Init, TypeOK
<1>2. RunIs /\ KeptVpcs /\ KeptNames
  BY DEF Init, RunIs, KeptVpcs, KeptNames, InVpc, Saving, VpcsDiffer
<1>3. ListsBounded
  BY NoEntryType DEF Init, ListsBounded, Bounded
<1> QED BY <1>1, <1>2, <1>3 DEF IInv

LEMMA Preserved ==
    ASSUME IInv, [Next]_vars
    PROVE  IInv'
<1>t. TypeOK /\ RunIs /\ ListsBounded /\ KeptVpcs /\ KeptNames
  BY DEF IInv
<1>i. /\ \A e \in record \cup kept \cup left : e.vpc \in Vpcs /\ e.index \in Nat
      /\ entry.index \in Nat /\ max \in Nat
  BY <1>t, EntryType DEF TypeOK
<1> USE DEF InVpc, Saving
<1>1. ASSUME NEW c \in Configs, NEW o \in Configs, NEW source \in Vpcs \cup {NoVpc},
             StartSaving(c, o, source)
      PROVE  IInv'
  <2>1. /\ pc = "idle" /\ pc' = "vpcs" /\ config' = c /\ todo' = DOMAIN c /\ outputs' = o
        /\ first' = source
        /\ max' = MaxIndex(record) /\ left' = record /\ runs' = runs + 1
        /\ UNCHANGED <<record, params, entry, before, names, kept, torn, stray>>
    BY <1>1 DEF StartSaving
  <2>2. MaxIndex(record) \in Nat /\ \A e \in record : e.index <= MaxIndex(record)
    BY <1>t, <1>i, MaxIndexProperties DEF ListsBounded
  <2>3. TypeOK'
    <3>1. {torn, stray, mixed}' \subseteq BOOLEAN
      <4>1. mixed' \in BOOLEAN /\ torn' = torn /\ stray' = stray
        BY <1>1, <1>t, Zenon DEF StartSaving, TypeOK
      <4> QED BY <1>t, <4>1 DEF TypeOK
    <3>2. DOMAIN outputs' \subseteq Vpcs
      BY <2>1, ConfigType
    <3> QED BY <1>t, <2>1, <2>2, <3>1, <3>2 DEF TypeOK
  <2>4. RunIs' /\ ListsBounded' /\ KeptNames'
    BY <1>t, <2>1 DEF RunIs, ListsBounded, KeptNames
  <2>5. KeptVpcs'
    BY <1>t, <2>1, <2>2 DEF RunIs, KeptVpcs
  <2> QED BY <2>3, <2>4, <2>5 DEF IInv
<1>2. ASSUME NEW v \in Vpcs, VpcNotBuilt(v)
      PROVE  IInv'
  <2>1. /\ pc = "vpcs" /\ pc' = "vpcs" /\ todo' = todo \ {v} /\ left' \subseteq left
        /\ max' \in {max, max + 1}
        /\ UNCHANGED <<record, params, config, outputs, first, entry, before, names, kept,
                       runs, torn, mixed, missed>>
    BY <1>2 DEF VpcNotBuilt, Turn
  <2>2. TypeOK'
    <3>1. {torn, stray, mixed}' \subseteq BOOLEAN
      <4>1. stray' \in BOOLEAN /\ torn' = torn /\ mixed' = mixed
        BY <1>2, <1>t, Zenon DEF VpcNotBuilt, TypeOK
      <4> QED BY <1>t, <4>1 DEF TypeOK
    <3> QED BY <1>t, <1>i, <2>1, <3>1 DEF TypeOK
  <2>3. RunIs' /\ ListsBounded' /\ KeptNames'
    BY <1>t, <2>1 DEF RunIs, ListsBounded, KeptNames
  <2>4. KeptVpcs'
    <3>1. \A e \in record \cup kept : e.index <= max'
      <4>1. \A e \in record \cup kept : e.index <= max
        BY <1>t, <2>1 DEF KeptVpcs
      <4> QED BY <1>i, <2>1, <4>1
    <3> QED BY <1>t, <2>1, <3>1 DEF KeptVpcs
  <2> QED BY <2>2, <2>3, <2>4 DEF IInv
<1>3. ASSUME NEW v \in Vpcs, KeepVpc(v)
      PROVE  IInv'
  <2>1. PICK e \in record : e.vpc = v /\ entry' = e /\ before' = e
    BY <1>3 DEF KeepVpc, EntryOf
  <2>2. /\ pc = "vpcs" /\ pc' = "nets" /\ v \in todo /\ todo' = todo \ {v}
        /\ names' = SubnetNames(v)
        /\ UNCHANGED <<record, params, config, outputs, first, max, left, kept, history>>
    BY <1>3 DEF KeepVpc, Turn
  <2>3. config \in Configs /\ v \in DOMAIN config
    BY <1>t, <2>2 DEF RunIs, TypeOK
  <2>4. TypeOK'
    <3>1. SubnetNames(v) \subseteq Subnets
      BY <2>3, ConfigType DEF SubnetNames
    <3>2. IsEntry(e, Vpcs \cup {NoVpc})
      BY <1>t, <2>1 DEF TypeOK, IsEntry
    <3>3. {torn, stray, mixed}' \subseteq BOOLEAN
      BY <1>t, <2>2, Zenon DEF TypeOK, history
    <3> QED BY <1>t, <2>1, <2>2, <3>1, <3>2, <3>3 DEF TypeOK, history
  <2>5. RunIs'
    BY <2>1, <2>2, <2>3 DEF RunIs
  <2>6. ListsBounded'
    BY <1>t, <2>1, <2>2 DEF ListsBounded
  <2>7. KeptVpcs'
    BY <1>t, <2>1, <2>2 DEF KeptVpcs, VpcsDiffer
  <2>8. KeptNames'
    <3>1. \A n \in e.nets : Named(e.nets, n.name) # {}
      BY DEF Named
    <3> QED BY <1>t, <2>1, <2>2, <3>1 DEF KeptNames
  <2> QED BY <2>4, <2>5, <2>6, <2>7, <2>8 DEF IInv
<1>4. ASSUME NEW v \in Vpcs, PutVpc(v)
      PROVE  IInv'
  <2>1. /\ pc = "vpcs" /\ pc' = "nets" /\ v \in todo /\ todo' = todo \ {v}
        /\ EntryOf(record, v) = {}
        /\ entry' = [NoEntry EXCEPT !.vpc = v, !.index = max + 1] /\ before' = entry'
        /\ max' = max + 1 /\ names' = SubnetNames(v)
        /\ UNCHANGED <<record, config, outputs, first, left, kept, history>>
    BY <1>4 DEF PutVpc, PutVpcAt, Turn
  <2>2. /\ entry'.vpc = v /\ entry'.index = max + 1 /\ entry'.groups = {} /\ entry'.nets = {}
        /\ IsEntry(entry', Vpcs \cup {NoVpc})
    BY <1>i, <2>1, NewVpc DEF IsEntry
  <2>3. config \in Configs /\ v \in DOMAIN config
    BY <1>t, <2>1 DEF RunIs, TypeOK
  <2>4. \A p \in params' : /\ p.path[1] \in Nat /\ p.vpc \in Vpcs
                           /\ p.name \in Vpcs \cup Groups \cup Subnets
    <3> DEFINE paths == {VpcPath(max + 1)} \cup (IF v \in Wide THEN {Cidr2Path(max + 1)} ELSE {})
               new == {[path |-> path, vpc |-> v, name |-> v] : path \in paths}
    <3>1. \A path \in paths : path[1] = max + 1
      BY DEF VpcPath, Cidr2Path
    <3>2. params' = Put(params, new)
      BY <1>4 DEF PutVpc, PutVpcAt
    <3>3. \A p \in new : p.path[1] = max + 1 /\ p.vpc = v /\ p.name = v
      BY <3>1
    <3> HIDE DEF new
    <3> QED BY <1>t, <1>i, <3>2, <3>3 DEF Put, TypeOK
  <2>5. TypeOK'
    <3>1. SubnetNames(v) \subseteq Subnets
      BY <2>3, ConfigType DEF SubnetNames
    <3>2. {torn, stray, mixed}' \subseteq BOOLEAN
      BY <1>t, <2>1, Zenon DEF TypeOK, history
    <3> QED BY <1>t, <1>i, <2>1, <2>2, <2>4, <3>1, <3>2 DEF TypeOK, history
  <2>6. RunIs'
    BY <2>1, <2>2, <2>3 DEF RunIs
  <2>7. ListsBounded'
    BY <1>t, <2>1, <2>2 DEF ListsBounded, Bounded
  <2>8. KeptVpcs'
    <3>1. \A f \in record : f.vpc # v
      BY <2>1 DEF EntryOf
    <3>2. \A f \in record \cup kept : f.index <= max /\ f.index # max + 1
      BY <1>t, <1>i, <2>1 DEF KeptVpcs
    <3>3. \A f \in record \cup kept : f.index <= max + 1
      BY <1>i, <3>2
    <3> QED BY <1>t, <1>i, <2>1, <2>2, <3>1, <3>2, <3>3 DEF KeptVpcs
  <2>9. KeptNames'
    BY <1>t, <2>1, <2>2 DEF KeptNames, Numbered
  <2> QED BY <2>5, <2>6, <2>7, <2>8, <2>9 DEF IInv
<1>5. ASSUME NEW n \in Subnets, PutSubnet(n)
      PROVE  IInv'
  <2>1. /\ entry'.vpc = entry.vpc /\ entry'.index = entry.index
        /\ entry'.groups = entry.groups /\ IsEntry(entry', Vpcs \cup {NoVpc})
        /\ Numbered(entry'.nets \cup before.nets) /\ Bounded(entry'.nets \cup before.nets)
        /\ \A m \in entry'.nets : m \in entry.nets \/ m.name = n
    BY <1>5, SubnetPut
  <2>2. /\ pc = "nets" /\ n \in names /\ names' = names \ {n}
        /\ UNCHANGED <<record, pc, config, outputs, first, todo, max, before, left, kept, runs,
                       torn, mixed>>
    BY <1>5 DEF PutSubnet
  <2>3. config \in Configs /\ entry.vpc \in DOMAIN config
    BY <1>t, <2>2 DEF RunIs
  <2>4. \A p \in params' : /\ p.path[1] \in Nat /\ p.vpc \in Vpcs
                           /\ p.name \in Vpcs \cup Groups \cup Subnets
    <3> DEFINE had == Named(before.nets, n)
               zones == ZonesOf(entry.vpc, n)
               new == [name |-> n, zones |-> zones,
                       index |-> IF had # {} THEN MaxIndex(had)
                                 ELSE MaxIndex(before.nets \cup entry.nets) + 1]
               added == {z \in zones \ UNION {h.zones : h \in had} :
                           <<n, z>> \in outputs[entry.vpc].nets}
    <3>1. params' = Put(params, {[path |-> SubnetPath(entry.index, new, z),
                                  vpc |-> entry.vpc, name |-> n] : z \in added})
      BY <1>5 DEF PutSubnet
    <3> HIDE DEF new, added
    <3>2. entry.vpc \in Vpcs
      BY <2>3, ConfigType
    <3>3. \A z \in added : SubnetPath(entry.index, new, z)[1] = entry.index
      BY DEF SubnetPath
    <3> QED BY <1>t, <1>i, <3>1, <3>2, <3>3 DEF Put, TypeOK
  <2>5. TypeOK'
    <3>1. {torn, stray, mixed}' \subseteq BOOLEAN
      <4>1. stray' \in BOOLEAN /\ torn' = torn /\ mixed' = mixed
        BY <1>5, <1>t, Zenon DEF PutSubnet, TypeOK
      <4> QED BY <1>t, <4>1 DEF TypeOK
    <3> QED BY <1>t, <2>1, <2>2, <2>4, <3>1 DEF TypeOK
  <2>6. RunIs' /\ KeptVpcs'
    BY <1>t, <2>1, <2>2 DEF RunIs, KeptVpcs
  <2>7. ListsBounded'
    BY <1>t, <2>1, <2>2 DEF ListsBounded
  <2>8. KeptNames'
    BY <1>t, <2>1, <2>2 DEF KeptNames
  <2> QED BY <2>5, <2>6, <2>7, <2>8 DEF IInv
<1>6. CASE SubnetsDone
  <2>1. PICK gone : /\ params' = Without(params, SubnetPaths(entry.index, gone))
                    /\ entry' = [entry EXCEPT !.nets = entry.nets \ gone]
    BY <1>6 DEF SubnetsDone
  <2>2. /\ pc = "nets" /\ names = {} /\ pc' = "groups"
        /\ names' = IF SavesGroups(entry.vpc) THEN config[entry.vpc].groups ELSE {}
        /\ UNCHANGED <<record, config, outputs, first, todo, max, before, left, kept, history>>
    BY <1>6 DEF SubnetsDone
  <2>3. config \in Configs /\ entry.vpc \in DOMAIN config
    BY <1>t, <2>2 DEF RunIs
  <2>4. /\ entry'.vpc = entry.vpc /\ entry'.index = entry.index
        /\ entry'.groups = entry.groups /\ IsEntry(entry', Vpcs \cup {NoVpc})
        /\ entry'.nets \subseteq entry.nets
    BY <1>t, <2>1 DEF TypeOK, IsEntry
  <2>5. TypeOK'
    <3>1. names' \subseteq Subnets \cup Groups
      BY <2>2, <2>3, ConfigType
    <3>2. {torn, stray, mixed}' \subseteq BOOLEAN
      BY <1>t, <2>2, Zenon DEF TypeOK, history
    <3>3. params' \subseteq params
      BY <2>1 DEF Without
    <3> QED BY <1>t, <2>2, <2>4, <3>1, <3>2, <3>3 DEF TypeOK, history
  <2>6. RunIs'
    <3>1. SourceOf(entry.vpc)' = SourceOf(entry.vpc)
      BY <2>2, <2>4 DEF SourceOf
    <3> QED BY <1>t, <2>2, <2>4, <3>1 DEF RunIs, SavesGroups
  <2>7. KeptVpcs'
    BY <1>t, <2>2, <2>4 DEF KeptVpcs
  <2>8. ListsBounded'
    <3>1. entry'.nets \cup before'.nets \subseteq entry.nets \cup before.nets
      BY <2>2, <2>4
    <3> QED BY <1>t, <2>2, <2>4, <3>1, PartIsBounded DEF ListsBounded
  <2>9. KeptNames'
    <3>1. Numbered(entry'.nets)
      BY <1>t, <2>2, <2>4 DEF KeptNames, Numbered
    <3>2. \A g \in entry.groups : Named(before.groups, g.name) # {}
      BY <1>t, <2>2 DEF KeptNames, Named
    <3> QED BY <1>t, <2>2, <2>4, <3>1, <3>2 DEF KeptNames
  <2> QED BY <2>5, <2>6, <2>7, <2>8, <2>9 DEF IInv
<1>7. ASSUME NEW g \in Groups, PutGroup(g)
      PROVE  IInv'
  <2>1. /\ entry'.vpc = entry.vpc /\ entry'.index = entry.index
        /\ entry'.nets = entry.nets /\ IsEntry(entry', Vpcs \cup {NoVpc})
        /\ Numbered(entry'.groups \cup before.groups)
        /\ Bounded(entry'.groups \cup before.groups)
        /\ \A m \in entry'.groups : m \in entry.groups \/ m.name = g
    BY <1>7, GroupPut
  <2>2. /\ pc = "groups" /\ g \in names /\ names' = names \ {g}
        /\ UNCHANGED <<record, pc, config, outputs, first, todo, max, before, left, kept, runs,
                       torn, stray, mixed>>
    BY <1>7 DEF PutGroup
  <2>3. SourceOf(entry.vpc) \in Vpcs
    <3>1. entry.vpc \in Vpcs
      BY <1>t, <2>2, ConfigType DEF RunIs
    <3>2. SourceOf(entry.vpc) # NoVpc
      BY <1>t, <2>2 DEF RunIs
    <3> QED BY <1>t, <3>1, <3>2 DEF SourceOf, TypeOK
  <2>4. \A p \in params' : /\ p.path[1] \in Nat /\ p.vpc \in Vpcs
                           /\ p.name \in Vpcs \cup Groups \cup Subnets
    <3>1. CASE params' = params
      BY <1>t, <3>1 DEF TypeOK
    <3>2. CASE params' # params
      <4> DEFINE path == GroupPath(entry.index, GroupEntry(g))
      <4>1. params' = Put(params, {[path |-> path, vpc |-> SourceOf(entry.vpc), name |-> g]})
        BY <1>7, <3>2 DEF PutGroup
      <4>2. path[1] = entry.index
        BY DEF GroupPath
      <4> HIDE DEF path
      <4> QED BY <1>t, <1>i, <2>3, <4>1, <4>2 DEF Put, TypeOK
    <3> QED BY <3>1, <3>2
  <2>5. TypeOK'
    <3>1. {torn, stray, mixed}' \subseteq BOOLEAN
      BY <1>t, <2>2, Zenon DEF TypeOK
    <3> QED BY <1>t, <2>1, <2>2, <2>4, <3>1 DEF TypeOK
  <2>6. RunIs' /\ KeptVpcs'
    <3>1. SourceOf(entry.vpc)' = SourceOf(entry.vpc)
      BY <2>1, <2>2 DEF SourceOf
    <3> QED BY <1>t, <2>1, <2>2, <3>1 DEF RunIs, KeptVpcs
  <2>7. ListsBounded'
    BY <1>t, <2>1, <2>2 DEF ListsBounded
  <2>8. KeptNames'
    BY <1>t, <2>1, <2>2 DEF KeptNames
  <2> QED BY <2>5, <2>6, <2>7, <2>8 DEF IInv
<1>8. CASE GroupsDone
  <2>1. PICK e : /\ kept' = kept \cup {e} /\ IsEntry(e, Vpcs)
                 /\ e.vpc = entry.vpc /\ e.index = entry.index
                 /\ e.nets = entry.nets /\ e.groups \subseteq entry.groups
    BY <1>8, VpcPut
  <2>2. /\ pc = "groups" /\ names = {} /\ pc' = "vpcs" /\ left' \subseteq left
        /\ entry' = NoEntry /\ before' = NoEntry /\ params' \subseteq params
        /\ UNCHANGED <<record, config, outputs, first, todo, max, names, history>>
    BY <1>8 DEF GroupsDone, Without
  <2>3. TypeOK'
    <3>1. {torn, stray, mixed}' \subseteq BOOLEAN
      BY <1>t, <2>2, Zenon DEF TypeOK, history
    <3> QED BY <1>t, <2>1, <2>2, <3>1, NoEntryType DEF TypeOK, history
  <2>4. RunIs'
    BY <1>t, <2>2 DEF RunIs
  <2>5. ListsBounded'
    <3>1. Bounded(e.groups) /\ Bounded(e.nets)
      BY <1>t, <2>1, PartIsBounded DEF ListsBounded
    <3>2. Bounded(kept \cup {e})
      BY <1>t, <1>i, <2>1, OneMoreIsBounded DEF ListsBounded
    <3>3. Bounded({})
      BY DEF Bounded
    <3>4. entry'.groups \cup before'.groups = {} /\ entry'.nets \cup before'.nets = {}
      BY <2>2, NoEntryType
    <3> QED BY <1>t, <2>1, <2>2, <3>1, <3>2, <3>3, <3>4 DEF ListsBounded
  <2>6. KeptVpcs'
    <3>1. VpcsDiffer(kept \cup {e})
      BY <1>t, <2>1, <2>2 DEF KeptVpcs, VpcsDiffer
    <3> QED BY <1>t, <2>1, <2>2, <3>1 DEF KeptVpcs
  <2>7. KeptNames'
    <3>1. Numbered(e.groups) /\ Numbered(e.nets)
      BY <1>t, <2>1, <2>2 DEF KeptNames, Numbered
    <3> QED BY <1>t, <2>1, <2>2, <3>1 DEF KeptNames
  <2> QED BY <2>3, <2>4, <2>5, <2>6, <2>7 DEF IInv
<1>9. CASE SaveIndex
  <2>1. record' = kept /\ pc = "vpcs" /\ pc' = "sweep" /\ UNCHANGED <<params, run, history>>
    BY <1>9 DEF SaveIndex
  <2>2. TypeOK'
    <3>1. {torn, stray, mixed}' \subseteq BOOLEAN
      BY <1>t, <2>1, Zenon DEF TypeOK, history
    <3> QED BY <1>t, <2>1, <3>1 DEF TypeOK, run, history
  <2>3. RunIs' /\ ListsBounded' /\ KeptVpcs' /\ KeptNames'
    BY <1>t, <2>1 DEF RunIs, ListsBounded, KeptVpcs, KeptNames, run
  <2> QED BY <2>2, <2>3 DEF IInv
<1>10. ASSUME NEW e \in left, DeleteVpc(e)
       PROVE  IInv'
  <2>1. /\ pc = "sweep" /\ left' \subseteq left /\ params' \subseteq params
        /\ UNCHANGED <<record, pc, config, outputs, first, todo, max, entry, before, names, kept,
                       history>>
    BY <1>10 DEF DeleteVpc, Without
  <2>2. TypeOK'
    <3>1. {torn, stray, mixed}' \subseteq BOOLEAN
      BY <1>t, <2>1, Zenon DEF TypeOK, history
    <3> QED BY <1>t, <2>1, <3>1 DEF TypeOK, history
  <2>3. RunIs' /\ ListsBounded' /\ KeptVpcs' /\ KeptNames'
    BY <1>t, <2>1 DEF RunIs, ListsBounded, KeptVpcs, KeptNames
  <2> QED BY <2>2, <2>3 DEF IInv
<1>11. CASE SavingDone \/ SavingCutShort
  <2>1. RunOver /\ UNCHANGED <<record, params, runs, stray, mixed>>
        /\ torn' \in {torn, TRUE}
    BY <1>11 DEF SavingDone, SavingCutShort, history
  <2>2. TypeOK'
    <3>1. {torn, stray, mixed}' \subseteq BOOLEAN
      BY <1>t, <2>1, Zenon DEF TypeOK
    <3> QED BY <1>t, <2>1, <3>1, NoEntryType DEF TypeOK, RunOver
  <2>3. RunIs' /\ KeptVpcs' /\ KeptNames'
    BY <1>t, <2>1 DEF RunIs, KeptVpcs, KeptNames, RunOver, VpcsDiffer
  <2>4. ListsBounded'
    BY <1>t, <2>1, NoEntryType DEF ListsBounded, RunOver, Bounded
  <2> QED BY <2>2, <2>3, <2>4 DEF IInv
<1>12. CASE UNCHANGED vars
  <2>1. UNCHANGED <<record, params, pc, run, history>>
    BY <1>12 DEF vars
  <2>2. TypeOK'
    <3>1. {torn, stray, mixed}' \subseteq BOOLEAN
      BY <1>t, <2>1, Zenon DEF TypeOK, history
    <3> QED BY <1>t, <2>1, <3>1 DEF TypeOK, run, history
  <2>3. SourceOf(entry.vpc)' = SourceOf(entry.vpc)
    BY <2>1 DEF SourceOf, run
  <2>4. RunIs' /\ ListsBounded' /\ KeptVpcs' /\ KeptNames'
    BY <1>t, <2>1, <2>3 DEF RunIs, ListsBounded, KeptVpcs, KeptNames, run
  <2> QED BY <2>2, <2>4 DEF IInv
<1> QED
  BY <1>1, <1>2, <1>3, <1>4, <1>5, <1>6, <1>7, <1>8, <1>9, <1>10, <1>11, <1>12 DEF Next

-----------------------------------------------------------------------------
(* Paths *)

LEMMA PathsDiffer ==
    ASSUME NEW i, NEW j, NEW g, NEW h, NEW m, NEW n, NEW y, NEW z
    PROVE  /\ VpcPath(i)[1] = i /\ Cidr2Path(i)[1] = i
           /\ GroupPath(i, g)[1] = i /\ SubnetPath(i, n, z)[1] = i
           /\ VpcPath(i) # GroupPath(j, g) /\ VpcPath(i) # SubnetPath(j, n, z)
           /\ Cidr2Path(i) # GroupPath(j, g) /\ Cidr2Path(i) # SubnetPath(j, n, z)
           /\ Cidr2Path(i) # VpcPath(j)
           /\ GroupPath(i, g) # SubnetPath(j, n, z)
           /\ GroupPath(i, g) = GroupPath(j, h) => g.index = h.index
           /\ SubnetPath(i, m, y) = SubnetPath(j, n, z) => m.index = n.index /\ y = z
<1>1. Len(VpcPath(i)) = 1 /\ Len(Cidr2Path(i)) = 2
  BY DEF VpcPath, Cidr2Path
<1>2. Len(GroupPath(j, g)) = 3 /\ Len(SubnetPath(j, n, z)) = 4 /\ Len(VpcPath(j)) = 1
  BY DEF GroupPath, SubnetPath, VpcPath
<1>3. Len(GroupPath(i, g)) = 3
  BY DEF GroupPath
<1>4. /\ VpcPath(i)[1] = i /\ Cidr2Path(i)[1] = i
      /\ GroupPath(i, g)[1] = i /\ SubnetPath(i, n, z)[1] = i
  BY DEF VpcPath, Cidr2Path, GroupPath, SubnetPath
<1>5. GroupPath(i, g) = GroupPath(j, h) => g.index = h.index
  BY DEF GroupPath
<1>6. SubnetPath(i, m, y) = SubnetPath(j, n, z) => m.index = n.index /\ y = z
  BY DEF SubnetPath
<1>7. 1 # 2 /\ 1 # 3 /\ 1 # 4 /\ 2 # 3 /\ 2 # 4 /\ 3 # 4
  OBVIOUS
<1> QED BY <1>1, <1>2, <1>3, <1>4, <1>5, <1>6, <1>7, Zenon

LEMMA VpcPathsAre ==
    ASSUME NEW e, NEW path
    PROVE  /\ path \in VpcPaths(e) <=>
                \/ path = VpcPath(e.index)
                \/ \E g \in e.groups : path = GroupPath(e.index, g)
                \/ \E n \in e.nets : \E z \in n.zones : path = SubnetPath(e.index, n, z)
           /\ path \in VpcPaths(e) => path[1] = e.index /\ path # Cidr2Path(e.index)
<1>1. path \in VpcPaths(e) <=>
        \/ path = VpcPath(e.index)
        \/ \E g \in e.groups : path = GroupPath(e.index, g)
        \/ \E n \in e.nets : \E z \in n.zones : path = SubnetPath(e.index, n, z)
  BY DEF VpcPaths, GroupPaths, SubnetPaths
<1> QED BY <1>1, PathsDiffer

\* Nothing changes under other numbers than i.
OnlyUnder(i) == \A p : p.path[1] # i => (p \in params' <=> p \in params)

LEMMA ParamIs ==
    ASSUME NEW path, NEW v, NEW n
    PROVE  Param(path, v, n).path = path /\ Param(path, v, n).vpc = v /\ Param(path, v, n).name = n
BY DEF Param

\* What is missing of a VPC stays on the list of it.
MarksKept(v) ==
    /\ \A g : <<v, g>> \in missed => <<v, g>> \in missed'
    /\ \A n, z : <<v, n, z>> \in missed => <<v, n, z>> \in missed'

LEMMA MarksDiffer ==
    ASSUME NEW v, NEW w, NEW g, NEW h, NEW m, NEW n, NEW y, NEW z
    PROVE  /\ <<v, g>> # <<w, n, z>>
           /\ <<v, g>> = <<w, h>> => v = w /\ g = h
           /\ <<v, m, y>> = <<w, n, z>> => v = w /\ m = n /\ y = z
<1>1. Len(<<v, g>>) = 2 /\ Len(<<w, n, z>>) = 3
  OBVIOUS
<1>2. <<v, g>> # <<w, n, z>>
  BY <1>1
<1> QED BY <1>2

LEMMA MarksStay ==
    ASSUME missed' = missed
    PROVE  \A v : MarksKept(v)
BY DEF MarksKept

LEMMA StaysPublished ==
    ASSUME NEW e, Published(e), NEW i, OnlyUnder(i), e.index # i, MarksKept(e.vpc)
    PROVE  Published(e)'
<1>1. Param(VpcPath(e.index), e.vpc, e.vpc) \in params'
  BY PathsDiffer, ParamIs DEF Published, OnlyUnder
<1>2. ASSUME NEW g \in e.groups, <<e.vpc, g.name>> \notin missed'
      PROVE  Param(GroupPath(e.index, g), e.vpc, g.name) \in params'
  <2>1. <<e.vpc, g.name>> \notin missed
    BY <1>2 DEF MarksKept
  <2> QED BY <2>1, PathsDiffer, ParamIs DEF Published, OnlyUnder
<1>3. ASSUME NEW n \in e.nets, NEW z \in n.zones, <<e.vpc, n.name, z>> \notin missed'
      PROVE  Param(SubnetPath(e.index, n, z), e.vpc, n.name) \in params'
  <2>1. <<e.vpc, n.name, z>> \notin missed
    BY <1>3 DEF MarksKept
  <2> QED BY <2>1, PathsDiffer, ParamIs DEF Published, OnlyUnder
<1> QED BY <1>1, <1>2, <1>3 DEF Published

LEMMA PutIsUnder ==
    ASSUME NEW i, NEW new, \A q \in new : q.path[1] = i, params' = Put(params, new)
    PROVE  OnlyUnder(i)
BY DEF OnlyUnder, Put

LEMMA WithoutIsUnder ==
    ASSUME NEW i, NEW paths, \A q \in paths : q[1] = i, params' = Without(params, paths)
    PROVE  OnlyUnder(i)
BY DEF OnlyUnder, Without

\* The VPCs that are done and those yet to come stand under other numbers.
LEMMA OthersElsewhere ==
    ASSUME IInv, InVpc
    PROVE  /\ \A e \in kept : e.index # entry.index
           /\ \A e \in record : e.vpc \in todo => e.index # entry.index
           /\ \A e \in record : e.index = entry.index => e.vpc = entry.vpc
           /\ \A e \in kept : e.vpc # entry.vpc
           /\ entry.vpc \notin todo
BY DEF IInv, KeptVpcs

-----------------------------------------------------------------------------
(* What the steps within a VPC change *)

LEMMA SubnetForm ==
    ASSUME IInv, NamesInv, NEW n \in Subnets, PutSubnet(n)
    PROVE  LET known == UNION {h.zones : h \in Named(before.nets, n)}
           IN \E x, written :
             /\ x.name = n /\ x.zones = ZonesOf(entry.vpc, n)
             /\ entry'.nets = (entry.nets \ Named(before.nets, n)) \cup {x}
             /\ \A m \in entry.nets \cup before.nets : m.index = x.index <=> m.name = n
             /\ written \subseteq x.zones \ known
             /\ params' = Put(params, {Param(SubnetPath(entry.index, x, z), entry.vpc, n) :
                                       z \in written})
             /\ missed' = (missed \ {<<entry.vpc, n, z>> : z \in written})
                          \cup {<<entry.vpc, n, z>> : z \in x.zones \ (known \cup written)}
             /\ ~ stray' => ~ stray /\ known \subseteq x.zones
<1> DEFINE had == Named(before.nets, n)
           zones == ZonesOf(entry.vpc, n)
           x == [name |-> n, zones |-> zones,
                 index |-> IF had # {} THEN MaxIndex(had)
                           ELSE MaxIndex(before.nets \cup entry.nets) + 1]
           known == UNION {h.zones : h \in had}
           written == {z \in zones \ known : <<n, z>> \in outputs[entry.vpc].nets}
<1>1. /\ entry' = [entry EXCEPT !.nets = (entry.nets \ had) \cup {x}]
      /\ params' = Put(params, {[path |-> SubnetPath(entry.index, x, z),
                                 vpc |-> entry.vpc, name |-> n] : z \in written})
      /\ missed' = (missed \ {<<entry.vpc, n, z>> : z \in written})
                   \cup {<<entry.vpc, n, z>> : z \in zones \ (known \cup written)}
      /\ pc = "nets" /\ n \in names
  BY DEF PutSubnet
<1>2. ~ stray' => ~ stray /\ known \subseteq zones
  BY Zenon DEF PutSubnet
<1>3. x.name = n /\ x.zones = zones /\ written \subseteq zones \ known
  OBVIOUS
<1> HIDE DEF x, written
<1>4. entry'.nets = (entry.nets \ had) \cup {x}
  BY <1>1 DEF IInv, TypeOK, IsEntry
<1>5. \A m \in entry.nets \cup before.nets : m.index = x.index <=> m.name = n
  <2>1. Numbered(entry'.nets \cup before.nets) /\ Numbered(entry.nets \cup before.nets)
    BY <1>1, SubnetPut DEF IInv, KeptNames
  <2>2. \A m \in before.nets : m.index = x.index <=> m.name = n
    BY <1>3, <1>4, <2>1 DEF Numbered
  <2>3. ASSUME NEW m \in entry.nets \ had
        PROVE  m.index = x.index <=> m.name = n
    BY <1>3, <1>4, <2>1, <2>3 DEF Numbered
  <2>4. had \subseteq before.nets
    BY DEF Named
  <2> QED BY <2>2, <2>3, <2>4
<1>6. params' = Put(params, {Param(SubnetPath(entry.index, x, z), entry.vpc, n) : z \in written})
  BY <1>1 DEF Param
<1>7. ~ stray' => ~ stray /\ known \subseteq x.zones
  BY <1>2, <1>3
<1>8. missed' = (missed \ {<<entry.vpc, n, z>> : z \in written})
                \cup {<<entry.vpc, n, z>> : z \in x.zones \ (known \cup written)}
  BY <1>1, <1>3
<1>9. x.name = n /\ x.zones = ZonesOf(entry.vpc, n) /\ written \subseteq x.zones \ known
  BY <1>3
<1> HIDE DEF known
<1> QED BY <1>4, <1>5, <1>6, <1>7, <1>8, <1>9 DEF known

LEMMA GroupForm ==
    ASSUME IInv, SourcesInv, NamesInv, NEW g \in Groups, PutGroup(g), ~ mixed
    PROVE  \E x :
             /\ x.name = g
             /\ entry'.groups = (entry.groups \ Named(before.groups, g)) \cup {x}
             /\ \A m \in entry.groups \cup before.groups : m.index = x.index <=> m.name = g
             /\ \/ /\ params' = Put(params, {Param(GroupPath(entry.index, x), entry.vpc, g)})
                   /\ missed' = missed \ {<<entry.vpc, g>>}
                \/ /\ params' = params /\ missed \subseteq missed'
                   /\ missed' \subseteq missed \cup {<<entry.vpc, g>>}
                   /\ Named(before.groups, g) = {} => <<entry.vpc, g>> \in missed'
<1> DEFINE had == Named(before.groups, g)
           x == GroupEntry(g)
           source == SourceOf(entry.vpc)
           found == g \in outputs[source].groups
<1>1. /\ entry' = [entry EXCEPT !.groups = (entry.groups \ had) \cup {x}]
      /\ params' = IF had = {} /\ found
                   THEN Put(params, {[path |-> GroupPath(entry.index, x),
                                      vpc |-> source, name |-> g]})
                   ELSE params
      /\ missed' = IF ~ found THEN missed \cup {<<entry.vpc, g>>}
                   ELSE IF had = {} THEN missed \ {<<entry.vpc, g>>}
                   ELSE missed
      /\ pc = "groups" /\ g \in names
  BY DEF PutGroup
<1>2. x.name = g
  BY DEF GroupEntry
<1> HIDE DEF x
<1>3. entry'.groups = (entry.groups \ had) \cup {x}
  BY <1>1 DEF IInv, TypeOK, IsEntry
<1>4. \A m \in entry.groups \cup before.groups : m.index = x.index <=> m.name = g
  <2>1. Numbered(entry'.groups \cup before.groups) /\ Numbered(entry.groups \cup before.groups)
    BY <1>1, GroupPut DEF IInv, KeptNames
  <2>2. \A m \in before.groups : m.index = x.index <=> m.name = g
    BY <1>2, <1>3, <2>1 DEF Numbered
  <2>3. ASSUME NEW m \in entry.groups \ had
        PROVE  m.index = x.index <=> m.name = g
    BY <1>2, <1>3, <2>1, <2>3 DEF Numbered
  <2>4. had \subseteq before.groups
    BY DEF Named
  <2> QED BY <2>2, <2>3, <2>4
<1>5. source = entry.vpc
  <2>1. source # NoVpc /\ entry.vpc \in DOMAIN outputs
    BY <1>1 DEF IInv, RunIs, SourcesInv, InVpc
  <2> QED BY <1>1, <2>1 DEF SourcesInv, InVpc, Saving
<1> HIDE DEF had, source, found
<1>6. \/ /\ params' = Put(params, {Param(GroupPath(entry.index, x), entry.vpc, g)})
         /\ missed' = missed \ {<<entry.vpc, g>>}
      \/ /\ params' = params /\ missed \subseteq missed'
         /\ missed' \subseteq missed \cup {<<entry.vpc, g>>}
         /\ had = {} => <<entry.vpc, g>> \in missed'
  <2>1. CASE had = {} /\ found
    BY <1>1, <1>5, <2>1 DEF Param
  <2>2. CASE ~ found
    BY <1>1, <2>2
  <2>3. CASE had # {} /\ found
    BY <1>1, <2>3
  <2> QED BY <2>1, <2>2, <2>3
<1> QED BY <1>2, <1>3, <1>4, <1>6 DEF had

\* Leftover subnets are deleted, and nothing that stays is among them.
LEMMA SubnetsForm ==
    ASSUME IInv, NamesInv, SubnetsDone
    PROVE  \E gone \in SUBSET before.nets :
             /\ params' = Without(params, SubnetPaths(entry.index, gone))
             /\ entry'.nets = entry.nets \ gone
             /\ entry'.groups = entry.groups /\ entry'.vpc = entry.vpc
             /\ entry'.index = entry.index
             /\ \A m \in entry.nets \ gone, l \in gone : m.index # l.index
<1> DEFINE wanted == SubnetNames(entry.vpc)
           gone == IF "nets" \in config[entry.vpc].keys THEN Leftovers(before.nets, wanted) ELSE {}
<1>1. /\ params' = Without(params, SubnetPaths(entry.index, gone))
      /\ entry' = [entry EXCEPT !.nets = entry.nets \ gone]
      /\ pc = "nets"
  BY DEF SubnetsDone
<1>2. gone \in SUBSET before.nets
  BY DEF Leftovers
<1>3. ASSUME NEW m \in entry.nets \ gone, NEW l \in gone
      PROVE  m.index # l.index
  <2>1. l \in before.nets /\ l.name \notin wanted
    BY <1>3 DEF Leftovers
  <2>2. m.name \in wanted \/ m \in before.nets
    BY <1>1 DEF NamesInv, MadeOf
  <2>3. m.name # l.name
    <3>1. CASE m.name \in wanted
      BY <2>1, <3>1
    <3>2. CASE m \in before.nets /\ m.name \notin wanted
      BY <1>3, <3>2 DEF Leftovers
    <3> QED BY <2>2, <3>1, <3>2
  <2>4. Numbered(entry.nets \cup before.nets)
    BY <1>1 DEF IInv, KeptNames
  <2> QED BY <2>1, <2>3, <2>4 DEF Numbered
<1> HIDE DEF gone
<1>4. /\ entry'.nets = entry.nets \ gone /\ entry'.groups = entry.groups
      /\ entry'.vpc = entry.vpc /\ entry'.index = entry.index
  BY <1>1 DEF IInv, TypeOK, IsEntry
<1> QED BY <1>1, <1>2, <1>3, <1>4

\* What is deleted of the groups: leftovers, and those known to be missing.
LEMMA GroupsForm ==
    ASSUME IInv, NamesInv, MissedInv, GroupsDone
    PROVE  \E gone, away, e :
             /\ gone \subseteq away
             /\ params' = Without(params, GroupPaths(entry.index, away))
             /\ kept' = kept \cup {e}
             /\ e.vpc = entry.vpc /\ e.index = entry.index
             /\ e.nets = entry.nets /\ e.groups = entry.groups \ gone
             /\ \A m \in entry.groups \ gone, l \in away :
                  <<entry.vpc, m.name>> \notin missed => m.index # l.index
<1> DEFINE v == entry.vpc
           wanted == config[v].groups
           gone == IF SavesGroups(v) THEN Leftovers(before.groups, wanted) ELSE {}
           lost == IF SavesGroups(v)
                   THEN {g \in before.groups : g.name \in wanted \ outputs[SourceOf(v)].groups}
                   ELSE {}
           e == [entry EXCEPT !.groups = entry.groups \ gone]
<1>1. /\ params' = Without(params, GroupPaths(entry.index, gone \cup lost))
      /\ kept' = kept \cup {e}
      /\ pc = "groups" /\ names = {}
  BY DEF GroupsDone
<1>2. Numbered(entry.groups \cup before.groups)
  BY <1>1 DEF IInv, KeptNames
<1>3. ASSUME NEW m \in entry.groups, NEW l \in lost, <<v, m.name>> \notin missed
      PROVE  m.index # l.index
  <2>1. /\ SavesGroups(v) /\ l \in before.groups
        /\ l.name \in wanted /\ l.name \notin outputs[SourceOf(v)].groups
    BY <1>3
  <2>2. <<v, l.name>> \in missed
    BY <1>1, <2>1 DEF MissedInv
  <2>3. m.name # l.name
    BY <1>3, <2>2
  <2> QED BY <1>2, <2>1, <2>3 DEF Numbered
<1>4. ASSUME NEW m \in entry.groups \ gone, NEW l \in gone
      PROVE  m.index # l.index
  <2>1. l \in before.groups /\ l.name \notin wanted
    BY <1>4 DEF Leftovers
  <2>2. m.name \in wanted \/ m \in before.groups
    BY <1>1 DEF NamesInv, MadeOf
  <2>3. m.name # l.name
    <3>1. CASE m.name \in wanted
      BY <2>1, <3>1
    <3>2. CASE m \in before.groups /\ m.name \notin wanted
      BY <1>4, <3>2 DEF Leftovers
    <3> QED BY <2>2, <3>1, <3>2
  <2> QED BY <1>2, <2>1, <2>3 DEF Numbered
<1> DEFINE away == gone \cup lost
<1>5. /\ gone \subseteq away
      /\ \A m \in entry.groups \ gone, l \in away :
            <<v, m.name>> \notin missed => m.index # l.index
      /\ params' = Without(params, GroupPaths(entry.index, away))
  BY <1>1, <1>3, <1>4
<1> HIDE DEF gone, lost, away
<1>6. /\ e.vpc = entry.vpc /\ e.index = entry.index
      /\ e.nets = entry.nets /\ e.groups = entry.groups \ gone
  BY DEF IInv, TypeOK, IsEntry
<1> HIDE DEF e
<1> QED BY <1>1, <1>5, <1>6

-----------------------------------------------------------------------------
(* What is published stays so *)

LEMMA HistoryGrows ==
    ASSUME [Next]_vars
    PROVE  Clean' => Clean /\ (~ stray' => ~ stray)
<1>1. ASSUME NEW c \in Configs, NEW o \in Configs, NEW source \in Vpcs \cup {NoVpc},
             StartSaving(c, o, source)
      PROVE  ~ mixed' => ~ mixed
  BY <1>1, Zenon DEF StartSaving
<1>2. ASSUME NEW n \in Subnets, PutSubnet(n)
      PROVE  ~ stray' => ~ stray
  BY <1>2, Zenon DEF PutSubnet
<1>3. ASSUME NEW v \in Vpcs, VpcNotBuilt(v)
      PROVE  ~ stray' => ~ stray
  BY <1>3, Zenon DEF VpcNotBuilt
<1>4. ASSUME NEW c \in Configs, NEW o \in Configs, NEW source \in Vpcs \cup {NoVpc},
             StartSaving(c, o, source)
      PROVE  torn' = torn /\ stray' = stray
  BY <1>4 DEF StartSaving
<1>5. ASSUME NEW n \in Subnets, PutSubnet(n)
      PROVE  torn' = torn /\ mixed' = mixed
  BY <1>5 DEF PutSubnet
<1>6. ASSUME NEW v \in Vpcs, VpcNotBuilt(v)
      PROVE  torn' = torn /\ mixed' = mixed
  BY <1>6 DEF VpcNotBuilt
<1>7. ASSUME NEW v \in Vpcs, KeepVpc(v) \/ PutVpc(v)
      PROVE  torn' = torn /\ mixed' = mixed /\ stray' = stray
  BY <1>7 DEF KeepVpc, PutVpc, PutVpcAt, history
<1>8. ASSUME NEW g \in Groups, PutGroup(g)
      PROVE  torn' = torn /\ mixed' = mixed /\ stray' = stray
  BY <1>8 DEF PutGroup
<1>9. ASSUME SubnetsDone \/ GroupsDone \/ SaveIndex \/ SavingDone \/ UNCHANGED vars
      PROVE  torn' = torn /\ mixed' = mixed /\ stray' = stray
  BY <1>9 DEF SubnetsDone, GroupsDone, SaveIndex, SavingDone, vars, history
<1>10. ASSUME NEW e \in left, DeleteVpc(e)
       PROVE  torn' = torn /\ mixed' = mixed /\ stray' = stray
  BY <1>10 DEF DeleteVpc, history
<1>11. SavingCutShort => torn' = TRUE
  BY DEF SavingCutShort
<1> HIDE DEF Clean
<1>12. \/ torn' = TRUE
       \/ torn' = torn /\ (~ mixed' => ~ mixed) /\ (~ stray' => ~ stray)
  <2>1. ASSUME torn' = torn /\ mixed' = mixed /\ stray' = stray
        PROVE  torn' = torn /\ (~ mixed' => ~ mixed) /\ (~ stray' => ~ stray)
    BY <2>1, Zenon
  <2> QED BY <2>1, <1>1, <1>2, <1>3, <1>4, <1>5, <1>6, <1>7, <1>8, <1>9, <1>10, <1>11, Zenon DEF Next
<1> QED BY <1>12, Zenon DEF Clean

LEMMA SourcesStep ==
    ASSUME IInv, SourcesInv, LeftInv, [Next]_vars
    PROVE  SourcesInv'
<1>i. RunIs /\ KeptVpcs /\ TypeOK
  BY DEF IInv
<1> USE DEF Saving, InVpc
<1>1. ASSUME NEW c \in Configs, NEW o \in Configs, NEW source \in Vpcs \cup {NoVpc},
             StartSaving(c, o, source)
      PROVE  SourcesInv'
  <2>1. /\ pc' = "vpcs" /\ config' = c /\ outputs' = o /\ first' = source
        /\ UNCHANGED <<record, kept>>
    BY <1>1 DEF StartSaving
  <2> DEFINE sources == {v \in DOMAIN o \cap Shared : o[v].groups # {}}
  <2>2. IF sources = {} THEN source = NoVpc ELSE source \in sources
    BY <1>1 DEF StartSaving
  <2>3. ~ mixed' => \A v, w \in DOMAIN o \cap Shared : v = w
    BY <1>1, Zenon DEF StartSaving
  <2>4. ASSUME ~ mixed', NEW v \in DOMAIN o
        PROVE  SourceOf(v)' \in {v, NoVpc}
    <3>1. CASE v \notin Shared
      BY <2>1, <3>1 DEF SourceOf
    <3>2. CASE v \in Shared
      <4>1. source = NoVpc \/ source \in DOMAIN o \cap Shared
        BY <2>2
      <4>2. source \in {v, NoVpc}
        BY <2>3, <2>4, <3>2, <4>1
      <4> QED BY <2>1, <3>2, <4>2 DEF SourceOf
    <3> QED BY <3>1, <3>2
  <2> QED BY <2>1, <2>4 DEF SourcesInv
<1>2. ASSUME Saving, UNCHANGED <<config, outputs, first, mixed>>
      PROVE  ~ mixed' => \A v \in DOMAIN outputs' : SourceOf(v)' \in {v, NoVpc}
  <2>1. \A v : SourceOf(v)' = SourceOf(v)
    BY <1>2 DEF SourceOf
  <2> QED BY <1>2, <2>1 DEF SourcesInv
<1>3. ASSUME NEW v \in Vpcs, VpcNotBuilt(v)
      PROVE  SourcesInv'
  BY <1>2, <1>3 DEF VpcNotBuilt, Turn, SourcesInv
<1>4. ASSUME NEW v \in Vpcs, KeepVpc(v) \/ PutVpc(v)
      PROVE  SourcesInv'
  <2>1. /\ pc = "vpcs" /\ v \in DOMAIN outputs
        /\ UNCHANGED <<record, config, outputs, first, kept, mixed>>
    BY <1>4 DEF KeepVpc, PutVpc, PutVpcAt, Turn, history
  <2>2. entry'.vpc = v
    BY <1>4 DEF KeepVpc, PutVpc, PutVpcAt, EntryOf, NoEntry
  <2> QED BY <1>2, <2>1, <2>2 DEF SourcesInv
<1>5. ASSUME \/ \E n \in Subnets : PutSubnet(n)
             \/ \E g \in Groups : PutGroup(g)
             \/ SubnetsDone
      PROVE  SourcesInv'
  <2>1. InVpc /\ UNCHANGED <<record, config, outputs, first, kept, mixed>>
    BY <1>5 DEF PutSubnet, PutGroup, SubnetsDone, history
  <2>2. entry'.vpc = entry.vpc
    BY <1>i, <1>5 DEF PutSubnet, PutGroup, SubnetsDone, TypeOK, IsEntry
  <2> QED BY <1>2, <2>1, <2>2 DEF SourcesInv
<1>6. CASE GroupsDone
  <2>1. PICK e : kept' = kept \cup {e} /\ e.vpc = entry.vpc
    BY <1>6, VpcPut
  <2>2. /\ pc = "groups" /\ pc' = "vpcs"
        /\ UNCHANGED <<record, config, outputs, first, mixed>>
    BY <1>6 DEF GroupsDone, history
  <2>3. \A k \in kept : k.vpc # e.vpc
    BY <1>i, <2>1, <2>2 DEF KeptVpcs
  <2>4. OneEach(kept')
    BY <2>1, <2>3 DEF SourcesInv, OneEach
  <2> QED BY <1>2, <2>2, <2>4 DEF SourcesInv
<1>7. CASE SaveIndex \/ (\E e \in left : DeleteVpc(e)) \/ SavingDone \/ SavingCutShort
  <2>1. /\ pc' \in {"sweep", "idle"} /\ kept' \in {kept, {}} /\ record' \in {record, kept}
    BY <1>7 DEF SaveIndex, DeleteVpc, SavingDone, SavingCutShort, RunOver, run
  <2> QED BY <2>1 DEF SourcesInv, OneEach
<1>8. CASE UNCHANGED vars
  <2>1. UNCHANGED <<record, pc, config, outputs, first, entry, kept, mixed>>
    BY <1>8 DEF vars, run, history
  <2> QED BY <1>2, <2>1 DEF SourcesInv
<1> QED BY <1>1, <1>3, <1>4, <1>5, <1>6, <1>7, <1>8 DEF Next

LEMMA NamesStep ==
    ASSUME IInv, NamesInv, [Next]_vars
    PROVE  NamesInv'
<1>i. RunIs /\ KeptNames /\ TypeOK
  BY DEF IInv
<1> USE DEF InVpc
<1>n. ASSUME config' = config, entry'.vpc = entry.vpc
      PROVE  SubnetNames(entry.vpc)' = SubnetNames(entry.vpc)
  BY <1>n DEF SubnetNames
<1>1. ASSUME NEW v \in Vpcs, KeepVpc(v) \/ PutVpc(v)
      PROVE  NamesInv'
  <2>1. /\ pc' = "nets" /\ names' = SubnetNames(v) /\ config' = config
        /\ entry'.vpc = v /\ before' = entry'
    BY <1>1 DEF KeepVpc, PutVpc, PutVpcAt, EntryOf, NoEntry
  <2>2. SubnetNames(entry.vpc)' = SubnetNames(v)
    BY <2>1 DEF SubnetNames
  <2> QED BY <2>1, <2>2 DEF NamesInv, MadeOf
<1>2. ASSUME NEW n \in Subnets, PutSubnet(n)
      PROVE  NamesInv'
  <2>1. /\ pc = "nets" /\ pc' = "nets" /\ n \in names /\ names' = names \ {n}
        /\ config' = config /\ before' = before
    BY <1>2 DEF PutSubnet
  <2>2. PICK x : x.name = n /\ entry'.nets = (entry.nets \ Named(before.nets, n)) \cup {x}
    BY <1>2, SubnetForm
  <2>3. entry'.vpc = entry.vpc
    BY <1>2, SubnetPut
  <2> QED BY <1>n, <2>1, <2>2, <2>3 DEF NamesInv, MadeOf, Named
<1>3. CASE SubnetsDone
  <2>1. /\ pc = "nets" /\ pc' = "groups"
        /\ names' = IF SavesGroups(entry.vpc) THEN config[entry.vpc].groups ELSE {}
        /\ config' = config /\ before' = before
    BY <1>3 DEF SubnetsDone
  <2>2. entry'.vpc = entry.vpc /\ entry'.groups = entry.groups
    BY <1>3, SubnetsForm
  <2> QED BY <1>i, <2>1, <2>2 DEF NamesInv, MadeOf, KeptNames
<1>4. ASSUME NEW g \in Groups, PutGroup(g)
      PROVE  NamesInv'
  <2>1. /\ pc = "groups" /\ pc' = "groups" /\ g \in names /\ names' = names \ {g}
        /\ config' = config /\ before' = before
    BY <1>4 DEF PutGroup
  <2> DEFINE x == GroupEntry(g)
  <2>2. entry' = [entry EXCEPT !.groups = (entry.groups \ Named(before.groups, g)) \cup {x}]
    BY <1>4 DEF PutGroup
  <2>3. x.name = g
    BY DEF GroupEntry
  <2> HIDE DEF x
  <2>4. /\ entry'.groups = (entry.groups \ Named(before.groups, g)) \cup {x}
        /\ entry'.vpc = entry.vpc
    BY <1>i, <2>2 DEF TypeOK, IsEntry
  <2> QED BY <2>1, <2>3, <2>4 DEF NamesInv, MadeOf, Named
<1>5. ASSUME pc' \notin {"nets", "groups"}
      PROVE  NamesInv'
  BY <1>5 DEF NamesInv
<1>6. ASSUME \/ \E c, o \in Configs, source \in Vpcs \cup {NoVpc} : StartSaving(c, o, source)
             \/ \E v \in Vpcs : VpcNotBuilt(v)
             \/ GroupsDone \/ SaveIndex \/ (\E e \in left : DeleteVpc(e))
             \/ SavingDone \/ SavingCutShort
      PROVE  pc' \notin {"nets", "groups"}
  BY <1>6 DEF StartSaving, VpcNotBuilt, Turn, GroupsDone, SaveIndex, DeleteVpc, SavingDone,
              SavingCutShort, RunOver
<1>7. CASE UNCHANGED vars
  <2>1. UNCHANGED <<pc, config, entry, before, names>>
    BY <1>7 DEF vars, run
  <2> QED BY <1>n, <2>1 DEF NamesInv, MadeOf
<1> QED BY <1>1, <1>2, <1>3, <1>4, <1>5, <1>6, <1>7 DEF Next

LEMMA LeftStep ==
    ASSUME IInv, LeftInv, [Next]_vars
    PROVE  LeftInv'
<1>i. RunIs /\ KeptVpcs
  BY DEF IInv
<1> USE DEF Saving, InVpc
<1>1. ASSUME NEW c \in Configs, NEW o \in Configs, NEW source \in Vpcs \cup {NoVpc},
             StartSaving(c, o, source)
      PROVE  LeftInv'
  BY <1>i, <1>1 DEF StartSaving, LeftInv, RunIs
<1>2. ASSUME NEW v \in Vpcs, VpcNotBuilt(v) \/ KeepVpc(v) \/ PutVpc(v)
      PROVE  LeftInv'
  <2>1. /\ Saving /\ Saving' /\ left' \subseteq left /\ UNCHANGED <<record, kept>>
    BY <1>2 DEF VpcNotBuilt, KeepVpc, PutVpc, PutVpcAt, Turn
  <2> QED BY <2>1 DEF LeftInv
<1>3. ASSUME \/ \E n \in Subnets : PutSubnet(n)
             \/ \E g \in Groups : PutGroup(g)
             \/ SubnetsDone
      PROVE  LeftInv'
  <2>1. /\ Saving /\ Saving' /\ UNCHANGED <<record, left, kept>>
    BY <1>3 DEF PutSubnet, PutGroup, SubnetsDone
  <2> QED BY <2>1 DEF LeftInv
<1>4. CASE GroupsDone
  <2>1. PICK e : kept' = kept \cup {e} /\ e.vpc = entry.vpc
    BY <1>4, VpcPut
  <2>2. /\ pc = "groups" /\ pc' = "vpcs" /\ record' = record
        /\ left' = left \ EntryOf(record, entry.vpc)
    BY <1>4 DEF GroupsDone
  <2> QED BY <2>1, <2>2 DEF LeftInv, EntryOf
<1>5. CASE SaveIndex
  <2>1. pc = "vpcs" /\ pc' = "sweep" /\ record' = kept /\ left' = left /\ kept' = kept
    BY <1>5 DEF SaveIndex, run
  <2> QED BY <1>i, <2>1 DEF LeftInv, KeptVpcs
<1>6. ASSUME NEW e \in left, DeleteVpc(e)
      PROVE  LeftInv'
  BY <1>6 DEF DeleteVpc, LeftInv
<1>7. CASE SavingDone \/ SavingCutShort
  BY <1>7 DEF SavingDone, SavingCutShort, RunOver, LeftInv
<1>8. CASE UNCHANGED vars
  BY <1>8 DEF vars, run, LeftInv
<1> QED BY <1>1, <1>2, <1>3, <1>4, <1>5, <1>6, <1>7, <1>8 DEF Next

LEMMA MissedStep ==
    ASSUME IInv, MissedInv, [Next]_vars
    PROVE  MissedInv'
<1>1. CASE SubnetsDone
  <2>1. /\ names' = IF SavesGroups(entry.vpc) THEN config[entry.vpc].groups ELSE {}
        /\ UNCHANGED <<config, outputs, first>> /\ entry'.vpc = entry.vpc
    BY <1>1 DEF SubnetsDone, IInv, TypeOK, IsEntry
  <2>2. SavesGroups(entry.vpc)' = SavesGroups(entry.vpc)
    BY <2>1 DEF SavesGroups, SourceOf
  <2> QED BY <2>1, <2>2 DEF MissedInv
<1>2. ASSUME NEW g \in Groups, PutGroup(g)
      PROVE  MissedInv'
  <2>1. /\ pc = "groups" /\ names' = names \ {g}
        /\ UNCHANGED <<config, outputs, first>> /\ entry'.vpc = entry.vpc
    BY <1>2 DEF PutGroup, IInv, TypeOK, IsEntry
  <2>2. SavesGroups(entry.vpc)' = SavesGroups(entry.vpc)
        /\ SourceOf(entry.vpc)' = SourceOf(entry.vpc)
    BY <2>1 DEF SavesGroups, SourceOf
  <2> DEFINE found == g \in outputs[SourceOf(entry.vpc)].groups
  <2>3. /\ ~ found => <<entry.vpc, g>> \in missed'
        /\ \A h : h # g /\ <<entry.vpc, h>> \in missed => <<entry.vpc, h>> \in missed'
    <3>1. missed' \in {missed \cup {<<entry.vpc, g>>}, missed \ {<<entry.vpc, g>>}, missed}
      BY <1>2 DEF PutGroup
    <3>2. ~ found => missed' = missed \cup {<<entry.vpc, g>>}
      BY <1>2 DEF PutGroup
    <3> HIDE DEF found
    <3> QED BY <3>1, <3>2
  <2> QED BY <2>1, <2>2, <2>3 DEF MissedInv
<1>3. CASE UNCHANGED vars
  <2>1. UNCHANGED <<pc, config, outputs, first, entry, names, missed>>
    BY <1>3 DEF vars, run, history
  <2>2. SavesGroups(entry.vpc)' = SavesGroups(entry.vpc)
        /\ SourceOf(entry.vpc)' = SourceOf(entry.vpc)
    BY <2>1 DEF SavesGroups, SourceOf
  <2> QED BY <2>1, <2>2 DEF MissedInv
<1>4. ASSUME pc' # "groups"
      PROVE  MissedInv'
  BY <1>4 DEF MissedInv
<1>5. ASSUME \/ \E c, o \in Configs, source \in Vpcs \cup {NoVpc} : StartSaving(c, o, source)
             \/ \E v \in Vpcs : VpcNotBuilt(v) \/ KeepVpc(v) \/ PutVpc(v)
             \/ \E n \in Subnets : PutSubnet(n)
             \/ GroupsDone \/ SaveIndex \/ (\E e \in left : DeleteVpc(e))
             \/ SavingDone \/ SavingCutShort
      PROVE  pc' # "groups"
  BY <1>5 DEF StartSaving, VpcNotBuilt, KeepVpc, PutVpc, PutVpcAt, Turn, PutSubnet, GroupsDone,
              SaveIndex, DeleteVpc, SavingDone, SavingCutShort, RunOver
<1> QED BY <1>1, <1>2, <1>3, <1>4, <1>5 DEF Next

LEMMA PutKeeps ==
    ASSUME NEW p \in params, NEW new, params' = Put(params, new),
           \A q \in new : q.path = p.path => q = p
    PROVE  p \in params'
BY DEF Put

LEMMA WithoutKeeps ==
    ASSUME NEW p \in params, NEW paths, params' = Without(params, paths), p.path \notin paths
    PROVE  p \in params'
BY DEF Without

LEMMA PublishedStep ==
    ASSUME IInv, SourcesInv, NamesInv, LeftInv, MissedInv, PublishedInv, [Next]_vars
    PROVE  PublishedInv'
<1>i. RunIs /\ KeptVpcs /\ TypeOK
  BY DEF IInv
<1> USE DEF Saving, InVpc
<1> SUFFICES ASSUME Clean'
             PROVE  /\ pc' \in {"idle", "sweep"} => \A e \in record' : Published(e)'
                    /\ Saving' => /\ \A e \in kept' : Published(e)'
                                  /\ \A e \in record' : e.vpc \in todo' => Published(e)'
                    /\ InVpc' => Published(entry)'
  BY DEF PublishedInv
<1>c. Clean /\ ~ mixed
  BY HistoryGrows DEF Clean
<1>p. /\ pc \in {"idle", "sweep"} => \A e \in record : Published(e)
      /\ Saving => /\ \A e \in kept : Published(e)
                   /\ \A e \in record : e.vpc \in todo => Published(e)
      /\ InVpc => Published(entry)
  BY <1>c DEF PublishedInv
<1>s. ASSUME params' = params, missed' = missed, NEW e, Published(e)
      PROVE  Published(e)'
  BY <1>s DEF Published
<1>o. ASSUME InVpc, OnlyUnder(entry.index), UNCHANGED <<record, todo>>,
             \A v : v # entry.vpc => MarksKept(v)
      PROVE  /\ \A e \in kept : Published(e)'
             /\ \A e \in record' : e.vpc \in todo' => Published(e)'
  BY <1>o, <1>p, OthersElsewhere, StaysPublished
<1>1. ASSUME NEW c \in Configs, NEW o \in Configs, NEW source \in Vpcs \cup {NoVpc},
             StartSaving(c, o, source)
      PROVE  /\ pc' = "vpcs" /\ \A e \in kept' : Published(e)'
             /\ \A e \in record' : e.vpc \in todo' => Published(e)'
  <2>1. /\ pc = "idle" /\ pc' = "vpcs" /\ UNCHANGED <<record, params, kept, missed>>
    BY <1>1 DEF StartSaving
  <2> QED BY <1>i, <1>p, <1>s, <2>1 DEF RunIs
<1>2. ASSUME NEW v \in Vpcs, VpcNotBuilt(v)
      PROVE  /\ pc' = "vpcs" /\ \A e \in kept' : Published(e)'
             /\ \A e \in record' : e.vpc \in todo' => Published(e)'
  <2>1. /\ pc = "vpcs" /\ pc' = "vpcs" /\ todo' \subseteq todo
        /\ UNCHANGED <<record, params, kept, missed>>
    BY <1>2 DEF VpcNotBuilt, Turn
  <2> QED BY <1>p, <1>s, <2>1
<1>3. ASSUME NEW v \in Vpcs, KeepVpc(v)
      PROVE  /\ pc' = "nets" /\ \A e \in kept' : Published(e)'
             /\ \A e \in record' : e.vpc \in todo' => Published(e)'
             /\ Published(entry)'
  <2>1. /\ pc = "vpcs" /\ pc' = "nets" /\ v \in todo /\ todo' \subseteq todo
        /\ UNCHANGED <<record, params, kept, missed>>
    BY <1>3 DEF KeepVpc, Turn, history
  <2>2. PICK e \in record : e.vpc = v /\ entry' = e
    BY <1>3 DEF KeepVpc, EntryOf
  <2>3. Published(e)
    BY <1>p, <2>1, <2>2
  <2>4. Published(entry)'
    BY <2>1, <2>2, <2>3 DEF Published
  <2> QED BY <1>p, <1>s, <2>1, <2>4
<1>4. ASSUME NEW v \in Vpcs, PutVpc(v)
      PROVE  /\ pc' = "nets" /\ \A e \in kept' : Published(e)'
             /\ \A e \in record' : e.vpc \in todo' => Published(e)'
             /\ Published(entry)'
  <2>1. /\ pc = "vpcs" /\ pc' = "nets" /\ todo' \subseteq todo
        /\ UNCHANGED <<record, kept, missed>>
        /\ entry' = [NoEntry EXCEPT !.vpc = v, !.index = max + 1]
    BY <1>4 DEF PutVpc, PutVpcAt, Turn, history
  <2> DEFINE paths == {VpcPath(max + 1)} \cup (IF v \in Wide THEN {Cidr2Path(max + 1)} ELSE {})
             new == {Param(path, v, v) : path \in paths}
  <2>2. params' = Put(params, new)
    BY <1>4 DEF PutVpc, PutVpcAt, Param
  <2>3. \A q \in new : q.path[1] = max + 1
    BY PathsDiffer, ParamIs
  <2>4. Param(VpcPath(max + 1), v, v) \in new
    OBVIOUS
  <2> HIDE DEF new
  <2>5. \A e \in record \cup kept : e.index \in Nat /\ e.index <= max /\ max \in Nat
    BY <1>i, <2>1, EntryType DEF KeptVpcs, TypeOK
  <2>6. OnlyUnder(max + 1) /\ \A e \in record \cup kept : e.index # max + 1
    BY <2>2, <2>3, <2>5, PutIsUnder
  <2>7. /\ \A e \in kept' : Published(e)'
        /\ \A e \in record' : e.vpc \in todo' => Published(e)'
    BY <1>p, <2>1, <2>6, MarksStay, StaysPublished
  <2>8. /\ entry'.vpc = v /\ entry'.index = max + 1 /\ entry'.groups = {} /\ entry'.nets = {}
    BY <2>1, NewVpc
  <2>9. Published(entry)'
    BY <2>2, <2>4, <2>8 DEF Put, Published
  <2> QED BY <2>1, <2>7, <2>9
<1>5. ASSUME NEW n \in Subnets, PutSubnet(n)
      PROVE  /\ pc' = "nets" /\ \A e \in kept' : Published(e)'
             /\ \A e \in record' : e.vpc \in todo' => Published(e)'
             /\ Published(entry)'
  <2>1. /\ pc = "nets" /\ pc' = "nets" /\ n \in names /\ UNCHANGED <<record, todo, kept>>
    BY <1>5 DEF PutSubnet
  <2> DEFINE had == Named(before.nets, n)
             known == UNION {h.zones : h \in had}
  <2>2. PICK x, written :
           /\ x.name = n /\ x.zones = ZonesOf(entry.vpc, n)
           /\ entry'.nets = (entry.nets \ had) \cup {x}
           /\ \A m \in entry.nets \cup before.nets : m.index = x.index <=> m.name = n
           /\ written \subseteq x.zones \ known
           /\ params' = Put(params, {Param(SubnetPath(entry.index, x, z), entry.vpc, n) :
                                       z \in written})
           /\ missed' = (missed \ {<<entry.vpc, n, z>> : z \in written})
                        \cup {<<entry.vpc, n, z>> : z \in x.zones \ (known \cup written)}
           /\ ~ stray' => ~ stray /\ known \subseteq x.zones
    BY <1>5, SubnetForm, Zenon
  <2>3. entry'.vpc = entry.vpc /\ entry'.index = entry.index /\ entry'.groups = entry.groups
    BY <1>5, SubnetPut
  <2> DEFINE new == {Param(SubnetPath(entry.index, x, z), entry.vpc, n) : z \in written}
  <2>4. \A q \in new : q.path[1] = entry.index
    BY PathsDiffer, ParamIs
  <2>5. OnlyUnder(entry.index)
    <3> HIDE DEF new
    <3> QED BY <2>2, <2>4, PutIsUnder DEF new
  <2>6. Published(entry)
    BY <1>p, <2>1
  <2>7. Param(VpcPath(entry.index), entry.vpc, entry.vpc) \in params'
    <3> DEFINE p == Param(VpcPath(entry.index), entry.vpc, entry.vpc)
    <3>1. p \in params
      BY <2>6 DEF Published
    <3>2. \A q \in new : q.path # p.path
      BY PathsDiffer, ParamIs
    <3> HIDE DEF p, new
    <3>3. params' = Put(params, new)
      BY <2>2 DEF new
    <3>4. p \in params'
      BY <3>1, <3>2, <3>3, PutKeeps
    <3> QED BY <3>4 DEF p
  <2>8. \A g : <<entry.vpc, g>> \in missed => <<entry.vpc, g>> \in missed'
    BY <2>2, MarksDiffer
  <2>9. ASSUME NEW m, NEW z, <<entry.vpc, m, z>> \in missed, <<entry.vpc, m, z>> \notin missed'
        PROVE  m = n /\ z \in written
    BY <2>2, <2>9, MarksDiffer
  <2>10. \A v : v # entry.vpc => MarksKept(v)
    BY <2>2, MarksDiffer DEF MarksKept
  <2>11. ASSUME NEW z \in x.zones \ (known \cup written)
         PROVE  <<entry.vpc, n, z>> \in missed'
    BY <2>2
  <2> DEFINE NetPublished(m, z) ==
                Param(SubnetPath(entry.index, m, z), entry.vpc, m.name) \in params'
  <2>12. ASSUME NEW z \in written
         PROVE  NetPublished(x, z)
    <3>1. Param(SubnetPath(entry.index, x, z), entry.vpc, n) \in new
      OBVIOUS
    <3> HIDE DEF new
    <3> QED BY <2>2, <3>1 DEF Put, new
  <2>13. ASSUME NEW g \in entry.groups, <<entry.vpc, g.name>> \notin missed'
         PROVE  Param(GroupPath(entry.index, g), entry.vpc, g.name) \in params'
    <3> DEFINE p == Param(GroupPath(entry.index, g), entry.vpc, g.name)
    <3>1. p \in params
      BY <2>6, <2>8, <2>13 DEF Published
    <3>2. \A q \in new : q.path # p.path
      BY PathsDiffer, ParamIs
    <3> HIDE DEF p, new
    <3>3. params' = Put(params, new)
      BY <2>2 DEF new
    <3>4. p \in params'
      BY <3>1, <3>2, <3>3, PutKeeps
    <3> QED BY <3>4 DEF p
  <2>14. ASSUME NEW m \in entry.nets, NEW z \in m.zones, <<entry.vpc, m.name, z>> \notin missed
         PROVE  NetPublished(m, z)
    <3> DEFINE p == Param(SubnetPath(entry.index, m, z), entry.vpc, m.name)
    <3>1. p \in params
      BY <2>6, <2>14 DEF Published
    <3>2. ASSUME NEW y \in written, SubnetPath(entry.index, x, y) = SubnetPath(entry.index, m, z)
          PROVE  Param(SubnetPath(entry.index, x, y), entry.vpc, n) = p
      <4>1. x.index = m.index
        BY <3>2, PathsDiffer
      <4>2. m.name = n
        BY <2>2, <4>1
      <4> QED BY <3>2, <4>2
    <3>3. \A q \in new : q.path = p.path => q = p
      BY <3>2, ParamIs
    <3> HIDE DEF p, new
    <3>4. params' = Put(params, new)
      BY <2>2 DEF new
    <3>5. p \in params'
      BY <3>1, <3>3, <3>4, PutKeeps
    <3> QED BY <3>5 DEF p
  <2>15. ASSUME NEW m \in entry.nets, NEW z \in m.zones, m.name = n, z \in written
         PROVE  NetPublished(m, z)
    <3>1. m.index = x.index
      BY <2>2, <2>15
    <3>2. SubnetPath(entry.index, x, z) = SubnetPath(entry.index, m, z)
      BY <3>1 DEF SubnetPath
    <3> QED BY <2>2, <2>12, <2>15, <3>2
  <2>16. ASSUME NEW m \in entry.nets, NEW z \in m.zones, <<entry.vpc, m.name, z>> \notin missed'
         PROVE  NetPublished(m, z)
    <3> HIDE DEF NetPublished
    <3> QED BY <2>9, <2>14, <2>15, <2>16
  <2>17. ASSUME NEW z \in x.zones, <<entry.vpc, n, z>> \notin missed'
         PROVE  NetPublished(x, z)
    <3>1. CASE z \in known
      <4>1. PICK h \in had : z \in h.zones
        BY <3>1
      <4>2. h \in before.nets /\ h.name = n
        BY <4>1 DEF Named
      <4>3. h \in entry.nets
        BY <2>1, <4>2 DEF NamesInv, MadeOf
      <4>4. h.index = x.index
        BY <2>2, <4>2
      <4>5. SubnetPath(entry.index, x, z) = SubnetPath(entry.index, h, z)
        BY <4>4 DEF SubnetPath
      <4>6. NetPublished(h, z)
        BY <2>16, <2>17, <4>1, <4>2, <4>3
      <4> QED BY <2>2, <4>2, <4>5, <4>6
    <3>2. CASE z \notin known
      BY <2>11, <2>12, <2>17, <3>2
    <3> QED BY <3>1, <3>2
  <2>18. ASSUME NEW m \in entry'.nets, NEW z \in m.zones, <<entry.vpc, m.name, z>> \notin missed'
         PROVE  NetPublished(m, z)
    <3>1. CASE m \in entry.nets
      BY <2>16, <2>18, <3>1
    <3>2. CASE m = x
      BY <2>2, <2>17, <2>18, <3>2
    <3> QED BY <2>2, <2>18, <3>1, <3>2
  <2>19. Published(entry)'
    BY <2>3, <2>7, <2>13, <2>18 DEF Published
  <2> QED BY <1>o, <2>1, <2>5, <2>10, <2>19
<1>6. CASE SubnetsDone
  <2>1. /\ pc = "nets" /\ pc' = "groups" /\ UNCHANGED <<record, todo, kept, missed>>
    BY <1>6 DEF SubnetsDone, history
  <2>2. PICK gone \in SUBSET before.nets :
           /\ params' = Without(params, SubnetPaths(entry.index, gone))
           /\ entry'.nets = entry.nets \ gone
           /\ entry'.groups = entry.groups /\ entry'.vpc = entry.vpc
           /\ entry'.index = entry.index
           /\ \A m \in entry.nets \ gone, l \in gone : m.index # l.index
    BY <1>6, SubnetsForm
  <2>3. \A path \in SubnetPaths(entry.index, gone) :
           \E l \in gone : \E y \in l.zones : path = SubnetPath(entry.index, l, y)
    BY DEF SubnetPaths
  <2>4. OnlyUnder(entry.index)
    BY <2>2, <2>3, PathsDiffer, WithoutIsUnder
  <2>5. Published(entry)
    BY <1>p, <2>1
  <2>6. Param(VpcPath(entry.index), entry.vpc, entry.vpc) \in params'
    BY <2>2, <2>3, <2>5, PathsDiffer, ParamIs, WithoutKeeps DEF Published
  <2>7. \A g \in entry.groups : <<entry.vpc, g.name>> \notin missed =>
            Param(GroupPath(entry.index, g), entry.vpc, g.name) \in params'
    BY <2>2, <2>3, <2>5, PathsDiffer, ParamIs, WithoutKeeps DEF Published
  <2>8. ASSUME NEW m \in entry.nets \ gone, NEW z \in m.zones, <<entry.vpc, m.name, z>> \notin missed
        PROVE  Param(SubnetPath(entry.index, m, z), entry.vpc, m.name) \in params'
    <3>1. Param(SubnetPath(entry.index, m, z), entry.vpc, m.name) \in params
      BY <2>5, <2>8 DEF Published
    <3>2. SubnetPath(entry.index, m, z) \notin SubnetPaths(entry.index, gone)
      BY <2>2, <2>3, PathsDiffer
    <3> QED BY <2>2, <3>1, <3>2, ParamIs, WithoutKeeps
  <2>9. Published(entry)'
    BY <2>1, <2>2, <2>6, <2>7, <2>8 DEF Published
  <2> QED BY <1>o, <2>1, <2>4, <2>9, MarksStay
<1>7. ASSUME NEW g \in Groups, PutGroup(g)
      PROVE  /\ pc' = "groups" /\ \A e \in kept' : Published(e)'
             /\ \A e \in record' : e.vpc \in todo' => Published(e)'
             /\ Published(entry)'
  <2>1. /\ pc = "groups" /\ pc' = "groups" /\ g \in names /\ UNCHANGED <<record, todo, kept>>
    BY <1>7 DEF PutGroup
  <2> DEFINE had == Named(before.groups, g)
             mark == <<entry.vpc, g>>
  <2>2. PICK x : /\ x.name = g
                 /\ entry'.groups = (entry.groups \ had) \cup {x}
                 /\ \A m \in entry.groups \cup before.groups : m.index = x.index <=> m.name = g
                 /\ \/ /\ params' = Put(params, {Param(GroupPath(entry.index, x), entry.vpc, g)})
                       /\ missed' = missed \ {mark}
                    \/ /\ params' = params /\ missed \subseteq missed'
                       /\ missed' \subseteq missed \cup {mark}
                       /\ had = {} => mark \in missed'
    BY <1>c, <1>7, GroupForm
  <2>3. entry'.vpc = entry.vpc /\ entry'.index = entry.index /\ entry'.nets = entry.nets
    BY <1>7, GroupPut
  <2> DEFINE new == {Param(GroupPath(entry.index, x), entry.vpc, g)}
             GroupPublished(m) == Param(GroupPath(entry.index, m), entry.vpc, m.name) \in params'
  <2>4. Published(entry)
    BY <1>p, <2>1
  <2>5. /\ \A v : v # entry.vpc => MarksKept(v)
        /\ \A n, z : <<entry.vpc, n, z>> \in missed => <<entry.vpc, n, z>> \in missed'
        /\ \A h : h # g /\ <<entry.vpc, h>> \in missed => <<entry.vpc, h>> \in missed'
    BY <2>2, MarksDiffer DEF MarksKept
  <2>6. CASE params' = Put(params, new)
    <3>1. \A q \in new : q = Param(GroupPath(entry.index, x), entry.vpc, g)
                         /\ q.path = GroupPath(entry.index, x)
      BY ParamIs
    <3>2. GroupPublished(x)
      BY <2>2, <2>6 DEF Put
    <3> HIDE DEF new
    <3>3. OnlyUnder(entry.index)
      BY <2>6, <3>1, PathsDiffer, PutIsUnder
    <3>4. Param(VpcPath(entry.index), entry.vpc, entry.vpc) \in params'
      BY <2>4, <2>6, <3>1, PathsDiffer, ParamIs, PutKeeps DEF Published
    <3>5. ASSUME NEW n \in entry.nets, NEW z \in n.zones, <<entry.vpc, n.name, z>> \notin missed'
          PROVE  Param(SubnetPath(entry.index, n, z), entry.vpc, n.name) \in params'
      <4>1. Param(SubnetPath(entry.index, n, z), entry.vpc, n.name) \in params
        BY <2>4, <2>5, <3>5 DEF Published
      <4> QED BY <2>6, <3>1, <4>1, PathsDiffer, ParamIs, PutKeeps
    <3>6. ASSUME NEW m \in entry.groups, m.name = g
          PROVE  GroupPublished(m)
      <4>1. m.index = x.index
        BY <2>2, <3>6
      <4>2. GroupPath(entry.index, x) = GroupPath(entry.index, m)
        BY <4>1 DEF GroupPath
      <4> QED BY <2>2, <3>2, <3>6, <4>2
    <3>7. ASSUME NEW m \in entry.groups, m.name # g, <<entry.vpc, m.name>> \notin missed'
          PROVE  GroupPublished(m)
      <4> DEFINE p == Param(GroupPath(entry.index, m), entry.vpc, m.name)
      <4>1. p \in params /\ p.path = GroupPath(entry.index, m)
        BY <2>4, <2>5, <3>7, ParamIs DEF Published
      <4>2. GroupPath(entry.index, x) # GroupPath(entry.index, m)
        BY <2>2, <3>7, PathsDiffer
      <4>3. \A q \in new : q.path # p.path
        BY <3>1, <4>1, <4>2
      <4> HIDE DEF p
      <4>4. p \in params'
        BY <2>6, <4>1, <4>3, PutKeeps
      <4> QED BY <4>4 DEF p
    <3> HIDE DEF GroupPublished
    <3>8. \A m \in entry'.groups : <<entry.vpc, m.name>> \notin missed' => GroupPublished(m)
      BY <2>2, <3>2, <3>6, <3>7
    <3>9. Published(entry)'
      BY <2>3, <3>4, <3>5, <3>8 DEF Published, GroupPublished
    <3> QED BY <1>o, <2>1, <2>5, <3>3, <3>9
  <2>7. CASE params' = params /\ missed \subseteq missed' /\ (had = {} => mark \in missed')
    <3>1. \A p : p \in params' <=> p \in params
      BY <2>7
    <3>2. OnlyUnder(entry.index)
      BY <3>1 DEF OnlyUnder
    <3>3. ASSUME NEW m \in entry.groups, <<entry.vpc, m.name>> \notin missed'
          PROVE  GroupPublished(m)
      BY <2>4, <2>7, <3>3 DEF Published
    <3>4. ASSUME mark \notin missed'
          PROVE  GroupPublished(x)
      <4>1. PICK h \in before.groups : h.name = g
        BY <2>7, <3>4 DEF Named
      <4>2. h \in entry.groups /\ h.index = x.index
        BY <2>1, <2>2, <4>1 DEF NamesInv, MadeOf
      <4>3. GroupPath(entry.index, x) = GroupPath(entry.index, h)
        BY <4>2 DEF GroupPath
      <4>4. GroupPublished(h)
        BY <3>3, <3>4, <4>1, <4>2
      <4> QED BY <2>2, <4>1, <4>3, <4>4
    <3> HIDE DEF GroupPublished
    <3>5. \A m \in entry'.groups : <<entry.vpc, m.name>> \notin missed' => GroupPublished(m)
      BY <2>2, <3>3, <3>4
    <3>6. /\ Param(VpcPath(entry.index), entry.vpc, entry.vpc) \in params'
          /\ \A n \in entry.nets : \A z \in n.zones : <<entry.vpc, n.name, z>> \notin missed' =>
                Param(SubnetPath(entry.index, n, z), entry.vpc, n.name) \in params'
      BY <2>4, <2>5, <3>1 DEF Published
    <3>7. Published(entry)'
      BY <2>3, <3>5, <3>6 DEF Published, GroupPublished
    <3> QED BY <1>o, <2>1, <2>5, <3>2, <3>7
  <2> QED BY <2>2, <2>6, <2>7
<1>8. CASE GroupsDone
  <2>1. /\ pc = "groups" /\ pc' = "vpcs" /\ UNCHANGED <<record, todo, missed>>
    BY <1>8 DEF GroupsDone, history
  <2>2. PICK gone, away, e :
           /\ params' = Without(params, GroupPaths(entry.index, away))
           /\ kept' = kept \cup {e}
           /\ e.vpc = entry.vpc /\ e.index = entry.index
           /\ e.nets = entry.nets /\ e.groups = entry.groups \ gone
           /\ \A m \in entry.groups \ gone, l \in away :
                <<entry.vpc, m.name>> \notin missed => m.index # l.index
    BY <1>8, GroupsForm
  <2>3. \A path \in GroupPaths(entry.index, away) : \E l \in away : path = GroupPath(entry.index, l)
    BY DEF GroupPaths
  <2>4. OnlyUnder(entry.index)
    BY <2>2, <2>3, PathsDiffer, WithoutIsUnder
  <2>5. Published(entry)
    BY <1>p, <2>1
  <2>6. Param(VpcPath(entry.index), entry.vpc, entry.vpc) \in params'
    BY <2>2, <2>3, <2>5, PathsDiffer, ParamIs, WithoutKeeps DEF Published
  <2>7. \A n \in entry.nets : \A z \in n.zones : <<entry.vpc, n.name, z>> \notin missed =>
           Param(SubnetPath(entry.index, n, z), entry.vpc, n.name) \in params'
    BY <2>2, <2>3, <2>5, PathsDiffer, ParamIs, WithoutKeeps DEF Published
  <2>8. ASSUME NEW m \in entry.groups \ gone, <<entry.vpc, m.name>> \notin missed
        PROVE  Param(GroupPath(entry.index, m), entry.vpc, m.name) \in params'
    <3>1. Param(GroupPath(entry.index, m), entry.vpc, m.name) \in params
      BY <2>5, <2>8 DEF Published
    <3>2. GroupPath(entry.index, m) \notin GroupPaths(entry.index, away)
      BY <2>2, <2>3, <2>8, PathsDiffer
    <3> QED BY <2>2, <3>1, <3>2, ParamIs, WithoutKeeps
  <2>9. Published(e)'
    BY <2>1, <2>2, <2>6, <2>7, <2>8 DEF Published
  <2> QED BY <1>o, <2>1, <2>2, <2>4, <2>9, MarksStay
<1>9. CASE SaveIndex
  <2>1. /\ pc = "vpcs" /\ pc' = "sweep" /\ record' = kept /\ params' = params
        /\ missed' = missed
    BY <1>9 DEF SaveIndex, history
  <2> QED BY <1>p, <1>s, <2>1
<1>10. ASSUME NEW e \in left, DeleteVpc(e)
       PROVE  pc' = "sweep" /\ \A f \in record' : Published(f)'
  <2>1. /\ pc = "sweep" /\ pc' = "sweep" /\ record' = record
        /\ params' = Without(params, VpcPaths(e)) /\ missed' = missed
    BY <1>10 DEF DeleteVpc, history
  <2>2. OnlyUnder(e.index)
    BY <2>1, VpcPathsAre, WithoutIsUnder
  <2>3. \A f \in record : f.index # e.index
    BY <1>10, <2>1 DEF LeftInv
  <2> QED BY <1>p, <2>1, <2>2, <2>3, MarksStay, StaysPublished
<1>11. CASE SavingDone
  <2>1. /\ pc = "sweep" /\ pc' = "idle" /\ record' = record /\ params' = params
        /\ missed' = missed
    BY <1>11 DEF SavingDone, RunOver, history
  <2> QED BY <1>p, <1>s, <2>1
<1>12. ~ SavingCutShort
  <2>1. SavingCutShort => torn' = TRUE
    BY DEF SavingCutShort
  <2> QED BY <2>1, Zenon DEF Clean
<1>13. CASE UNCHANGED vars
  <2>1. UNCHANGED <<record, params, pc, todo, entry, kept, missed>>
    BY <1>13 DEF vars, run, history
  <2>2. Published(entry) => Published(entry)'
    BY <2>1 DEF Published
  <2> QED BY <1>p, <1>s, <2>1, <2>2
<1> QED
  BY <1>1, <1>2, <1>3, <1>4, <1>5, <1>6, <1>7, <1>8, <1>9, <1>10, <1>11, <1>12, <1>13 DEF Next

\* Every parameter but those of additional CIDRs is one of a holder.
Accounted(holders) ==
    \A p \in params : p.path = Cidr2Path(p.path[1]) \/ \E e \in holders : Holds(e, p)

LEMMA OwnersStep ==
    ASSUME IInv, SourcesInv, NamesInv, LeftInv, MissedInv, OwnersInv, [Next]_vars
    PROVE  OwnersInv'
<1>i. RunIs /\ KeptVpcs /\ TypeOK
  BY DEF IInv
<1> SUFFICES ASSUME Clean' /\ ~ stray'
             PROVE  \A p \in params' : \/ p.path = Cidr2Path(p.path[1])
                                       \/ \E e \in Holders' : Holds(e, p)
  BY DEF OwnersInv
<1>c. Clean /\ ~ stray /\ ~ mixed
  BY HistoryGrows, Zenon DEF Clean
<1>p. Accounted(Holders)
  BY <1>c DEF OwnersInv, Accounted
<1>s. ASSUME params' \subseteq params, Holders \subseteq Holders'
      PROVE  \A p \in params' : \/ p.path = Cidr2Path(p.path[1])
                                \/ \E e \in Holders' : Holds(e, p)
  <2> HIDE DEF Holders
  <2> QED BY <1>p, <1>s DEF Accounted
<1>w. ASSUME InVpc
      PROVE  Holders = kept \cup (left \ EntryOf(record, entry.vpc)) \cup {entry}
  BY <1>w DEF InVpc, Holders
<1>n. ASSUME InVpc', UNCHANGED <<record, left, kept>>, entry'.vpc = entry.vpc
      PROVE  Holders' = kept \cup (left \ EntryOf(record, entry.vpc)) \cup {entry'}
  BY <1>n DEF InVpc, Holders, EntryOf
<1>1. ASSUME NEW c \in Configs, NEW o \in Configs, NEW source \in Vpcs \cup {NoVpc},
             StartSaving(c, o, source)
      PROVE  params' = params /\ Holders \subseteq Holders'
  <2>1. /\ pc = "idle" /\ pc' = "vpcs" /\ left' = record /\ UNCHANGED <<record, params, kept>>
    BY <1>1 DEF StartSaving
  <2> QED BY <2>1 DEF Holders
<1>2. ASSUME NEW v \in Vpcs, VpcNotBuilt(v)
      PROVE  params' = params /\ Holders \subseteq Holders'
  <2>1. /\ pc = "vpcs" /\ pc' = "vpcs" /\ left' = left \ EntryOf(record, v)
        /\ UNCHANGED <<record, params, kept>>
    BY <1>2 DEF VpcNotBuilt, Turn
  <2>2. EntryOf(record, v) = {}
    BY <1>2, Zenon DEF VpcNotBuilt
  <2> QED BY <2>1, <2>2 DEF Holders
<1>3. ASSUME NEW v \in Vpcs, KeepVpc(v)
      PROVE  params' = params /\ Holders \subseteq Holders'
  <2>1. /\ pc = "vpcs" /\ pc' = "nets" /\ UNCHANGED <<record, params, left, kept>>
    BY <1>3 DEF KeepVpc, Turn
  <2>2. PICK e \in record : e.vpc = v /\ entry' = e
    BY <1>3 DEF KeepVpc, EntryOf
  <2>3. EntryOf(record, v) = {e}
    BY <2>2 DEF SourcesInv, OneEach, EntryOf
  <2> QED BY <2>1, <2>2, <2>3 DEF Holders, EntryOf
<1>4. ASSUME NEW v \in Vpcs, PutVpc(v)
      PROVE  \A p \in params' : \/ p.path = Cidr2Path(p.path[1])
                                \/ \E e \in Holders' : Holds(e, p)
  <2>1. /\ pc = "vpcs" /\ pc' = "nets" /\ UNCHANGED <<record, left, kept>>
        /\ EntryOf(record, v) = {}
        /\ entry' = [NoEntry EXCEPT !.vpc = v, !.index = max + 1]
    BY <1>4 DEF PutVpc, PutVpcAt, Turn
  <2>2. entry'.vpc = v /\ entry'.index = max + 1
    BY <2>1, NewVpc
  <2>3. Holders = kept \cup left /\ Holders' = kept \cup left \cup {entry'}
    BY <2>1, <2>2 DEF Holders, EntryOf
  <2> DEFINE paths == {VpcPath(max + 1)} \cup (IF v \in Wide THEN {Cidr2Path(max + 1)} ELSE {})
             new == {Param(path, v, v) : path \in paths}
  <2>4. params' = Put(params, new)
    BY <1>4 DEF PutVpc, PutVpcAt, Param
  <2>5. ASSUME NEW p \in new
        PROVE  p.path = Cidr2Path(p.path[1]) \/ Holds(entry', p)
    <3>1. PICK path \in paths : p = Param(path, v, v)
      OBVIOUS
    <3>2. p.path = path /\ p.vpc = v
      BY <3>1, ParamIs
    <3>3. path = VpcPath(max + 1) \/ path = Cidr2Path(max + 1)
      OBVIOUS
    <3> QED BY <2>2, <3>2, <3>3, PathsDiffer, VpcPathsAre DEF Holds
  <2> HIDE DEF new
  <2> QED BY <1>p, <2>3, <2>4, <2>5 DEF Put, Accounted
<1>5. ASSUME NEW n \in Subnets, PutSubnet(n)
      PROVE  \A p \in params' : \/ p.path = Cidr2Path(p.path[1])
                                \/ \E e \in Holders' : Holds(e, p)
  <2>1. /\ pc = "nets" /\ pc' = "nets" /\ UNCHANGED <<record, left, kept>>
    BY <1>5 DEF PutSubnet
  <2> DEFINE had == Named(before.nets, n)
             known == UNION {h.zones : h \in had}
  <2>2. PICK x, written :
                 /\ x.name = n /\ x.zones = ZonesOf(entry.vpc, n)
                 /\ entry'.nets = (entry.nets \ had) \cup {x}
                 /\ \A m \in entry.nets \cup before.nets : m.index = x.index <=> m.name = n
                 /\ written \subseteq x.zones \ known
                 /\ params' = Put(params, {Param(SubnetPath(entry.index, x, z), entry.vpc, n) :
                                             z \in written})
                 /\ ~ stray' => ~ stray /\ known \subseteq x.zones
    BY <1>5, SubnetForm, Zenon
  <2>3. entry'.vpc = entry.vpc /\ entry'.index = entry.index /\ entry'.groups = entry.groups
    BY <1>5, SubnetPut
  <2> DEFINE rest == kept \cup (left \ EntryOf(record, entry.vpc))
  <2>4. Holders = rest \cup {entry} /\ Holders' = rest \cup {entry'}
    BY <1>w, <1>n, <2>1, <2>3 DEF InVpc
  <2>5. known \subseteq x.zones
    BY <2>2, Zenon
  <2>6. ASSUME NEW p, Holds(entry, p)
        PROVE  Holds(entry', p)
    <3>1. ASSUME NEW m \in entry.nets, NEW z \in m.zones, p.path = SubnetPath(entry.index, m, z)
          PROVE  \E k \in entry'.nets : \E y \in k.zones : p.path = SubnetPath(entry.index, k, y)
      <4>1. CASE m \in had
        <5>1. z \in x.zones
          BY <2>5, <4>1
        <5>2. m.index = x.index
          BY <2>2, <4>1 DEF Named
        <5>3. SubnetPath(entry.index, m, z) = SubnetPath(entry.index, x, z)
          BY <5>2 DEF SubnetPath
        <5> QED BY <2>2, <3>1, <5>1, <5>3
      <4>2. CASE m \notin had
        BY <2>2, <3>1, <4>2
      <4> QED BY <4>1, <4>2
    <3> QED BY <2>3, <2>6, <3>1, VpcPathsAre DEF Holds
  <2> DEFINE new == {Param(SubnetPath(entry.index, x, z), entry.vpc, n) : z \in written}
  <2>7. ASSUME NEW p \in new
        PROVE  Holds(entry', p)
    <3>1. PICK z \in x.zones : p = Param(SubnetPath(entry.index, x, z), entry.vpc, n)
      BY <2>2
    <3>2. p.path = SubnetPath(entry'.index, x, z) /\ p.vpc = entry'.vpc /\ x \in entry'.nets
      BY <2>2, <2>3, <3>1, ParamIs
    <3> QED BY <3>2, VpcPathsAre DEF Holds
  <2> HIDE DEF rest
  <2>8. params' = Put(params, new)
    BY <2>2
  <2> HIDE DEF new
  <2> QED BY <1>p, <2>4, <2>6, <2>7, <2>8 DEF Put, Accounted
<1>6. CASE SubnetsDone
  <2>1. /\ pc = "nets" /\ pc' = "groups" /\ UNCHANGED <<record, left, kept>>
    BY <1>6 DEF SubnetsDone
  <2>2. PICK gone \in SUBSET before.nets :
           /\ params' = Without(params, SubnetPaths(entry.index, gone))
           /\ entry'.nets = entry.nets \ gone
           /\ entry'.groups = entry.groups /\ entry'.vpc = entry.vpc
           /\ entry'.index = entry.index
    BY <1>6, SubnetsForm
  <2> DEFINE rest == kept \cup (left \ EntryOf(record, entry.vpc))
  <2>3. Holders = rest \cup {entry} /\ Holders' = rest \cup {entry'}
    BY <1>w, <1>n, <2>1, <2>2 DEF InVpc
  <2> HIDE DEF rest
  <2>4. ASSUME NEW p \in params', Holds(entry, p)
        PROVE  Holds(entry', p)
    <3>1. p.path \notin SubnetPaths(entry.index, gone)
      BY <2>2 DEF Without
    <3>2. \A l \in gone : \A z \in l.zones : p.path # SubnetPath(entry.index, l, z)
      BY <3>1 DEF SubnetPaths
    <3> QED BY <2>2, <2>4, <3>2, VpcPathsAre DEF Holds
  <2>5. params' \subseteq params
    BY <2>2 DEF Without
  <2> QED BY <1>p, <2>3, <2>4, <2>5 DEF Accounted
<1>7. ASSUME NEW g \in Groups, PutGroup(g)
      PROVE  \A p \in params' : \/ p.path = Cidr2Path(p.path[1])
                                \/ \E e \in Holders' : Holds(e, p)
  <2>1. /\ pc = "groups" /\ pc' = "groups" /\ g \in names /\ UNCHANGED <<record, left, kept>>
    BY <1>7 DEF PutGroup
  <2> DEFINE had == Named(before.groups, g)
  <2>2. PICK x : /\ x.name = g
                 /\ entry'.groups = (entry.groups \ had) \cup {x}
                 /\ \A m \in entry.groups \cup before.groups : m.index = x.index <=> m.name = g
                 /\ \/ params' = Put(params, {Param(GroupPath(entry.index, x), entry.vpc, g)})
                    \/ params' = params
    BY <1>c, <1>7, GroupForm
  <2>3. entry'.vpc = entry.vpc /\ entry'.index = entry.index /\ entry'.nets = entry.nets
    BY <1>7, GroupPut
  <2> DEFINE rest == kept \cup (left \ EntryOf(record, entry.vpc))
  <2>4. Holders = rest \cup {entry} /\ Holders' = rest \cup {entry'}
    BY <1>w, <1>n, <2>1, <2>3 DEF InVpc
  <2> HIDE DEF rest
  <2>5. ASSUME NEW p, Holds(entry, p)
        PROVE  Holds(entry', p)
    <3>1. ASSUME NEW m \in entry.groups, p.path = GroupPath(entry.index, m)
          PROVE  \E k \in entry'.groups : p.path = GroupPath(entry.index, k)
      <4>1. CASE m \in had
        <5>1. m.index = x.index
          BY <2>2, <4>1 DEF Named
        <5>2. GroupPath(entry.index, m) = GroupPath(entry.index, x)
          BY <5>1 DEF GroupPath
        <5> QED BY <2>2, <3>1, <5>2
      <4>2. CASE m \notin had
        BY <2>2, <3>1, <4>2
      <4> QED BY <4>1, <4>2
    <3> QED BY <2>3, <2>5, <3>1, VpcPathsAre DEF Holds
  <2> DEFINE p1 == Param(GroupPath(entry.index, x), entry.vpc, g)
  <2>6. Holds(entry', p1)
    <3>1. p1.path = GroupPath(entry'.index, x) /\ p1.vpc = entry'.vpc /\ x \in entry'.groups
      BY <2>2, <2>3, ParamIs
    <3> HIDE DEF p1
    <3> QED BY <3>1, VpcPathsAre DEF Holds
  <2>7. \A p \in params' : p \in params \/ p = p1
    BY <2>2 DEF Put
  <2> HIDE DEF p1
  <2> QED BY <1>p, <2>4, <2>5, <2>6, <2>7 DEF Accounted
<1>8. CASE GroupsDone
  <2>1. /\ pc = "groups" /\ pc' = "vpcs" /\ left' = left \ EntryOf(record, entry.vpc)
    BY <1>8 DEF GroupsDone
  <2>2. PICK gone, away, e :
           /\ gone \subseteq away
           /\ params' = Without(params, GroupPaths(entry.index, away))
           /\ kept' = kept \cup {e}
           /\ e.vpc = entry.vpc /\ e.index = entry.index
           /\ e.nets = entry.nets /\ e.groups = entry.groups \ gone
    BY <1>8, GroupsForm
  <2> DEFINE rest == kept \cup (left \ EntryOf(record, entry.vpc))
  <2>3. Holders = rest \cup {entry} /\ Holders' = rest \cup {e}
    BY <1>w, <2>1, <2>2 DEF InVpc, Holders
  <2> HIDE DEF rest
  <2>4. ASSUME NEW p \in params', Holds(entry, p)
        PROVE  Holds(e, p)
    <3>1. p.path \notin GroupPaths(entry.index, away)
      BY <2>2 DEF Without
    <3>2. \A l \in gone : p.path # GroupPath(entry.index, l)
      BY <2>2, <3>1 DEF GroupPaths
    <3> QED BY <2>2, <2>4, <3>2, VpcPathsAre DEF Holds
  <2>5. params' \subseteq params
    BY <2>2 DEF Without
  <2> QED BY <1>p, <2>3, <2>4, <2>5 DEF Accounted
<1>9. CASE SaveIndex
  <2>1. /\ pc = "vpcs" /\ pc' = "sweep" /\ record' = kept /\ left' = left /\ params' = params
    BY <1>9 DEF SaveIndex, run
  <2>2. Holders \subseteq Holders'
    BY <2>1 DEF Holders
  <2> QED BY <1>s, <2>1, <2>2
<1>10. ASSUME NEW e \in left, DeleteVpc(e)
       PROVE  \A p \in params' : \/ p.path = Cidr2Path(p.path[1])
                                 \/ \E f \in Holders' : Holds(f, p)
  <2>1. /\ pc = "sweep" /\ pc' = "sweep" /\ record' = record /\ left' = left \ {e}
        /\ params' = Without(params, VpcPaths(e))
    BY <1>10 DEF DeleteVpc
  <2>2. Holders = record \cup left /\ Holders' = record \cup (left \ {e})
    BY <2>1 DEF Holders
  <2>3. \A p \in params' : p \in params /\ ~ Holds(e, p)
    BY <2>1 DEF Without, Holds
  <2> QED BY <1>p, <2>2, <2>3 DEF Accounted
<1>11. CASE SavingDone
  <2>1. /\ pc = "sweep" /\ pc' = "idle" /\ left = {} /\ record' = record /\ params' = params
    BY <1>11 DEF SavingDone, RunOver
  <2>2. Holders \subseteq Holders'
    BY <2>1 DEF Holders
  <2> QED BY <1>s, <2>1, <2>2
<1>12. ~ SavingCutShort
  <2>1. SavingCutShort => torn' = TRUE
    BY DEF SavingCutShort
  <2> QED BY <2>1, Zenon DEF Clean
<1>13. CASE UNCHANGED vars
  <2>1. UNCHANGED <<record, params, pc, entry, left, kept>>
    BY <1>13 DEF vars, run
  <2>2. Holders \subseteq Holders'
    BY <2>1 DEF Holders, EntryOf
  <2> QED BY <1>s, <2>1, <2>2
<1> QED
  BY <1>s, <1>1, <1>2, <1>3, <1>4, <1>5, <1>6, <1>7, <1>8, <1>9, <1>10, <1>11, <1>12, <1>13
     DEF Next

-----------------------------------------------------------------------------
(* The theorems *)

LEMMA InductiveInvariant == Spec => []IInv
BY Initially, Preserved, PTL DEF Spec

\* The record, the parameters and the locals keep their shape.
THEOREM TypeCorrect == Spec => []TypeOK
<1>1. IInv => TypeOK
  BY DEF IInv
<1> QED BY <1>1, InductiveInvariant, PTL

\* Whatever VPCs come and go, are shared or lack an output, and wherever runs are cut short:
\* no two recorded VPCs have one number, and no two subnets or groups of a VPC.
THEOREM NumbersAreUnique == Spec => []NumbersUnique
<1>1. IInv => NumbersUnique
  BY DEF IInv, KeptVpcs, KeptNames, VpcsDiffer, NumbersUnique
<1> QED BY <1>1, InductiveInvariant, PTL

LEMMA PublishedInductive == Spec => [](IInv /\ PInv)
<1>1. Init => IInv /\ PInv
  <2> SUFFICES ASSUME Init
               PROVE  IInv /\ PInv
    OBVIOUS
  <2>1. record = {} /\ kept = {} /\ params = {} /\ pc = "idle"
    BY DEF Init
  <2>2. SourcesInv /\ NamesInv /\ LeftInv /\ MissedInv /\ PublishedInv /\ OwnersInv
    BY <2>1 DEF SourcesInv, OneEach, NamesInv, LeftInv, MissedInv, PublishedInv, OwnersInv,
                Saving, InVpc
  <2> QED BY <2>2, Initially DEF PInv
<1>2. IInv /\ PInv /\ [Next]_vars => (IInv /\ PInv)'
  BY Preserved, SourcesStep, NamesStep, LeftStep, MissedStep, PublishedStep, OwnersStep
     DEF PInv
<1> QED BY <1>1, <1>2, PTL DEF Spec

\* Whatever is configured and whatever the outputs tell, run after run: as long as none is cut
\* short and none meets two shared VPCs, every recorded number of a VPC, subnet or group reads
\* its own parameter, but for groups and zones without an output when they were recorded; and
\* unless a VPC lost its output or a subnet a zone, nothing of another VPC stands there.
THEOREM PublishedNumbersAreSound == Spec => []PublishedSound
<1>1. IInv /\ PInv => PublishedSound
  <2> SUFFICES ASSUME IInv, PInv, pc = "idle" /\ ~ torn /\ ~ mixed
               PROVE  PublishedBut(missed) /\ (~ stray => OwnOnly)
    BY DEF PublishedSound
  <2>1. Clean
    BY DEF Clean
  <2>2. PublishedBut(missed)
    <3>1. \A e \in record : Published(e)
      BY <2>1 DEF PInv, PublishedInv
    <3> QED BY <3>1, Zenon DEF Published, Param, PublishedBut
  <2>3. ASSUME ~ stray, NEW p \in params, NEW e \in record,
               p.path[1] = e.index, p.path # Cidr2Path(e.index)
        PROVE  p.vpc = e.vpc
    <3>1. PICK f \in Holders : Holds(f, p)
      <4> HIDE DEF Holders
      <4> QED BY <2>1, <2>3, Zenon DEF PInv, OwnersInv
    <3>2. f \in record
      BY <3>1 DEF Holders
    <3>3. p.path[1] = f.index /\ p.vpc = f.vpc
      BY <3>1, VpcPathsAre DEF Holds
    <3>4. f.vpc = e.vpc
      <4>1. VpcsDiffer(record)
        BY DEF IInv, KeptVpcs
      <4>2. f.index = e.index
        BY <2>3, <3>3
      <4> QED BY <3>2, <4>1, <4>2 DEF VpcsDiffer
    <3> QED BY <3>3, <3>4
  <2>4. ~ stray => OwnOnly
    BY <2>3, Zenon DEF OwnOnly
  <2> QED BY <2>2, <2>4
<1> QED BY <1>1, PublishedInductive, PTL

=============================================================================
