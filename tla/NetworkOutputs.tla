----------------------------- MODULE NetworkOutputs -----------------------------
(***************************************************************************)
(* The parameters of VPCs, /ASEA/network/vpc/2/sg/1/id: numbers within     *)
(* numbers.                                                                *)
(*                                                                         *)
(* A run goes through the VPCs the configuration gives an account and      *)
(* region, those shared with the account last.  VPCs are numbered, and in  *)
(* each VPC its subnets and its security groups.  Leftover subnets and     *)
(* groups are deleted VPC by VPC before the record of all is saved,        *)
(* leftover VPCs after.  As in OutputIndex a run may end between any two   *)
(* calls.  VPCs of type lvpc are numbered apart under a prefix of their    *)
(* own; this is one of the two lists.                                      *)
(*                                                                         *)
(* The output of a VPC holds its subnets and, unless it is shared, its     *)
(* security groups; the groups of shared VPCs come in an output each.      *)
(* Outputs are those of the last deployment that stored them: they may     *)
(* lack what is configured since, which is then recorded, not written.     *)
(***************************************************************************)
EXTENDS Integers, FiniteSets, FiniteSetsExt

CONSTANTS
    Vpcs,
    Shared,   \* VPCs of other accounts
    Wide,     \* VPCs with a second CIDR
    Groups,   \* names of security groups
    Subnets,  \* names of subnets
    Zones,
    Configs,  \* configurations of a run, and what outputs tell of one
    MaxRuns   \* bound on runs

\* The groups of a VPC, its subnets by zone, and which of the two keys it has at all.
VpcConfig ==
    {c \in [groups : SUBSET Groups, nets : SUBSET (Subnets \X Zones),
            keys : SUBSET {"groups", "nets"}] :
        /\ "groups" \in c.keys \/ c.groups = {}
        /\ "nets" \in c.keys \/ c.nets = {}}

ASSUME NetworkAssumption ==
    /\ Shared \subseteq Vpcs /\ Wide \subseteq Vpcs
    /\ Configs \subseteq UNION {[vs -> VpcConfig] : vs \in SUBSET Vpcs}
    /\ MaxRuns \in Nat

VARIABLES
    record,   \* the list in the DynamoDB item
    params,   \* the parameters by path, and whose they are
    pc,       \* where the run is
    config,   \* the configuration of the run
    outputs,  \* of each VPC that has an output what it was built with
    first,    \* the shared VPC whose groups are the first such output
    todo,     \* VPCs the run has yet to go through
    max,      \* the highest index of a VPC
    entry,    \* the entry of the VPC at hand
    before,   \* that entry as it was read
    names,    \* subnets or groups of it, yet to be done
    left,     \* its leftovers, or leftover VPCs, yet to be deleted
    kept,     \* the new list
    runs,     \* runs so far
    torn,     \* history: a run was cut short
    stray,    \* history: a VPC without output, or a subnet that lost a zone
    mixed,    \* history: two shared VPCs in one run
    missed    \* history: groups and zones recorded but not written, for want of an output

run == <<config, outputs, first, todo, max, entry, before, names, left, kept>>
history == <<runs, torn, stray, mixed, missed>>
vars == <<record, params, pc, run, history>>

NoVpc == "no VPC"

GroupEntries == [name : Groups, index : Nat]
SubnetEntries == [name : Subnets, index : Nat, zones : SUBSET Zones]

IsEntry(e, someVpc) ==
    /\ DOMAIN e = {"vpc", "index", "groups", "nets"}
    /\ e.vpc \in someVpc /\ e.index \in Nat
    /\ e.groups \subseteq GroupEntries /\ e.nets \subseteq SubnetEntries

NoEntry == [vpc |-> NoVpc, index |-> 0, groups |-> {}, nets |-> {}]

-----------------------------------------------------------------------------
(* Parameters *)

VpcPath(i) == <<i>>
Cidr2Path(i) == <<i, "cidr2">>
GroupPath(i, g) == <<i, "sg", g.index>>
SubnetPath(i, n, z) == <<i, "net", n.index, z>>

\* putParameter overwrites.
Put(store, new) == {p \in store : \A q \in new : p.path # q.path} \cup new

Without(store, paths) == {p \in store : p.path \notin paths}

GroupPaths(i, gs) == {GroupPath(i, g) : g \in gs}
SubnetPaths(i, ns) == UNION {{SubnetPath(i, n, z) : z \in n.zones} : n \in ns}

\* What is deleted for a VPC.  Additional CIDRs are written to cidr2/0, cidr2/1, ... and
\* deleted as cidr2.
VpcPaths(e) == {VpcPath(e.index)} \cup GroupPaths(e.index, e.groups)
               \cup SubnetPaths(e.index, e.nets)

-----------------------------------------------------------------------------
\* Mutant: an empty list has no highest index.
MaxIndexOrMinusOne(list) == Max({e.index : e \in list} \cup {-1})

MaxIndex(list) == Max({e.index : e \in list} \cup {0})

Named(list, n) == {e \in list : e.name = n}
EntryOf(list, v) == {e \in list : e.vpc = v}

SubnetNames(v) == {s[1] : s \in config[v].nets}
ZonesOf(v, n) == {s[2] : s \in {s \in config[v].nets : s[1] = n}}

\* The groups that are looked up for a VPC: for a shared one, whatever output has a name.
SourceOf(v) == IF v \in Shared THEN first ELSE v

\* Without the key, or without such an output, groups stay as they were recorded.
SavesGroups(v) == "groups" \in config[v].keys /\ SourceOf(v) # NoVpc

Init ==
    /\ record = {} /\ params = {}
    /\ pc = "idle"
    /\ config = <<>> /\ outputs = <<>> /\ first = NoVpc
    /\ todo = {} /\ max = 0 /\ entry = NoEntry /\ before = NoEntry
    /\ names = {} /\ left = {} /\ kept = {}
    /\ runs = 0 /\ torn = FALSE /\ stray = FALSE /\ mixed = FALSE /\ missed = {}

-----------------------------------------------------------------------------
(* VPCs *)

StartSaving(c, o, source) ==
    /\ pc = "idle" /\ runs < MaxRuns
    /\ LET sources == {v \in DOMAIN o \cap Shared : o[v].groups # {}}
       IN IF sources = {} THEN source = NoVpc ELSE source \in sources
    /\ config' = c /\ outputs' = o /\ first' = source
    /\ todo' = DOMAIN c /\ max' = MaxIndex(record) /\ left' = record
    /\ pc' = "vpcs"
    /\ runs' = runs + 1
    /\ mixed' = (mixed \/ \E v, w \in DOMAIN o \cap Shared : v # w)
    /\ UNCHANGED <<record, params, entry, before, names, kept, torn, stray, missed>>

\* Shared VPCs come after the others.
Turn(v) == pc = "vpcs" /\ v \in todo /\ (v \in Shared => todo \subseteq Shared)

\* A VPC without output is neither recorded nor deleted; a new one uses up a number.
VpcNotBuilt(v) ==
    /\ Turn(v) /\ v \notin DOMAIN outputs
    /\ todo' = todo \ {v}
    /\ max' = IF EntryOf(record, v) = {} THEN max + 1 ELSE max
    /\ left' = left \ EntryOf(record, v)
    /\ stray' = (stray \/ EntryOf(record, v) # {})
    /\ UNCHANGED <<record, params, pc, config, outputs, first, entry, before, names, kept,
                   runs, torn, mixed, missed>>

KeepVpc(v) ==
    /\ Turn(v) /\ v \in DOMAIN outputs
    /\ \E e \in EntryOf(record, v) : entry' = e /\ before' = e
    /\ todo' = todo \ {v}
    /\ names' = SubnetNames(v)
    /\ pc' = "nets"
    /\ UNCHANGED <<record, params, config, outputs, first, max, left, kept, history>>

PutVpcAt(v, i) ==
    /\ Turn(v) /\ v \in DOMAIN outputs /\ EntryOf(record, v) = {}
    /\ entry' = [NoEntry EXCEPT !.vpc = v, !.index = i]
    /\ before' = entry'
    /\ params' = Put(params, {[path |-> path, vpc |-> v, name |-> v] :
                      path \in {VpcPath(i)} \cup (IF v \in Wide THEN {Cidr2Path(i)} ELSE {})})
    /\ max' = max + 1
    /\ todo' = todo \ {v}
    /\ names' = SubnetNames(v)
    /\ pc' = "nets"
    /\ UNCHANGED <<record, config, outputs, first, left, kept, history>>

\* Mutant: as many as there are, and one.
PutVpcCounted(v) == PutVpcAt(v, Cardinality(record) + 1)

PutVpc(v) == PutVpcAt(v, max + 1)

-----------------------------------------------------------------------------
(* Subnets and security groups of a VPC *)

\* All zones are recorded; written are those that were not recorded and have an output.
\* Zones a subnet lost are not deleted.
PutSubnet(n) ==
    /\ pc = "nets" /\ n \in names
    /\ LET had == Named(before.nets, n)
           zones == ZonesOf(entry.vpc, n)
           new == [name |-> n, zones |-> zones,
                   index |-> IF had # {} THEN MaxIndex(had)
                             ELSE MaxIndex(before.nets \cup entry.nets) + 1]
           known == UNION {h.zones : h \in had}
           written == {z \in zones \ known : <<n, z>> \in outputs[entry.vpc].nets}
       IN /\ entry' = [entry EXCEPT !.nets = (@ \ had) \cup {new}]
          /\ params' = Put(params, {[path |-> SubnetPath(entry.index, new, z),
                                     vpc |-> entry.vpc, name |-> n] : z \in written})
          /\ stray' = (stray \/ ~ (known \subseteq zones))
          /\ missed' = (missed \ {<<entry.vpc, n, z>> : z \in written})
                       \cup {<<entry.vpc, n, z>> : z \in zones \ (known \cup written)}
    /\ names' = names \ {n}
    /\ UNCHANGED <<record, pc, config, outputs, first, todo, max, before, left, kept, runs, torn,
                   mixed>>

Leftovers(list, wanted) == {e \in list : e.name \notin wanted}

\* Leftovers are deleted in one request of up to ten names.  An empty list leaves none of
\* them; a VPC without the key keeps what it had.
SubnetsDone ==
    /\ pc = "nets" /\ names = {}
    /\ LET gone == IF "nets" \in config[entry.vpc].keys
                   THEN Leftovers(before.nets, SubnetNames(entry.vpc)) ELSE {}
       IN /\ params' = Without(params, SubnetPaths(entry.index, gone))
          /\ entry' = [entry EXCEPT !.nets = @ \ gone]
    /\ names' = IF SavesGroups(entry.vpc) THEN config[entry.vpc].groups ELSE {}
    /\ pc' = "groups"
    /\ UNCHANGED <<record, config, outputs, first, todo, max, before, left, kept, history>>

\* Mutant: the index of the name is not looked up.
GroupEntryAnew(g) ==
    [name |-> g, index |-> MaxIndex(before.groups \cup entry.groups) + 1]

GroupEntry(g) ==
    LET had == Named(before.groups, g)
    IN [name |-> g, index |-> IF had # {} THEN MaxIndex(had)
                              ELSE MaxIndex(before.groups \cup entry.groups) + 1]

\* Recorded in any case; written if the name is new and there is an output for it.
PutGroup(g) ==
    /\ pc = "groups" /\ g \in names
    /\ LET v == entry.vpc
           had == Named(before.groups, g)
           source == SourceOf(v)
           found == g \in outputs[source].groups
       IN /\ entry' = [entry EXCEPT !.groups = (@ \ had) \cup {GroupEntry(g)}]
          /\ params' = IF had = {} /\ found
                       THEN Put(params, {[path |-> GroupPath(entry.index, GroupEntry(g)),
                                          vpc |-> source, name |-> g]})
                       ELSE params
          /\ missed' = IF ~ found THEN missed \cup {<<v, g>>}
                       ELSE IF had = {} THEN missed \ {<<v, g>>}
                       ELSE missed
    /\ names' = names \ {g}
    /\ UNCHANGED <<record, pc, config, outputs, first, todo, max, before, left, kept, runs, torn,
                   stray, mixed>>

\* Deleted: groups that are no longer configured, and those without an output, which stay
\* recorded.
GroupsDone ==
    /\ pc = "groups" /\ names = {}
    /\ LET v == entry.vpc
           wanted == config[v].groups
           gone == IF SavesGroups(v) THEN Leftovers(before.groups, wanted) ELSE {}
           lost == IF SavesGroups(v)
                   THEN {g \in before.groups : g.name \in wanted \ outputs[SourceOf(v)].groups}
                   ELSE {}
       IN /\ params' = Without(params, GroupPaths(entry.index, gone \cup lost))
          /\ kept' = kept \cup {[entry EXCEPT !.groups = @ \ gone]}
          /\ left' = left \ EntryOf(record, v)
    /\ entry' = NoEntry /\ before' = NoEntry
    /\ pc' = "vpcs"
    /\ UNCHANGED <<record, config, outputs, first, todo, max, names, history>>

-----------------------------------------------------------------------------
(* The end *)

SaveIndex ==
    /\ pc = "vpcs" /\ todo = {}
    /\ record' = kept
    /\ pc' = "sweep"
    /\ UNCHANGED <<params, run, history>>

DeleteVpc(e) ==
    /\ pc = "sweep" /\ e \in left
    /\ params' = Without(params, VpcPaths(e))
    /\ left' = left \ {e}
    /\ UNCHANGED <<record, pc, config, outputs, first, todo, max, entry, before, names, kept,
                   history>>

RunOver ==
    /\ pc' = "idle"
    /\ config' = <<>> /\ outputs' = <<>> /\ first' = NoVpc
    /\ todo' = {} /\ max' = 0 /\ entry' = NoEntry /\ before' = NoEntry
    /\ names' = {} /\ left' = {} /\ kept' = {}

SavingDone ==
    /\ pc = "sweep" /\ left = {}
    /\ RunOver
    /\ UNCHANGED <<record, params, history>>

SavingCutShort ==
    /\ pc # "idle"
    /\ RunOver
    /\ torn' = TRUE
    /\ UNCHANGED <<record, params, runs, stray, mixed, missed>>

Next ==
    \/ \E c, o \in Configs, source \in Vpcs \cup {NoVpc} : StartSaving(c, o, source)
    \/ \E v \in Vpcs : VpcNotBuilt(v) \/ KeepVpc(v) \/ PutVpc(v)
    \/ \E n \in Subnets : PutSubnet(n)
    \/ \E g \in Groups : PutGroup(g)
    \/ SubnetsDone \/ GroupsDone \/ SaveIndex
    \/ \E e \in left : DeleteVpc(e)
    \/ SavingDone \/ SavingCutShort

Spec == Init /\ [][Next]_vars

-----------------------------------------------------------------------------
(* Properties *)

\* The record, the parameters and the locals have the shape the code gives them.
TypeOK ==
    /\ \A e \in record \cup left \cup kept : IsEntry(e, Vpcs)
    /\ IsEntry(entry, Vpcs \cup {NoVpc}) /\ IsEntry(before, Vpcs \cup {NoVpc})
    /\ \A p \in params : p.path[1] \in Nat /\ p.vpc \in Vpcs
                         /\ p.name \in Vpcs \cup Groups \cup Subnets
    /\ pc \in {"idle", "vpcs", "nets", "groups", "sweep"}
    /\ DOMAIN outputs \subseteq Vpcs /\ todo \subseteq DOMAIN config
    /\ first \in Vpcs \cup {NoVpc}
    /\ names \subseteq Subnets \cup Groups
    /\ max \in Nat /\ runs \in Nat
    /\ {torn, stray, mixed} \subseteq BOOLEAN

\* A VPC has one entry and an index of its own, and so have the groups and subnets
\* within it, after any sequence of runs, cut short or not.
Numbered(list) == \A e, f \in list : e.name = f.name <=> e.index = f.index

NumbersUnique ==
    /\ \A e, f \in record : e.vpc = f.vpc <=> e.index = f.index
    /\ \A e \in record : Numbered(e.groups) /\ Numbered(e.nets)

\* A user who reads a recorded index reads the VPC, the subnets and the groups that are
\* recorded, each under its name; but for groups and zones that had no output when they were
\* recorded, or groups that lost theirs.
PublishedBut(exempt) ==
    \A e \in record :
        /\ [path |-> VpcPath(e.index), vpc |-> e.vpc, name |-> e.vpc] \in params
        /\ \A g \in e.groups :
             \/ <<e.vpc, g.name>> \in exempt
             \/ [path |-> GroupPath(e.index, g), vpc |-> e.vpc, name |-> g.name] \in params
        /\ \A n \in e.nets : \A z \in n.zones :
             \/ <<e.vpc, n.name, z>> \in exempt
             \/ [path |-> SubnetPath(e.index, n, z), vpc |-> e.vpc, name |-> n.name] \in params

\* Between runs none of which was cut short the published numbers are the recorded ones,
\* and nothing of another VPC stands under them.  Left out: additional CIDRs, which are
\* never deleted, and what happens to two shared VPCs or after a VPC lost its output.
OwnOnly ==
    \A p \in params : \A e \in record :
        (p.path[1] = e.index /\ p.path # Cidr2Path(e.index)) => p.vpc = e.vpc

PublishedSound ==
    (pc = "idle" /\ ~ torn /\ ~ mixed) =>
        /\ PublishedBut(missed)
        /\ ~ stray => OwnOnly

\* A zone that had no output when it was recorded is written by a run that finds it there.
MissedIsMadeUp ==
    [][pc = "sweep" /\ pc' = "idle" /\ ~ torn' =>
         \A e \in record : e.vpc \in DOMAIN outputs =>
            \A n \in e.nets : \A z \in n.zones :
                <<n.name, z>> \in outputs[e.vpc].nets => <<e.vpc, n.name, z>> \notin missed]_vars

\* A group that is published under a VPC's index is a group of that VPC, also if several
\* VPCs are shared with the account.
GroupsOwn ==
    (pc = "idle" /\ ~ torn /\ ~ stray) =>
        \A e \in record : \A g \in e.groups : \A p \in params :
            p.path = GroupPath(e.index, g) => p.vpc = e.vpc

=============================================================================
