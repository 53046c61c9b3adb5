------------------------------ MODULE OutputIndex ------------------------------
(***************************************************************************)
(* Outputs as numbered SSM parameters.                                     *)
(*                                                                         *)
(* After the last phase an execution publishes what it deployed: for each  *)
(* account, region and type of resource, parameters whose path ends in a   *)
(* number, /ASEA/ident/role/3/arn.  Users refer to these paths, so a       *)
(* resource must keep its number.  A DynamoDB item, the record, holds the  *)
(* numbers in use; a run of the handler reads it, goes through what it     *)
(* finds in the outputs table, writes parameters, deletes those of what it *)
(* no longer finds, and saves the record.  A run may end between any two   *)
(* of these calls.                                                         *)
(*                                                                         *)
(* The module is one list: one record and the parameters under one prefix. *)
(* Its kind says which file of save-outputs-to-ssm writes it:              *)
(*   early     IAM, KMS, ACM and an account's own load balancers, whose    *)
(*             leftovers are deleted before the record is saved            *)
(*   late      SNS topics, deleted after it is saved                       *)
(*   firewall  firewall variables, as late, but deleted under another path *)
(*   remote    load balancers of all accounts in one list                  *)
(* VPCs, whose lists nest, are in NetworkOutputs.                          *)
(***************************************************************************)
EXTENDS Integers, FiniteSets, FiniteSetsExt

CONSTANTS
    Names,    \* resources by name
    Accounts,
    Account,  \* the account of each resource
    Here,     \* the account the parameters are in
    MaxRuns   \* bound on runs

ASSUME OutputAssumption ==
    /\ Account \in [Names -> Accounts]
    /\ Here \notin Accounts
    /\ MaxRuns \in Nat

VARIABLES
    kind,     \* the kind of the list
    record,   \* the list in the DynamoDB item
    params,   \* the parameters: the name that stands under an index
    pc,       \* where the run is
    old,      \* the list as it was read
    found,    \* names in the outputs table
    asked,    \* accounts the configuration names for this type
    accounts, \* accounts the run has yet to go through
    todo,     \* names of the account at hand, yet to be done
    max,      \* the highest index known to be in use; 0 stands for undefined, too
    kept,     \* the new list
    left,     \* entries whose parameters the run will delete
    runs,     \* runs so far
    interrupted, \* history: a run was cut short
    restarted,   \* history: the numbering restarted in the middle of a run
    quiet,       \* history: an account whose entries were passed over
    torn         \* history: recorded names whose parameters a run has deleted

run == <<old, found, asked, accounts, todo, max, kept, left>>
history == <<runs, interrupted, restarted, quiet, torn>>
vars == <<kind, record, params, pc, run, history>>

Entries == [name : Names, index : Nat]
Kinds == {"early", "late", "firewall", "remote"}

-----------------------------------------------------------------------------
NamesIn(list) == {e.name : e \in list}

\* Mutant: an empty list has no highest index.
MaxIndexOrMinusOne(list) == Max({e.index : e \in list} \cup {-1})

\* Math.max of the indices, 0 for none.
MaxIndex(list) == Max({e.index : e \in list} \cup {0})

AccountOf(n) == IF kind = "remote" THEN Account[n] ELSE Here

EntriesOf(list, a) == {e \in list : AccountOf(e.name) = a}

\* putParameter overwrites.
Put(store, e) == {p \in store : p.index # e.index} \cup {e}

\* deleteParameters under an index, whoever stands there; a firewall's path holds the
\* name of the configuration when it is written and the id of the instance when deleted.
Deleted(store, e) ==
    IF kind = "firewall" THEN store ELSE {p \in store : p.index # e.index}

Init ==
    /\ kind \in Kinds
    /\ record = {} /\ params = {}
    /\ pc = "idle"
    /\ old = {} /\ found = {} /\ asked = {} /\ accounts = {}
    /\ todo = {} /\ max = 0 /\ kept = {} /\ left = {}
    /\ runs = 0
    /\ interrupted = FALSE /\ restarted = FALSE /\ quiet = FALSE /\ torn = {}

-----------------------------------------------------------------------------
\* A run reads the record and the outputs.  In a remote list the configuration names
\* the accounts; those without any load balancer in the region are passed over.
StartSaving(names, wanted, present) ==
    /\ pc = "idle" /\ runs < MaxRuns
    /\ IF kind = "remote"
       THEN /\ \A n \in names : Account[n] \in wanted \cap present
       ELSE wanted = {} /\ present = {}
    /\ old' = record /\ max' = MaxIndex(record) /\ kept' = {} /\ left' = {}
    /\ found' = names /\ asked' = wanted
    /\ accounts' = IF kind = "remote" THEN present ELSE {Here}
    /\ pc' = "accounts"
    /\ runs' = runs + 1
    /\ quiet' = \/ quiet
                \/ \E a \in wanted \ present : EntriesOf(record, a) # {}
    /\ UNCHANGED <<kind, record, params, todo, interrupted, restarted, torn>>

\* saveElbOutputsImpl returns early, without a highest index.
SkipAccount(a) ==
    /\ pc = "accounts" /\ a \in accounts
    /\ EntriesOf(old, a) = {}
    /\ \A n \in found : AccountOf(n) # a
    /\ accounts' = accounts \ {a}
    /\ max' = 0
    /\ restarted' = (restarted \/ max > 0)
    /\ UNCHANGED <<kind, record, params, pc, old, found, asked, todo, kept, left, runs,
                   interrupted, quiet, torn>>

\* The highest index comes from the account before, or if that is 0 or undefined, from
\* the account's own entries.
VisitAccount(a) ==
    /\ pc = "accounts" /\ a \in accounts
    /\ EntriesOf(old, a) # {} \/ \E n \in found : AccountOf(n) = a
    /\ accounts' = accounts \ {a}
    /\ todo' = {n \in found : AccountOf(n) = a}
    /\ left' = EntriesOf(old, a)
    /\ max' = IF max > 0 THEN max ELSE MaxIndex(EntriesOf(old, a))
    /\ pc' = "put"
    /\ UNCHANGED <<kind, record, params, old, found, asked, kept, history>>

\* Mutant: names are numbered in the order of the outputs.
KeepIndexByPosition(n) ==
    /\ pc = "put" /\ n \in todo
    /\ \E e \in old :
         /\ e.name = n
         /\ kept' = kept \cup {[e EXCEPT !.index = Cardinality(kept) + 1]}
         /\ left' = left \ {e}
    /\ todo' = todo \ {n}
    /\ UNCHANGED <<kind, record, params, pc, old, found, asked, accounts, max, history>>

\* A name of the record keeps its index, and nothing is written.
KeepIndex(n) ==
    /\ pc = "put" /\ n \in todo
    /\ \E e \in old :
         /\ e.name = n
         /\ kept' = kept \cup {e}
         /\ left' = left \ {e}
    /\ todo' = todo \ {n}
    /\ UNCHANGED <<kind, record, params, pc, old, found, asked, accounts, max, history>>

\* Mutant: a number that was freed is given away again.
PutParametersInGap(n) ==
    /\ pc = "put" /\ n \in todo \ NamesIn(old)
    /\ LET e == [name |-> n,
                 index |-> Min({i \in 1..(max + 1) : \A f \in kept : f.index # i})]
       IN /\ params' = Put(params, e)
          /\ kept' = kept \cup {e}
    /\ max' = max + 1
    /\ todo' = todo \ {n}
    /\ UNCHANGED <<kind, record, pc, old, found, asked, accounts, left, history>>

\* A new name gets the next index and its parameters are written.
PutParameters(n) ==
    /\ pc = "put" /\ n \in todo \ NamesIn(old)
    /\ LET e == [name |-> n, index |-> max + 1]
       IN /\ params' = Put(params, e)
          /\ kept' = kept \cup {e}
    /\ max' = max + 1
    /\ todo' = todo \ {n}
    /\ UNCHANGED <<kind, record, pc, old, found, asked, accounts, left, history>>

AccountDone ==
    /\ pc = "put" /\ todo = {}
    /\ pc' = IF kind \in {"early", "remote"} THEN "delete" ELSE "accounts"
    /\ UNCHANGED <<kind, record, params, run, history>>

\* Leftovers are deleted while the record still holds them.
DeleteParameters(e) ==
    /\ pc = "delete" /\ e \in left
    /\ params' = Deleted(params, e)
    /\ left' = left \ {e}
    /\ torn' = torn \cup {e.name}
    /\ UNCHANGED <<kind, record, pc, old, found, asked, accounts, todo, max, kept, runs,
                   interrupted, restarted, quiet>>

DeletionDone ==
    /\ pc = "delete" /\ left = {}
    /\ pc' = "accounts"
    /\ UNCHANGED <<kind, record, params, run, history>>

\* Mutant: entries that are gone stay in the record.
SaveIndexMerged ==
    /\ pc = "accounts" /\ accounts = {}
    /\ record' = kept \cup record
    /\ left' = IF kind = "remote" THEN {e \in old : AccountOf(e.name) \notin asked} ELSE left
    /\ torn' = torn \cap NamesIn(kept)
    /\ pc' = "sweep"
    /\ UNCHANGED <<kind, params, old, found, asked, accounts, todo, max, kept, runs,
                   interrupted, restarted, quiet>>

\* The new list replaces the old one.  Deleted afterwards: what is left of a late list,
\* and in a remote one the entries of accounts the configuration no longer names.
SaveIndex ==
    /\ pc = "accounts" /\ accounts = {}
    /\ record' = kept
    /\ left' = IF kind = "remote" THEN {e \in old : AccountOf(e.name) \notin asked} ELSE left
    /\ torn' = torn \cap NamesIn(kept)
    /\ pc' = "sweep"
    /\ UNCHANGED <<kind, params, old, found, asked, accounts, todo, max, kept, runs,
                   interrupted, restarted, quiet>>

SweepParameters(e) ==
    /\ pc = "sweep" /\ e \in left
    /\ params' = Deleted(params, e)
    /\ left' = left \ {e}
    /\ UNCHANGED <<kind, record, pc, old, found, asked, accounts, todo, max, kept, history>>

RunOver ==
    /\ pc' = "idle"
    /\ old' = {} /\ found' = {} /\ asked' = {} /\ accounts' = {}
    /\ todo' = {} /\ max' = 0 /\ kept' = {} /\ left' = {}

SavingDone ==
    /\ pc = "sweep" /\ left = {}
    /\ RunOver
    /\ UNCHANGED <<kind, record, params, history>>

\* A call that fails, or the function's time limit.
SavingCutShort ==
    /\ pc # "idle"
    /\ RunOver
    /\ interrupted' = TRUE
    /\ UNCHANGED <<kind, record, params, runs, restarted, quiet, torn>>

Next ==
    \/ \E names \in SUBSET Names, wanted, present \in SUBSET Accounts :
         StartSaving(names, wanted, present)
    \/ \E a \in Accounts \cup {Here} : SkipAccount(a) \/ VisitAccount(a)
    \/ \E n \in Names : KeepIndex(n) \/ PutParameters(n)
    \/ AccountDone \/ DeletionDone \/ SaveIndex
    \/ \E e \in left : DeleteParameters(e) \/ SweepParameters(e)
    \/ SavingDone \/ SavingCutShort

Spec == Init /\ [][Next]_vars

-----------------------------------------------------------------------------
(* Properties *)

\* The record, the parameters and the locals have the shape the code gives them.
TypeOK ==
    /\ kind \in Kinds
    /\ record \subseteq Entries /\ params \subseteq Entries
    /\ pc \in {"idle", "accounts", "put", "delete", "sweep"}
    /\ old \subseteq Entries /\ kept \subseteq Entries /\ left \subseteq old
    /\ found \subseteq Names /\ todo \subseteq found
    /\ asked \subseteq Accounts /\ accounts \subseteq Accounts \cup {Here}
    /\ max \in Nat /\ runs \in Nat
    /\ {interrupted, restarted, quiet} \subseteq BOOLEAN
    /\ torn \subseteq Names

IndexUnique == \A e, f \in record : e.name = f.name <=> e.index = f.index

RecordedIsPublished == \A e \in record : e.name \notin torn => e \in params

\* Two recorded resources never share an index, and what stands under the index of a
\* recorded resource is that resource, whatever comes, goes and is cut short, and in the
\* middle of a run as well.  Exempt is a resource whose parameters were deleted by a run
\* that did not come to save the record, and a remote list whose numbering restarted.
NumbersSound == ~ restarted => IndexUnique /\ RecordedIsPublished

\* A resource keeps its index from run to run.
IndexStable ==
    [][\A e \in record, f \in record' : e.name = f.name => e = f]_vars

\* Between runs none of which was cut short, nothing is published but what is recorded:
\* not for firewalls, and in a remote list not for an account that was passed over.
NothingLeftBehind ==
    (pc = "idle" /\ ~ interrupted /\ ~ restarted /\ ~ quiet /\ kind # "firewall") =>
        params = record

\* The same promise as the documentation makes it for load balancers of all accounts.
AllElbsPublished == (pc = "idle" /\ ~ interrupted) => record \subseteq params

=============================================================================
