-------------------------- MODULE OutputIndexProofs --------------------------
(***************************************************************************)
(* Proofs about OutputIndex: type correctness, that numbers are unique and *)
(* lead to the resource they were given to, and that a resource keeps its  *)
(* number, for any resources, accounts and number of runs.                 *)
(***************************************************************************)
EXTENDS OutputIndex, WellFoundedInduction, TLAPS

(***************************************************************************)
(* The inductive invariant.  The first part is about names and holds in    *)
(* every list; the second is about numbers and holds until the numbering   *)
(* of a remote list restarts.                                              *)
(***************************************************************************)

NamesDiffer(list) == \A e, f \in list : e.name = f.name => e = f
NumbersDiffer(list) == \A e, f \in list : e.index = f.index => e = f
Bounded(list) == \E n \in Nat : \A e \in list : e.index <= n

Numbering == pc \in {"accounts", "put", "delete"}

\* The record is the old list until it becomes the new one.
RecordIs ==
    /\ Numbering => record = old
    /\ pc = "sweep" => record = kept

\* What the run has kept, and what it has yet to do.
KeptNames ==
    /\ NamesDiffer(record) /\ NamesDiffer(old) /\ NamesDiffer(kept)
    /\ \A f \in kept : /\ f.name \in found \ todo
                       /\ AccountOf(f.name) \notin accounts
                       /\ f \in old \/ f.name \notin NamesIn(old)
    /\ \A n \in todo : AccountOf(n) \notin accounts
    /\ pc # "put" => todo = {}
    /\ kind = "remote" => \A n \in found : AccountOf(n) \in asked
    /\ left \cap kept = {}

NumbersBounded == Bounded(record) /\ Bounded(kept)

NamesInv == TypeOK /\ RecordIs /\ KeptNames /\ NumbersBounded

\* New numbers are higher than any of the old list, and max is as high as any in use.
NewNumbers ==
    /\ NumbersDiffer(old) /\ NumbersDiffer(kept)
    /\ \A f \in kept : f \in old \/ \A e \in old : e.index < f.index
    /\ Numbering => \A e \in old \cup kept : e.index <= max

KeptIsPublished == \A f \in kept : f.name \notin torn => f \in params

NumbersInv ==
    ~ restarted => /\ NumbersDiffer(record)
                   /\ RecordedIsPublished
                   /\ NewNumbers
                   /\ KeptIsPublished

\* Entries the run has set aside, and whose accounts it has gone through.
LeftNames ==
    /\ Numbering => \A e \in left : AccountOf(e.name) \notin accounts
    /\ pc = "put" => \A e \in old : e.name \in todo => e \in left
    /\ pc = "accounts" /\ (kind \in {"early", "remote"} \/ accounts # {}) => left = {}
    /\ kind # "remote" => accounts \subseteq {Here}

\* Entries of accounts the run has not come to, and of accounts it need not come to.
Ahead == {e \in old : AccountOf(e.name) \in accounts}
Unasked == {e \in old : kind = "remote" /\ AccountOf(e.name) \notin asked}

Undisturbed == ~ interrupted /\ ~ restarted /\ ~ quiet /\ kind # "firewall"

\* What is published is what is kept, and what the run has yet to delete or to look at.
PublishedInv ==
    Undisturbed =>
        /\ pc = "idle" => params = record
        /\ Numbering => /\ kept \cup left \cup Ahead \subseteq params
                        /\ params \subseteq kept \cup left \cup Ahead \cup Unasked
        /\ pc = "sweep" => kept \subseteq params /\ params \subseteq kept \cup left

IInv == NamesInv /\ NumbersInv /\ LeftNames /\ PublishedInv

-----------------------------------------------------------------------------
(* The highest number of a list *)

\* A set of numbers with a bound has a highest element: the one that is least below it.
LEMMA HighestExists ==
    ASSUME NEW S \in SUBSET Nat, S # {},
           NEW n \in Nat, \A s \in S : s <= n
    PROVE  \E x \in S : \A y \in S : x >= y
<1> DEFINE Below == {n - s : s \in S}
<1>1. Below \subseteq Nat /\ Below # {}
  <2>1. \A s \in S : n - s \in Nat /\ n - s \in Below
    OBVIOUS
  <2> QED BY <2>1
<1>2. PICK d \in Below : \A c \in Below : ~ (<<c, d>> \in OpToRel(<, Nat))
  BY <1>1, NatLessThanWellFounded, WFMin, Zenon
<1>3. \A c \in Below : ~ (c < d)
  BY <1>1, <1>2 DEF OpToRel
<1>4. PICK x \in S : d = n - x
  OBVIOUS
<1>5. \A y \in S : x >= y
  BY <1>3, <1>4
<1> QED BY <1>5

LEMMA MaxIndexProperties ==
    ASSUME NEW l \in SUBSET Entries, Bounded(l)
    PROVE  /\ MaxIndex(l) \in Nat
           /\ \A e \in l : e.index <= MaxIndex(l)
<1> DEFINE S == {e.index : e \in l} \cup {0}
<1>1. PICK n \in Nat : \A e \in l : e.index <= n
  BY DEF Bounded
<1>2. S \in SUBSET Nat /\ S # {} /\ \A s \in S : s <= n
  BY <1>1 DEF Entries
<1>3. \E x \in S : \A y \in S : x >= y
  <2> HIDE DEF S
  <2> QED BY <1>2, HighestExists
<1>4. Max(S) \in S /\ \A y \in S : Max(S) >= y
  BY <1>3 DEF Max
<1> QED BY <1>2, <1>4 DEF MaxIndex

-----------------------------------------------------------------------------
(* The names *)

LEMMA NamesInit == Init => NamesInv
<1> SUFFICES ASSUME Init
             PROVE  NamesInv
  OBVIOUS
<1>1. TypeOK
  BY OutputAssumption DEF Init, TypeOK, Kinds, Entries
<1>2. RecordIs /\ KeptNames
  BY DEF Init, RecordIs, KeptNames, Numbering, NamesDiffer
<1>3. Bounded({})
  BY DEF Bounded
<1>4. NumbersBounded
  BY <1>3 DEF Init, NumbersBounded
<1> QED BY <1>1, <1>2, <1>4 DEF NamesInv

LEMMA NamesNext ==
    ASSUME NamesInv, [Next]_vars
    PROVE  NamesInv'
<1> USE DEF NamesInv
<1> USE OutputAssumption
<1>1. ASSUME NEW names \in SUBSET Names, NEW wanted \in SUBSET Accounts,
             NEW present \in SUBSET Accounts, StartSaving(names, wanted, present)
      PROVE  NamesInv'
  <2>1. MaxIndex(record) \in Nat
    BY MaxIndexProperties DEF TypeOK, NumbersBounded
  <2>2. TypeOK'
    <3>1. {interrupted, restarted, quiet}' \subseteq BOOLEAN
      <4>1. quiet' \in BOOLEAN /\ interrupted' = interrupted /\ restarted' = restarted
        BY <1>1, Zenon DEF StartSaving, TypeOK
      <4> QED BY <4>1 DEF TypeOK
    <3>2. accounts' \subseteq Accounts \cup {Here}
      BY <1>1 DEF StartSaving
    <3>3. todo' = {}
      BY <1>1 DEF StartSaving, KeptNames
    <3> QED BY <1>1, <2>1, <3>1, <3>2, <3>3 DEF TypeOK, StartSaving
  <2>3. RecordIs' /\ KeptNames'
    <3>1. kind' = "remote" => \A n \in found' : AccountOf(n)' \in asked'
      BY <1>1 DEF StartSaving, AccountOf
    <3>2. kept' = {} /\ todo' = todo /\ todo = {} /\ left' = {}
      BY <1>1 DEF StartSaving, KeptNames
    <3> QED BY <1>1, <3>1, <3>2 DEF StartSaving, RecordIs, KeptNames, NamesDiffer, Numbering
  <2>4. NumbersBounded'
    BY <1>1 DEF StartSaving, NumbersBounded, Bounded
  <2> QED BY <2>2, <2>3, <2>4
<1>2. ASSUME NEW a \in Accounts \cup {Here}, SkipAccount(a)
      PROVE  NamesInv'
  <2>1. TypeOK'
    BY <1>2 DEF TypeOK, SkipAccount
  <2>2. RecordIs' /\ KeptNames'
    BY <1>2 DEF SkipAccount, RecordIs, KeptNames, NamesDiffer, Numbering, AccountOf
  <2>3. NumbersBounded'
    BY <1>2 DEF SkipAccount, NumbersBounded, Bounded
  <2> QED BY <2>1, <2>2, <2>3
<1>3. ASSUME NEW a \in Accounts \cup {Here}, VisitAccount(a)
      PROVE  NamesInv'
  <2>1. EntriesOf(old, a) \subseteq old /\ old \subseteq Entries
    BY DEF EntriesOf, TypeOK
  <2>2. MaxIndex(EntriesOf(old, a)) \in Nat
    <3>1. Bounded(EntriesOf(old, a))
      BY <1>3, <2>1 DEF VisitAccount, NumbersBounded, RecordIs, Numbering, Bounded
    <3> QED BY <2>1, <3>1, MaxIndexProperties
  <2>3. TypeOK'
    BY <1>3, <2>1, <2>2 DEF TypeOK, VisitAccount, history
  <2>4. left' \cap kept' = {}
    BY <1>3 DEF VisitAccount, KeptNames, EntriesOf
  <2>5. RecordIs' /\ KeptNames'
    BY <1>3, <2>4 DEF VisitAccount, RecordIs, KeptNames, NamesDiffer, Numbering, AccountOf
  <2>6. NumbersBounded'
    BY <1>3 DEF VisitAccount, NumbersBounded, Bounded
  <2> QED BY <2>3, <2>5, <2>6
<1>4. ASSUME NEW n \in Names, KeepIndex(n)
      PROVE  NamesInv'
  <2>1. PICK e \in old : e.name = n /\ kept' = kept \cup {e} /\ left' = left \ {e}
    BY <1>4 DEF KeepIndex
  <2>2. TypeOK'
    BY <1>4, <2>1 DEF TypeOK, KeepIndex, history
  <2>3. RecordIs'
    BY <1>4 DEF KeepIndex, RecordIs, Numbering
  <2>4. KeptNames'
    BY <1>4, <2>1 DEF KeepIndex, KeptNames, NamesDiffer, AccountOf, TypeOK, NamesIn
  <2>5. NumbersBounded'
    <3>1. Bounded(kept')
      <4>1. PICK m \in Nat : \A f \in kept : f.index <= m
        BY DEF NumbersBounded, Bounded
      <4>2. e.index \in Nat /\ \A f \in kept : f.index \in Nat
        BY <2>1 DEF TypeOK, Entries
      <4>3. \A f \in kept' : f.index <= m + e.index
        BY <2>1, <4>1, <4>2
      <4> QED BY <4>2, <4>3 DEF Bounded
    <3> QED BY <1>4, <3>1 DEF KeepIndex, NumbersBounded, Bounded
  <2> QED BY <2>2, <2>3, <2>4, <2>5
<1>5. ASSUME NEW n \in Names, PutParameters(n)
      PROVE  NamesInv'
  <2> DEFINE e == [name |-> n, index |-> max + 1]
  <2>1. /\ e \in Entries /\ e.name = n /\ e.index = max + 1
        /\ kept' = kept \cup {e} /\ params' = Put(params, e)
    BY <1>5 DEF PutParameters, TypeOK, Entries
  <2> HIDE DEF e
  <2>2. TypeOK'
    BY <1>5, <2>1 DEF TypeOK, PutParameters, Put, history
  <2>3. RecordIs'
    BY <1>5 DEF PutParameters, RecordIs, Numbering
  <2>4. KeptNames'
    BY <1>5, <2>1 DEF PutParameters, KeptNames, NamesDiffer, AccountOf, TypeOK, NamesIn
  <2>5. NumbersBounded'
    <3>1. Bounded(kept')
      <4>1. PICK m \in Nat : \A f \in kept : f.index <= m
        BY DEF NumbersBounded, Bounded
      <4>2. e.index \in Nat /\ \A f \in kept : f.index \in Nat
        BY <2>1 DEF TypeOK, Entries
      <4>3. \A f \in kept' : f.index <= m + e.index
        BY <2>1, <4>1, <4>2
      <4> QED BY <4>2, <4>3 DEF Bounded
    <3> QED BY <1>5, <3>1 DEF PutParameters, NumbersBounded, Bounded
  <2> QED BY <2>2, <2>3, <2>4, <2>5
<1>6. ASSUME NEW e \in left, DeleteParameters(e)
      PROVE  NamesInv'
  <2>1. TypeOK'
    BY <1>6 DEF TypeOK, DeleteParameters, Deleted, Entries
  <2>2. RecordIs' /\ KeptNames'
    BY <1>6 DEF DeleteParameters, RecordIs, KeptNames, NamesDiffer, Numbering, AccountOf
  <2>3. NumbersBounded'
    BY <1>6 DEF DeleteParameters, NumbersBounded, Bounded
  <2> QED BY <2>1, <2>2, <2>3
<1>7. CASE SaveIndex
  <2>1. TypeOK'
    BY <1>7 DEF TypeOK, SaveIndex
  <2>2. left' \cap kept' = {}
    BY <1>7 DEF SaveIndex, KeptNames, TypeOK
  <2>3. RecordIs' /\ KeptNames'
    BY <1>7, <2>2 DEF SaveIndex, RecordIs, KeptNames, NamesDiffer, Numbering, AccountOf
  <2>4. NumbersBounded'
    BY <1>7 DEF SaveIndex, NumbersBounded, Bounded
  <2> QED BY <2>1, <2>3, <2>4
<1>8. ASSUME NEW e \in left, SweepParameters(e)
      PROVE  NamesInv'
  <2>1. TypeOK'
    BY <1>8 DEF TypeOK, SweepParameters, Deleted, history
  <2>2. RecordIs' /\ KeptNames'
    BY <1>8 DEF SweepParameters, RecordIs, KeptNames, NamesDiffer, Numbering, AccountOf
  <2>3. NumbersBounded'
    BY <1>8 DEF SweepParameters, NumbersBounded, Bounded
  <2> QED BY <2>1, <2>2, <2>3
<1>9. CASE AccountDone \/ DeletionDone
  <2>1. TypeOK'
    <3>1. pc' \in {"accounts", "delete"}
      BY <1>9 DEF AccountDone, DeletionDone
    <3>2. UNCHANGED <<kind, record, params, run, history>>
      BY <1>9 DEF AccountDone, DeletionDone
    <3>3. {interrupted, restarted, quiet}' \subseteq BOOLEAN
      BY <3>2, Zenon DEF TypeOK, history
    <3> QED BY <3>1, <3>2, <3>3 DEF TypeOK, run, history
  <2>2. RecordIs' /\ KeptNames'
    BY <1>9 DEF AccountDone, DeletionDone, run, history, RecordIs, KeptNames, NamesDiffer,
                Numbering, AccountOf
  <2>3. NumbersBounded'
    BY <1>9 DEF AccountDone, DeletionDone, run, NumbersBounded, Bounded
  <2> QED BY <2>1, <2>2, <2>3
<1>10. CASE SavingDone \/ SavingCutShort
  <2>1. TypeOK'
    <3>1. {interrupted, restarted, quiet}' \subseteq BOOLEAN
      <4>1. /\ interrupted' \in {interrupted, TRUE}
            /\ restarted' = restarted /\ quiet' = quiet
        BY <1>10 DEF SavingDone, SavingCutShort, history
      <4> QED BY <4>1, Zenon DEF TypeOK
    <3>2. RunOver /\ UNCHANGED <<kind, record, params, runs, torn>>
      BY <1>10 DEF SavingDone, SavingCutShort, history
    <3> QED BY <3>1, <3>2 DEF TypeOK, RunOver
  <2>2. RecordIs' /\ KeptNames'
    BY <1>10 DEF SavingDone, SavingCutShort, RunOver, RecordIs, KeptNames, NamesDiffer,
                 Numbering
  <2>3. NumbersBounded'
    BY <1>10 DEF SavingDone, SavingCutShort, RunOver, NumbersBounded, Bounded
  <2> QED BY <2>1, <2>2, <2>3
<1>11. CASE UNCHANGED vars
  <2>1. TypeOK'
    BY <1>11 DEF TypeOK, vars, run, history
  <2>2. RecordIs' /\ KeptNames' /\ NumbersBounded'
    BY <1>11 DEF vars, run, history, RecordIs, KeptNames, NamesDiffer, Numbering, AccountOf,
                 NumbersBounded, Bounded
  <2> QED BY <2>1, <2>2
<1> QED
  BY <1>1, <1>2, <1>3, <1>4, <1>5, <1>6, <1>7, <1>8, <1>9, <1>10, <1>11 DEF Next

-----------------------------------------------------------------------------
(* The numbers *)

LEMMA NumbersInit == Init => NumbersInv
BY DEF Init, NumbersInv, NumbersDiffer, NewNumbers, RecordedIsPublished, KeptIsPublished,
       Numbering

\* An element of one list never stands under the number of another element of it or of
\* the other list.
LEMMA NumbersApart ==
    ASSUME NamesInv, NewNumbers, NEW e \in old, NEW f \in kept, e.index = f.index
    PROVE  e = f
<1>1. e.index \in Nat /\ f.index \in Nat
  BY DEF NamesInv, TypeOK, Entries
<1>2. f \in old
  BY <1>1 DEF NewNumbers
<1> QED BY <1>2 DEF NewNumbers, NumbersDiffer

LEMMA NumbersNext ==
    ASSUME NamesInv, NumbersInv, [Next]_vars
    PROVE  NumbersInv'
<1> SUFFICES ASSUME ~ restarted'
             PROVE  (/\ NumbersDiffer(record)
                     /\ RecordedIsPublished
                     /\ NewNumbers
                     /\ KeptIsPublished)'
  BY DEF NumbersInv
<1>a. ~ restarted
  BY DEF Next, vars, run, history, StartSaving, SkipAccount, VisitAccount, KeepIndex,
         PutParameters, AccountDone, DeletionDone, SaveIndex, DeleteParameters,
         SweepParameters, SavingDone, SavingCutShort
<1>b. NumbersDiffer(record) /\ RecordedIsPublished /\ NewNumbers /\ KeptIsPublished
  BY <1>a DEF NumbersInv
<1>c. TypeOK /\ RecordIs /\ KeptNames /\ NumbersBounded
  BY DEF NamesInv
<1>d. /\ \A e \in record \cup old \cup kept \cup left : e.index \in Nat
      /\ max \in Nat
  BY <1>c DEF TypeOK, Entries
<1>1. ASSUME NEW names \in SUBSET Names, NEW wanted \in SUBSET Accounts,
             NEW present \in SUBSET Accounts, StartSaving(names, wanted, present)
      PROVE  (NumbersDiffer(record) /\ RecordedIsPublished /\ NewNumbers /\ KeptIsPublished)'
  <2>1. \A e \in record : e.index <= MaxIndex(record)
    BY <1>c, MaxIndexProperties DEF TypeOK, NumbersBounded
  <2>2. /\ record' = record /\ params' = params /\ torn' = torn
        /\ old' = record /\ kept' = {} /\ max' = MaxIndex(record) /\ pc' = "accounts"
    BY <1>1 DEF StartSaving
  <2> QED BY <1>b, <2>1, <2>2 DEF NumbersDiffer, RecordedIsPublished, NewNumbers,
             KeptIsPublished, Numbering
<1>2. ASSUME NEW a \in Accounts \cup {Here}, SkipAccount(a)
      PROVE  (NumbersDiffer(record) /\ RecordedIsPublished /\ NewNumbers /\ KeptIsPublished)'
  <2>1. max' = max
    <3>1. max' = 0 /\ ~ (max > 0)
      BY <1>2, Zenon DEF SkipAccount
    <3> QED BY <3>1, <1>d
  <2>2. UNCHANGED <<record, params, pc, old, kept, torn>>
    BY <1>2 DEF SkipAccount
  <2> QED BY <1>b, <2>1, <2>2 DEF NumbersDiffer, RecordedIsPublished, NewNumbers,
             KeptIsPublished, Numbering
<1>3. ASSUME NEW a \in Accounts \cup {Here}, VisitAccount(a)
      PROVE  (NumbersDiffer(record) /\ RecordedIsPublished /\ NewNumbers /\ KeptIsPublished)'
  <2>1. UNCHANGED <<record, params, old, kept, torn>> /\ Numbering
    BY <1>3 DEF VisitAccount, history, Numbering
  <2>2. max <= max'
    <3>1. EntriesOf(old, a) \subseteq Entries /\ Bounded(EntriesOf(old, a))
      BY <1>c, <2>1 DEF EntriesOf, TypeOK, NumbersBounded, RecordIs, Bounded
    <3>2. MaxIndex(EntriesOf(old, a)) \in Nat
      BY <3>1, MaxIndexProperties
    <3> QED BY <1>3, <1>d, <3>2 DEF VisitAccount
  <2>3. max' \in Nat
    BY <1>3, NamesNext DEF Next, NamesInv, TypeOK
  <2>4. \A e \in old \cup kept : e.index <= max'
    BY <1>b, <1>d, <2>1, <2>2, <2>3 DEF NewNumbers
  <2> QED BY <1>b, <2>1, <2>4 DEF NumbersDiffer, RecordedIsPublished, NewNumbers,
             KeptIsPublished, Numbering
<1>4. ASSUME NEW n \in Names, KeepIndex(n)
      PROVE  (NumbersDiffer(record) /\ RecordedIsPublished /\ NewNumbers /\ KeptIsPublished)'
  <2>1. PICK e \in old : e.name = n /\ kept' = kept \cup {e}
    BY <1>4 DEF KeepIndex
  <2>2. UNCHANGED <<record, params, pc, old, max, torn>> /\ Numbering
    BY <1>4 DEF KeepIndex, history, Numbering
  <2>3. NumbersDiffer(kept')
    BY <1>b, <2>1, NumbersApart DEF NumbersDiffer, NewNumbers
  <2>4. e.name \notin torn => e \in params
    BY <1>b, <1>c, <2>1, <2>2 DEF RecordIs, RecordedIsPublished
  <2> QED BY <1>b, <2>1, <2>2, <2>3, <2>4 DEF NumbersDiffer, RecordedIsPublished, NewNumbers,
             KeptIsPublished, Numbering
<1>5. ASSUME NEW n \in Names, PutParameters(n)
      PROVE  (NumbersDiffer(record) /\ RecordedIsPublished /\ NewNumbers /\ KeptIsPublished)'
  <2> DEFINE e == [name |-> n, index |-> max + 1]
  <2>1. /\ e.index = max + 1 /\ max' = max + 1
        /\ kept' = kept \cup {e} /\ params' = Put(params, e)
    BY <1>5 DEF PutParameters
  <2> HIDE DEF e
  <2>2. UNCHANGED <<record, pc, old, torn>> /\ Numbering /\ record = old
    BY <1>5, <1>c DEF PutParameters, history, Numbering, RecordIs
  <2>3. \A f \in old \cup kept : f.index < e.index /\ f.index <= max'
    BY <1>b, <1>d, <2>1, <2>2 DEF NewNumbers
  <2>4. NumbersDiffer(kept')
    BY <1>b, <1>d, <2>1, <2>3 DEF NumbersDiffer, NewNumbers
  <2>5. \A f \in old \cup kept : f \in params => f \in params'
    BY <1>d, <2>1, <2>3 DEF Put
  <2>6. e \in params'
    BY <2>1 DEF Put
  <2>7. NewNumbers'
    BY <1>b, <1>d, <2>1, <2>2, <2>3, <2>4 DEF NewNumbers, Numbering
  <2> QED BY <1>b, <2>1, <2>2, <2>5, <2>6, <2>7 DEF NumbersDiffer, RecordedIsPublished,
             KeptIsPublished
<1>6. ASSUME NEW e \in left, DeleteParameters(e)
      PROVE  (NumbersDiffer(record) /\ RecordedIsPublished /\ NewNumbers /\ KeptIsPublished)'
  <2>1. /\ UNCHANGED <<record, pc, old, max, kept>> /\ record = old
        /\ params' = Deleted(params, e) /\ torn' = torn \cup {e.name}
    BY <1>6, <1>c DEF DeleteParameters, Numbering, RecordIs
  <2>2. e \in old /\ e \notin kept
    BY <1>c DEF TypeOK, KeptNames
  <2>3. \A f \in old \cup kept : f # e => f.index # e.index
    BY <1>b, <2>2, NumbersApart DEF NewNumbers, NumbersDiffer
  <2>4. \A f \in old \cup kept : f # e /\ f \in params => f \in params'
    BY <2>1, <2>3 DEF Deleted
  <2> QED BY <1>b, <2>1, <2>2, <2>4 DEF NumbersDiffer, RecordedIsPublished, NewNumbers,
             KeptIsPublished, Numbering
<1>7. CASE SaveIndex
  <2>1. /\ UNCHANGED <<params, old, kept>> /\ record' = kept /\ pc' = "sweep"
        /\ torn' = torn \cap NamesIn(kept)
    BY <1>7 DEF SaveIndex
  <2>2. \A f \in kept : f.name \notin torn' => f.name \notin torn
    BY <2>1 DEF NamesIn
  <2> QED BY <1>b, <2>1, <2>2 DEF NumbersDiffer, RecordedIsPublished, NewNumbers,
             KeptIsPublished, Numbering
<1>8. ASSUME NEW e \in left, SweepParameters(e)
      PROVE  (NumbersDiffer(record) /\ RecordedIsPublished /\ NewNumbers /\ KeptIsPublished)'
  <2>1. /\ UNCHANGED <<record, pc, old, max, kept, torn>> /\ record = kept
        /\ params' = Deleted(params, e)
    BY <1>8, <1>c DEF SweepParameters, RecordIs, history
  <2>2. e \in old /\ e \notin kept
    BY <1>c DEF TypeOK, KeptNames
  <2>3. \A f \in kept : f.index # e.index
    BY <1>b, <2>2, NumbersApart
  <2>4. \A f \in kept : f \in params => f \in params'
    BY <2>1, <2>3 DEF Deleted
  <2> QED BY <1>b, <2>1, <2>4 DEF NumbersDiffer, RecordedIsPublished, NewNumbers,
             KeptIsPublished, Numbering
<1>9. CASE AccountDone \/ DeletionDone
  <2>1. UNCHANGED <<record, params, old, kept, max, torn>> /\ Numbering
    BY <1>9 DEF AccountDone, DeletionDone, run, history, Numbering
  <2> QED BY <1>b, <2>1 DEF NumbersDiffer, RecordedIsPublished, NewNumbers,
             KeptIsPublished, Numbering
<1>10. CASE SavingDone \/ SavingCutShort
  <2>1. /\ UNCHANGED <<record, params, torn>> /\ old' = {} /\ kept' = {} /\ pc' = "idle"
    BY <1>10 DEF SavingDone, SavingCutShort, RunOver, history
  <2> QED BY <1>b, <2>1 DEF NumbersDiffer, RecordedIsPublished, NewNumbers,
             KeptIsPublished, Numbering
<1>11. CASE UNCHANGED vars
  BY <1>11, <1>b DEF vars, run, history, NumbersDiffer, RecordedIsPublished, NewNumbers,
                     KeptIsPublished, Numbering
<1> QED
  BY <1>1, <1>2, <1>3, <1>4, <1>5, <1>6, <1>7, <1>8, <1>9, <1>10, <1>11 DEF Next

-----------------------------------------------------------------------------
(* What is left behind *)

LEMMA LeftInit == Init => LeftNames /\ PublishedInv
BY DEF Init, LeftNames, PublishedInv, Numbering

LEMMA LeftNext ==
    ASSUME NamesInv, LeftNames, [Next]_vars
    PROVE  LeftNames'
<1> USE DEF LeftNames, Numbering, AccountOf
<1>1. ASSUME NEW names \in SUBSET Names, NEW wanted \in SUBSET Accounts,
             NEW present \in SUBSET Accounts, StartSaving(names, wanted, present)
      PROVE  LeftNames'
  BY <1>1 DEF StartSaving
<1>2. ASSUME NEW a \in Accounts \cup {Here}, SkipAccount(a)
      PROVE  LeftNames'
  BY <1>2 DEF SkipAccount
<1>3. ASSUME NEW a \in Accounts \cup {Here}, VisitAccount(a)
      PROVE  LeftNames'
  BY <1>3 DEF VisitAccount, EntriesOf
<1>4. ASSUME NEW n \in Names, KeepIndex(n)
      PROVE  LeftNames'
  BY <1>4 DEF KeepIndex
<1>5. ASSUME NEW n \in Names, PutParameters(n)
      PROVE  LeftNames'
  BY <1>5 DEF PutParameters
<1>6. ASSUME NEW e \in left, DeleteParameters(e)
      PROVE  LeftNames'
  BY <1>6 DEF DeleteParameters
<1>7. CASE SaveIndex
  BY <1>7 DEF SaveIndex
<1>8. ASSUME NEW e \in left, SweepParameters(e)
      PROVE  LeftNames'
  BY <1>8 DEF SweepParameters
<1>9. CASE AccountDone
  <2>1. accounts # {} => kind = "remote" \/ left = {} \/ accounts = {Here}
    BY <1>9
  <2> QED BY <1>9, <2>1 DEF AccountDone, run
<1>10. CASE DeletionDone
  BY <1>10 DEF DeletionDone, run
<1>11. CASE SavingDone \/ SavingCutShort
  BY <1>11 DEF SavingDone, SavingCutShort, RunOver
<1>12. CASE UNCHANGED vars
  BY <1>12 DEF vars, run
<1> QED
  BY <1>1, <1>2, <1>3, <1>4, <1>5, <1>6, <1>7, <1>8, <1>9, <1>10, <1>11, <1>12 DEF Next

\* Until the run is cut short or disturbed, what an account did to the parameters.
LEMMA PublishedNext ==
    ASSUME NamesInv, NumbersInv, LeftNames, PublishedInv, [Next]_vars
    PROVE  PublishedInv'
<1> SUFFICES ASSUME Undisturbed'
             PROVE  (/\ pc = "idle" => params = record
                     /\ Numbering => /\ kept \cup left \cup Ahead \subseteq params
                                     /\ params \subseteq kept \cup left \cup Ahead \cup Unasked
                     /\ pc = "sweep" => kept \subseteq params /\ params \subseteq kept \cup left)'
  BY DEF PublishedInv
<1>a. Undisturbed
  <2>1. kind' = kind
    BY DEF Next, vars, run, history, StartSaving, SkipAccount, VisitAccount,
           KeepIndex, PutParameters, AccountDone, DeletionDone, SaveIndex, DeleteParameters,
           SweepParameters, SavingDone, SavingCutShort
  <2>2. interrupted => interrupted'
    BY DEF Next, vars, run, history, StartSaving, SkipAccount, VisitAccount,
           KeepIndex, PutParameters, AccountDone, DeletionDone, SaveIndex, DeleteParameters,
           SweepParameters, SavingDone, SavingCutShort
  <2>3. restarted => restarted'
    BY DEF Next, vars, run, history, StartSaving, SkipAccount, VisitAccount,
           KeepIndex, PutParameters, AccountDone, DeletionDone, SaveIndex, DeleteParameters,
           SweepParameters, SavingDone, SavingCutShort
  <2>4. quiet => quiet'
    BY DEF Next, vars, run, history, StartSaving, SkipAccount, VisitAccount,
           KeepIndex, PutParameters, AccountDone, DeletionDone, SaveIndex, DeleteParameters,
           SweepParameters, SavingDone, SavingCutShort
  <2> QED BY <2>1, <2>2, <2>3, <2>4 DEF Undisturbed
<1>b. /\ pc = "idle" => params = record
      /\ Numbering => /\ kept \cup left \cup Ahead \subseteq params
                      /\ params \subseteq kept \cup left \cup Ahead \cup Unasked
      /\ pc = "sweep" => kept \subseteq params /\ params \subseteq kept \cup left
  BY <1>a DEF PublishedInv
<1>c. NewNumbers /\ RecordIs /\ KeptNames /\ TypeOK
  BY <1>a DEF Undisturbed, NamesInv, NumbersInv
<1>d. /\ \A e \in old \cup kept \cup left : e.index \in Nat
      /\ max \in Nat
  BY <1>c DEF TypeOK, Entries
<1> USE DEF Numbering, Ahead, Unasked, AccountOf
<1>1. ASSUME NEW names \in SUBSET Names, NEW wanted \in SUBSET Accounts,
             NEW present \in SUBSET Accounts, StartSaving(names, wanted, present)
      PROVE  PublishedInv'
  <2>1. \A a \in wanted \ present : EntriesOf(record, a) = {}
    BY <1>1, Zenon DEF StartSaving, Undisturbed
  <2>2. /\ params = record /\ params' = params /\ old' = record /\ kept' = {} /\ left' = {}
        /\ pc' = "accounts" /\ kind' = kind /\ asked' = wanted
        /\ accounts' = IF kind = "remote" THEN present ELSE {Here}
    BY <1>1, <1>b DEF StartSaving
  <2>3. \A e \in record : kind = "remote" =>
            (Account[e.name] \in present \/ Account[e.name] \notin wanted)
    BY <2>1 DEF EntriesOf
  <2> QED BY <2>2, <2>3 DEF PublishedInv
<1>2. ASSUME NEW a \in Accounts \cup {Here}, SkipAccount(a)
      PROVE  PublishedInv'
  <2>1. \A e \in old : AccountOf(e.name) # a
    BY <1>2 DEF SkipAccount, EntriesOf
  <2> QED BY <1>2, <1>b, <2>1 DEF PublishedInv, SkipAccount
<1>3. ASSUME NEW a \in Accounts \cup {Here}, VisitAccount(a)
      PROVE  PublishedInv'
  <2>1. left = {} /\ a \in accounts
    BY <1>3 DEF VisitAccount, LeftNames
  <2>2. /\ left' = {e \in old : AccountOf(e.name) = a} /\ accounts' = accounts \ {a}
        /\ UNCHANGED <<kind, params, old, asked, kept>> /\ pc = "accounts" /\ pc' = "put"
    BY <1>3 DEF VisitAccount, EntriesOf
  <2> QED BY <1>b, <2>1, <2>2 DEF PublishedInv
<1>4. ASSUME NEW n \in Names, KeepIndex(n)
      PROVE  PublishedInv'
  <2>1. PICK e \in old : e.name = n /\ kept' = kept \cup {e} /\ left' = left \ {e}
    BY <1>4 DEF KeepIndex
  <2>2. /\ UNCHANGED <<kind, params, old, asked, accounts>> /\ pc = "put" /\ pc' = "put"
        /\ n \in todo
    BY <1>4 DEF KeepIndex
  <2>3. e \in left
    BY <2>1, <2>2 DEF LeftNames
  <2> QED BY <1>b, <2>1, <2>2, <2>3 DEF PublishedInv
<1>5. ASSUME NEW n \in Names, PutParameters(n)
      PROVE  PublishedInv'
  <2> DEFINE e == [name |-> n, index |-> max + 1]
  <2>1. /\ e.index = max + 1
        /\ kept' = kept \cup {e} /\ params' = Put(params, e)
        /\ UNCHANGED <<kind, old, asked, accounts, left>> /\ pc = "put" /\ pc' = "put"
    BY <1>5 DEF PutParameters
  <2> HIDE DEF e
  <2>2. \A f \in old \cup kept : f.index # e.index
    BY <1>c, <1>d, <2>1 DEF NewNumbers
  <2>3. \A f \in params : f \in old \cup kept
    BY <1>b, <1>c, <2>1 DEF TypeOK
  <2>4. params' = params \cup {e}
    BY <2>1, <2>2, <2>3 DEF Put
  <2> QED BY <1>b, <2>1, <2>4 DEF PublishedInv
<1>6. ASSUME NEW e \in left, DeleteParameters(e)
      PROVE  PublishedInv'
  <2>1. /\ UNCHANGED <<kind, old, asked, accounts, kept>> /\ pc = "delete" /\ pc' = "delete"
        /\ left' = left \ {e} /\ params' = {p \in params : p.index # e.index}
    BY <1>6, <1>a DEF DeleteParameters, Deleted, Undisturbed
  <2>2. e \in old /\ e \notin kept /\ AccountOf(e.name) \notin accounts
    BY <1>c, <2>1 DEF TypeOK, KeptNames, LeftNames
  <2>3. \A f \in old \cup kept : f # e => f.index # e.index
    BY <1>c, <2>2, NumbersApart DEF NewNumbers, NumbersDiffer
  <2>4. params \subseteq old \cup kept /\ left \subseteq old
    BY <1>b, <1>c, <2>1 DEF TypeOK
  <2>5. params' = params \ {e}
    BY <2>1, <2>3, <2>4
  <2> QED BY <1>b, <2>1, <2>2, <2>4, <2>5 DEF PublishedInv
<1>7. CASE SaveIndex
  <2>1. /\ UNCHANGED <<kind, params, old, asked, kept>> /\ pc = "accounts" /\ pc' = "sweep"
        /\ accounts = {}
        /\ left' = IF kind = "remote" THEN {e \in old : AccountOf(e.name) \notin asked} ELSE left
    BY <1>7 DEF SaveIndex
  <2>2. kind = "remote" => left = {}
    BY <2>1 DEF LeftNames
  <2> QED BY <1>b, <2>1, <2>2 DEF PublishedInv
<1>8. ASSUME NEW e \in left, SweepParameters(e)
      PROVE  PublishedInv'
  <2>1. /\ UNCHANGED <<kind, old, kept>> /\ pc = "sweep" /\ pc' = "sweep"
        /\ left' = left \ {e} /\ params' = {p \in params : p.index # e.index}
    BY <1>8, <1>a DEF SweepParameters, Deleted, Undisturbed
  <2>2. e \in old /\ e \notin kept
    BY <1>c DEF TypeOK, KeptNames
  <2>3. \A f \in kept : f.index # e.index
    BY <1>c, <2>2, NumbersApart
  <2> QED BY <1>b, <2>1, <2>3 DEF PublishedInv
<1>9. CASE AccountDone \/ DeletionDone
  <2>1. /\ UNCHANGED <<kind, params, old, asked, accounts, kept, left>>
        /\ pc \in {"put", "delete"} /\ pc' \in {"accounts", "delete"}
    BY <1>9 DEF AccountDone, DeletionDone, run
  <2> QED BY <1>b, <2>1 DEF PublishedInv
<1>10. CASE SavingDone
  <2>1. /\ pc = "sweep" /\ left = {} /\ pc' = "idle" /\ UNCHANGED <<params, record>>
    BY <1>10 DEF SavingDone, RunOver
  <2>2. params = kept /\ record = kept
    BY <1>b, <1>c, <2>1 DEF RecordIs
  <2> QED BY <2>1, <2>2 DEF PublishedInv
<1>11. CASE SavingCutShort
  BY <1>11 DEF SavingCutShort, Undisturbed
<1>12. CASE UNCHANGED vars
  BY <1>12, <1>b DEF vars, run, PublishedInv
<1> QED
  BY <1>1, <1>2, <1>3, <1>4, <1>5, <1>6, <1>7, <1>8, <1>9, <1>10, <1>11, <1>12
  DEF Next, PublishedInv

-----------------------------------------------------------------------------
(* The theorems *)

LEMMA InductiveInvariant == Spec => []IInv
<1>1. Init => IInv
  BY NamesInit, NumbersInit, LeftInit DEF IInv
<1>2. IInv /\ [Next]_vars => IInv'
  BY NamesNext, NumbersNext, LeftNext, PublishedNext DEF IInv
<1> QED BY <1>1, <1>2, PTL DEF Spec

\* Every variable keeps its type, in lists of every kind.
THEOREM TypeCorrect == Spec => []TypeOK
<1>1. IInv => TypeOK
  BY DEF IInv, NamesInv
<1> QED BY <1>1, InductiveInvariant, PTL

\* Until the numbering of a remote list restarts, recorded resources have numbers of
\* their own, under which they are published, wherever runs are cut short.
THEOREM NumbersAreSound == Spec => []NumbersSound
<1>1. IInv => NumbersSound
  <2>1. SUFFICES ASSUME IInv, ~ restarted
                 PROVE  IndexUnique /\ RecordedIsPublished
    BY DEF NumbersSound
  <2>2. IndexUnique
    BY <2>1 DEF IInv, NamesInv, KeptNames, NumbersInv, NamesDiffer, NumbersDiffer, IndexUnique
  <2> QED BY <2>1, <2>2 DEF IInv, NumbersInv
<1> QED BY <1>1, InductiveInvariant, PTL

\* Between runs none of which was cut short, exactly what is recorded is published.
THEOREM NothingIsLeftBehind == Spec => []NothingLeftBehind
<1>1. IInv => NothingLeftBehind
  BY DEF IInv, PublishedInv, Undisturbed, NothingLeftBehind
<1> QED BY <1>1, InductiveInvariant, PTL

\* A resource keeps its number as long as it is recorded, in lists of every kind.
THEOREM NumbersAreStable == Spec => IndexStable
<1> DEFINE Same == \A e \in record, f \in record' : e.name = f.name => e = f
<1>1. IInv /\ [Next]_vars => [Same]_vars
  <2>1. SUFFICES ASSUME IInv, [Next]_vars
                 PROVE  Same
    OBVIOUS
  <2>2. KeptNames /\ RecordIs
    BY <2>1 DEF IInv, NamesInv
  <2>3. CASE SaveIndex
    <3>1. record' = kept /\ record = old
      BY <2>2, <2>3 DEF SaveIndex, RecordIs, Numbering
    <3> QED BY <2>2, <3>1 DEF KeptNames, NamesDiffer, NamesIn
  <2>4. CASE ~ SaveIndex
    <3>1. record' = record
      BY <2>1, <2>4 DEF Next, vars, run, history, StartSaving, SkipAccount, VisitAccount,
             KeepIndex, PutParameters, AccountDone, DeletionDone, DeleteParameters,
             SweepParameters, SavingDone, SavingCutShort
    <3> QED BY <2>2, <3>1 DEF KeptNames, NamesDiffer
  <2> QED BY <2>3, <2>4
<1>2. Spec => [][Same]_vars
  BY <1>1, InductiveInvariant, PTL DEF Spec
<1> QED BY <1>2 DEF IndexStable

=============================================================================
