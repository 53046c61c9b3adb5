--------------------------- MODULE AlbTargetsProofs ---------------------------
(***************************************************************************)
(* Proofs about AlbTargets: types, and that AWS serves every record when   *)
(* both functions rest.  The inductive invariant has four parts.           *)
(*                                                                         *)
(* ChainInv   The events the handler has not finished and those it has not *)
(*            seen are one queue.  In it the events of an id follow each   *)
(*            other, and the last one leads to what the table holds.       *)
(* OwnerInv   ARNs are never given twice, and whatever names an ARN for an *)
(*            id (its record, an event, what the monitor has read) names a *)
(*            group and a rule of that id, or ones that are gone.          *)
(* CleanInv   An id that is not spoiled is doomed or clean.  Doomed: an    *)
(*            event in the queue asks for a priority taken by a rule that  *)
(*            no event up to it names, so that its invocation will fail    *)
(*            and spoil the id.  Clean: AWS holds what the record before   *)
(*            the first event asks for, or so much of the event at hand as *)
(*            is done, and the events that change what is asked for all    *)
(*            name the ARNs AWS has.                                       *)
(* TypeInv    The shapes of the variables and the locations of both        *)
(*            functions.                                                   *)
(*                                                                         *)
(* An id becomes doomed when the handler writes ARNs into a record that    *)
(* users changed and changed back since its event: the table holds what    *)
(* the event asked for, but the changes wait in the queue without ARNs,    *)
(* and the last of them asks for the priority of the rule just created.    *)
(***************************************************************************)
EXTENDS AlbTargets, SequenceTheorems, TLAPS

Events == [id : Ids, old : Records \cup {None}, new : Records \cup {None}]

Changes(e) == e.old.spec # e.new.spec
Deletion(e) == e.new = None

EventsOf(q, i) == {k \in DOMAIN q : q[k].id = i}

\* Events of an id follow each other, and the table holds what the last one says.
Chain(q, record, i) ==
    \A k \in EventsOf(q, i) :
        /\ \A l \in EventsOf(q, i) :
             (k < l /\ \A m \in EventsOf(q, i) : ~(k < m /\ m < l)) => q[l].old = q[k].new
        /\ (\A l \in EventsOf(q, i) : l <= k) => q[k].new = record

\* After a change of what is asked for there is one to what is asked for now.
LastChange(q, record, i) ==
    \A k \in EventsOf(q, i) :
        Changes(q[k]) =>
            \E l \in EventsOf(q, i) :
                k <= l /\ Changes(q[l]) /\ q[l].new.spec = record.spec

\* The record before the first event.
Currents(q, record, i) ==
    {q[k].old : k \in {k \in EventsOf(q, i) : \A l \in EventsOf(q, i) : k <= l}}
      \cup {r \in {record} : EventsOf(q, i) = {}}

Undeleted(q, i, k) == \A d \in EventsOf(q, i) : d < k => ~Deletion(q[d])

ArnsOf(meta) == [group |-> meta.group, rule |-> meta.rule]
NoArns == ArnsOf(NoMeta)

\* Events that change what is asked for name the ARNs a, those after a deletion none.
Tells(q, record, i, a) ==
    /\ Undeleted(q, i, Len(q) + 1) => ArnsOf(record.meta) = a
    /\ ~Undeleted(q, i, Len(q) + 1) => record.meta = NoMeta
    /\ \A k \in EventsOf(q, i) :
         /\ Undeleted(q, i, k) /\ Changes(q[k]) =>
              /\ ArnsOf(q[k].old.meta) = a
              /\ ~Deletion(q[k]) => ArnsOf(q[k].new.meta) = a
         /\ ~Undeleted(q, i, k) => q[k].old.meta = NoMeta /\ q[k].new.meta = NoMeta

-----------------------------------------------------------------------------
(* Sequences of events *)

Drop(q, n) == SubSeq(q, n + 1, Len(q))

LEMMA DropIs ==
    ASSUME NEW S, NEW q \in Seq(S), NEW n \in 0..Len(q)
    PROVE  /\ Drop(q, n) \in Seq(S)
           /\ Len(Drop(q, n)) = Len(q) - n
           /\ \A k \in 1..(Len(q) - n) : Drop(q, n)[k] = q[k + n]
  <1>1. Len(q) \in Nat /\ \A k \in 1..Len(q) : q[k] \in S
    BY LenProperties, ElementOfSeq
  <1>2. \A k \in (n + 1)..Len(q) : q[k] \in S
    BY <1>1
  <1>3. /\ Drop(q, n) \in Seq(S)
        /\ Len(Drop(q, n)) = IF n + 1 <= Len(q) THEN Len(q) - (n + 1) + 1 ELSE 0
        /\ \A k \in 1..(Len(q) - (n + 1) + 1) : Drop(q, n)[k] = q[(n + 1) + k - 1]
    BY <1>1, <1>2, SubSeqProperties DEF Drop
  <1> QED
    BY <1>1, <1>3

LEMMA InEventsOf ==
    ASSUME NEW q \in Seq(Events), NEW i
    PROVE  \A k : k \in EventsOf(q, i) <=> k \in 1..Len(q) /\ q[k].id = i
  BY LenProperties DEF EventsOf

LEMMA EventsOfDrop ==
    ASSUME NEW q \in Seq(Events), NEW i, NEW n \in 0..Len(q)
    PROVE  \A k : k \in EventsOf(Drop(q, n), i) <=> k \in 1..(Len(q) - n) /\ k + n \in EventsOf(q, i)
  <1>1. Len(q) \in Nat
    BY LenProperties
  <1>2. /\ Drop(q, n) \in Seq(Events) /\ Len(Drop(q, n)) = Len(q) - n
        /\ \A k \in 1..(Len(q) - n) : Drop(q, n)[k] = q[k + n]
    BY DropIs
  <1>3. \A k : k \in EventsOf(Drop(q, n), i) <=> k \in 1..(Len(q) - n) /\ Drop(q, n)[k].id = i
    BY <1>2, InEventsOf
  <1>4. \A k \in 1..(Len(q) - n) : k + n \in EventsOf(q, i) <=> q[k + n].id = i
    BY <1>1, InEventsOf
  <1> QED
    BY <1>2, <1>3, <1>4

LEMMA EventsOfAppend ==
    ASSUME NEW q \in Seq(Events), NEW i, NEW e \in Events
    PROVE  EventsOf(Append(q, e), i) =
             EventsOf(q, i) \cup (IF e.id = i THEN {Len(q) + 1} ELSE {})
  <1>1. Len(q) \in Nat
    BY LenProperties
  <1>2. /\ Append(q, e) \in Seq(Events) /\ Len(Append(q, e)) = Len(q) + 1
        /\ \A k \in 1..Len(q) : Append(q, e)[k] = q[k]
        /\ Append(q, e)[Len(q) + 1] = e
    BY AppendProperties
  <1>3. \A k : k \in EventsOf(Append(q, e), i) <=> k \in 1..(Len(q) + 1) /\ Append(q, e)[k].id = i
    BY <1>2, InEventsOf, ZenonT(60)
  <1> QED
    BY <1>1, <1>2, <1>3, InEventsOf

LEMMA ChainDrop ==
    ASSUME NEW q \in Seq(Events), NEW i, NEW record, NEW n \in 0..Len(q), Chain(q, record, i)
    PROVE  Chain(Drop(q, n), record, i)
  <1> DEFINE p == Drop(q, n)
  <1>1. Len(q) \in Nat /\ n \in Nat
    BY LenProperties
  <1>2. \A k : k \in EventsOf(p, i) <=> k \in 1..(Len(q) - n) /\ k + n \in EventsOf(q, i)
    BY EventsOfDrop
  <1>3. \A k \in EventsOf(p, i) : p[k] = q[k + n]
    BY <1>2, DropIs
  <1>4. \A m \in EventsOf(q, i) : m > n => m - n \in EventsOf(p, i)
    BY <1>1, <1>2, InEventsOf
  <1>5. \A k \in EventsOf(q, i) : k \in Int
    BY <1>1, InEventsOf
  <1> HIDE DEF p
  <1>6. ASSUME NEW k \in EventsOf(p, i), NEW l \in EventsOf(p, i), k < l,
               \A m \in EventsOf(p, i) : ~(k < m /\ m < l)
        PROVE  p[l].old = p[k].new
    <2>1. k + n \in EventsOf(q, i) /\ l + n \in EventsOf(q, i) /\ k \in Nat /\ l \in Nat
      BY <1>1, <1>2
    <2>2. ASSUME NEW m \in EventsOf(q, i), k + n < m, m < l + n PROVE FALSE
      BY <1>1, <1>4, <1>5, <1>6, <2>1, <2>2
    <2>3. q[l + n].old = q[k + n].new
      BY <1>1, <1>6, <2>1, <2>2 DEF Chain
    <2> QED
      BY <1>3, <2>3
  <1>7. ASSUME NEW k \in EventsOf(p, i), \A l \in EventsOf(p, i) : l <= k
        PROVE  p[k].new = record
    <2>1. k + n \in EventsOf(q, i) /\ k \in Nat
      BY <1>1, <1>2
    <2>2. ASSUME NEW l \in EventsOf(q, i) PROVE l <= k + n
      BY <1>1, <1>4, <1>5, <1>7, <2>1
    <2>3. q[k + n].new = record
      BY <2>1, <2>2 DEF Chain
    <2> QED
      BY <1>3, <2>3
  <1> QED
    BY <1>6, <1>7 DEF Chain, p

LEMMA ChainAppend ==
    ASSUME NEW q \in Seq(Events), NEW i, NEW record, NEW e \in Events, Chain(q, record, i),
           e.id = i, e.old = record
    PROVE  Chain(Append(q, e), e.new, i)
  <1> DEFINE p == Append(q, e)
  <1>1. Len(q) \in Nat
    BY LenProperties
  <1>2. /\ \A k \in 1..Len(q) : p[k] = q[k]
        /\ p[Len(q) + 1] = e
    BY AppendProperties
  <1>3. EventsOf(p, i) = EventsOf(q, i) \cup {Len(q) + 1}
    BY EventsOfAppend
  <1>4. \A k \in EventsOf(q, i) : k \in 1..Len(q) /\ p[k] = q[k]
    BY <1>2, InEventsOf
  <1> HIDE DEF p
  <1>5. ASSUME NEW k \in EventsOf(p, i), NEW l \in EventsOf(p, i), k < l,
               \A m \in EventsOf(p, i) : ~(k < m /\ m < l)
        PROVE  p[l].old = p[k].new
    <2>1. k \in EventsOf(q, i)
      BY <1>1, <1>3, <1>4, <1>5
    <2>2. CASE l \in EventsOf(q, i)
      BY <1>3, <1>4, <1>5, <2>1, <2>2 DEF Chain
    <2>3. CASE l = Len(q) + 1
      <3>1. \A m \in EventsOf(q, i) : m <= k
        BY <1>1, <1>3, <1>4, <1>5, <2>1, <2>3
      <3>2. q[k].new = record
        BY <2>1, <3>1 DEF Chain
      <3> QED
        BY <1>2, <1>4, <2>1, <2>3, <3>2
    <2> QED
      BY <1>3, <2>2, <2>3
  <1>6. ASSUME NEW k \in EventsOf(p, i), \A l \in EventsOf(p, i) : l <= k
        PROVE  p[k].new = e.new
    BY <1>1, <1>2, <1>3, <1>4, <1>6
  <1> QED
    BY <1>5, <1>6 DEF Chain, p

LEMMA ChainAppendOther ==
    ASSUME NEW q \in Seq(Events), NEW i, NEW record, NEW e \in Events, Chain(q, record, i),
           e.id # i
    PROVE  Chain(Append(q, e), record, i)
  <1>1. EventsOf(Append(q, e), i) = EventsOf(q, i)
    BY EventsOfAppend, ZenonT(60)
  <1>2. \A k \in EventsOf(q, i) : Append(q, e)[k] = q[k]
    BY AppendProperties, InEventsOf
  <1> QED
    BY <1>1, <1>2 DEF Chain

LEMMA LastChangeDrop ==
    ASSUME NEW q \in Seq(Events), NEW i, NEW record, NEW n \in 0..Len(q),
           LastChange(q, record, i)
    PROVE  LastChange(Drop(q, n), record, i)
  <1> DEFINE p == Drop(q, n)
  <1>1. Len(q) \in Nat /\ n \in Nat
    BY LenProperties
  <1>2. \A k : k \in EventsOf(p, i) <=> k \in 1..(Len(q) - n) /\ k + n \in EventsOf(q, i)
    BY EventsOfDrop
  <1>3. \A k \in EventsOf(p, i) : p[k] = q[k + n]
    BY <1>2, DropIs
  <1> HIDE DEF p
  <1>4. ASSUME NEW k \in EventsOf(p, i), Changes(p[k])
        PROVE  \E l \in EventsOf(p, i) : k <= l /\ Changes(p[l]) /\ p[l].new.spec = record.spec
    <2>1. k + n \in EventsOf(q, i) /\ k \in 1..(Len(q) - n) /\ Changes(q[k + n])
      BY <1>2, <1>3, <1>4
    <2>2. PICK m \in EventsOf(q, i) : k + n <= m /\ Changes(q[m]) /\ q[m].new.spec = record.spec
      BY <2>1 DEF LastChange
    <2>3. m \in 1..Len(q)
      BY InEventsOf
    <2>4. m - n \in 1..(Len(q) - n) /\ (m - n) + n = m /\ k <= m - n
      BY <1>1, <2>1, <2>2, <2>3
    <2>5. m - n \in EventsOf(p, i)
      BY <1>2, <2>2, <2>4
    <2>6. p[m - n] = q[m]
      BY <1>3, <2>4, <2>5
    <2> QED
      BY <2>2, <2>4, <2>5, <2>6
  <1> QED
    BY <1>4 DEF LastChange, p

\* An event that leaves what is asked for alone needs no later one.
LEMMA LastChangeAppend ==
    ASSUME NEW q \in Seq(Events), NEW i, NEW record, NEW e \in Events, LastChange(q, record, i),
           e.id = i, e.old = record
    PROVE  LastChange(Append(q, e), e.new, i)
  <1> DEFINE p == Append(q, e)
  <1>1. Len(q) \in Nat
    BY LenProperties
  <1>2. /\ \A k \in 1..Len(q) : p[k] = q[k]
        /\ p[Len(q) + 1] = e
    BY AppendProperties
  <1>3. EventsOf(p, i) = EventsOf(q, i) \cup {Len(q) + 1}
    BY EventsOfAppend
  <1>4. \A k \in EventsOf(q, i) : k \in 1..Len(q) /\ p[k] = q[k]
    BY <1>2, InEventsOf
  <1> HIDE DEF p
  <1>5. ASSUME NEW k \in EventsOf(p, i), Changes(p[k])
        PROVE  \E l \in EventsOf(p, i) : k <= l /\ Changes(p[l]) /\ p[l].new.spec = e.new.spec
    <2>1. CASE Changes(e)
      <3>1. k <= Len(q) + 1
        BY <1>1, <1>3, <1>4
      <3> QED
        BY <1>2, <1>3, <2>1, <3>1
    <2>2. CASE ~Changes(e)
      <3>1. k \in EventsOf(q, i) /\ Changes(q[k])
        BY <1>2, <1>3, <1>4, <1>5, <2>2
      <3>2. PICK l \in EventsOf(q, i) : k <= l /\ Changes(q[l]) /\ q[l].new.spec = record.spec
        BY <3>1 DEF LastChange
      <3>3. e.new.spec = record.spec
        BY <2>2 DEF Changes
      <3> QED
        BY <1>3, <1>4, <3>2, <3>3
    <2> QED
      BY <2>1, <2>2
  <1> QED
    BY <1>5 DEF LastChange, p

LEMMA LastChangeAppendOther ==
    ASSUME NEW q \in Seq(Events), NEW i, NEW record, NEW e \in Events, LastChange(q, record, i),
           e.id # i
    PROVE  LastChange(Append(q, e), record, i)
  <1>1. EventsOf(Append(q, e), i) = EventsOf(q, i)
    BY EventsOfAppend
  <1>2. \A k \in EventsOf(q, i) : Append(q, e)[k] = q[k]
    BY AppendProperties, InEventsOf
  <1> QED
    BY <1>1, <1>2 DEF LastChange

-----------------------------------------------------------------------------
(* Whether something was deleted, and the record before the first event *)

LEMMA UndeletedDrop ==
    ASSUME NEW q \in Seq(Events), NEW i, NEW n \in 0..Len(q), NEW k \in 1..(Len(q) - n + 1)
    PROVE  /\ Undeleted(q, i, k + n) => Undeleted(Drop(q, n), i, k)
           /\ Undeleted(q, i, n + 1) /\ Undeleted(Drop(q, n), i, k) => Undeleted(q, i, k + n)
  <1> DEFINE p == Drop(q, n)
  <1>1. Len(q) \in Nat /\ n \in Nat
    BY LenProperties
  <1>2. \A d : d \in EventsOf(p, i) <=> d \in 1..(Len(q) - n) /\ d + n \in EventsOf(q, i)
    BY EventsOfDrop
  <1>3. \A d \in EventsOf(p, i) : p[d] = q[d + n]
    BY <1>2, DropIs
  <1>4. \A d \in EventsOf(q, i) : d \in 1..Len(q)
    BY InEventsOf
  <1> HIDE DEF p
  <1>5. ASSUME Undeleted(q, i, k + n), NEW d \in EventsOf(p, i), d < k PROVE ~Deletion(p[d])
    <2>1. d + n \in EventsOf(q, i) /\ d + n < k + n
      BY <1>1, <1>2, <1>5
    <2> QED
      BY <1>3, <1>5, <2>1 DEF Undeleted
  <1>6. ASSUME Undeleted(q, i, n + 1), Undeleted(p, i, k), NEW d \in EventsOf(q, i), d < k + n
        PROVE  ~Deletion(q[d])
    <2>1. CASE d < n + 1
      BY <1>6, <2>1 DEF Undeleted
    <2>2. CASE ~(d < n + 1)
      <3>1. d - n \in 1..(Len(q) - n) /\ (d - n) + n = d /\ d - n < k
        BY <1>1, <1>4, <1>6, <2>2
      <3>2. d - n \in EventsOf(p, i)
        BY <1>2, <1>6, <3>1
      <3> QED
        BY <1>3, <1>6, <3>1, <3>2 DEF Undeleted
    <2> QED
      BY <2>1, <2>2
  <1> QED
    BY <1>5, <1>6 DEF Undeleted, p

LEMMA UndeletedAppend ==
    ASSUME NEW q \in Seq(Events), NEW i, NEW e \in Events
    PROVE  /\ \A k \in 1..(Len(q) + 1) : Undeleted(Append(q, e), i, k) <=> Undeleted(q, i, k)
           /\ Undeleted(Append(q, e), i, Len(q) + 2) <=>
                Undeleted(q, i, Len(q) + 1) /\ (e.id = i => ~Deletion(e))
  <1> DEFINE p == Append(q, e)
  <1>1. Len(q) \in Nat
    BY LenProperties
  <1>2. /\ \A k \in 1..Len(q) : p[k] = q[k]
        /\ p[Len(q) + 1] = e
    BY AppendProperties
  <1>3. EventsOf(p, i) = EventsOf(q, i) \cup (IF e.id = i THEN {Len(q) + 1} ELSE {})
    BY EventsOfAppend
  <1>4. \A k \in EventsOf(q, i) : k \in 1..Len(q) /\ p[k] = q[k]
    BY <1>2, InEventsOf
  <1> HIDE DEF p
  <1>5. \A k \in 1..(Len(q) + 1) : Undeleted(p, i, k) <=> Undeleted(q, i, k)
    BY <1>1, <1>3, <1>4 DEF Undeleted
  <1>6. Undeleted(p, i, Len(q) + 2) <=> Undeleted(q, i, Len(q) + 1) /\ (e.id = i => ~Deletion(e))
    BY <1>1, <1>2, <1>3, <1>4 DEF Undeleted
  <1> QED
    BY <1>5, <1>6 DEF p

\* The head of a queue, dropped, makes way for what it said.
LEMMA CurrentsDropHead ==
    ASSUME NEW q \in Seq(Events), NEW i, NEW record, Chain(q, record, i), q # <<>>, q[1].id = i
    PROVE  Currents(Drop(q, 1), record, i) \subseteq {q[1].new}
  <1> DEFINE p == Drop(q, 1)
  <1>1. Len(q) \in Nat /\ 1 \in 0..Len(q) /\ 1 \in EventsOf(q, i)
    BY LenProperties, InEventsOf, EmptySeq
  <1>2. \A k : k \in EventsOf(p, i) <=> k \in 1..(Len(q) - 1) /\ k + 1 \in EventsOf(q, i)
    BY <1>1, EventsOfDrop
  <1>3. \A k \in EventsOf(p, i) : p[k] = q[k + 1]
    BY <1>1, <1>2, DropIs, ZenonT(60)
  <1>4. \A m \in EventsOf(q, i) : m \in 1..Len(q) /\ (m > 1 => m - 1 \in EventsOf(p, i))
    BY <1>1, <1>2, InEventsOf
  <1> HIDE DEF p
  <1>5. ASSUME NEW k \in EventsOf(p, i), \A l \in EventsOf(p, i) : k <= l
        PROVE  p[k].old = q[1].new
    <2>1. k + 1 \in EventsOf(q, i) /\ k \in Nat /\ 1 < k + 1
      BY <1>1, <1>2
    <2>2. \A m \in EventsOf(q, i) : ~(1 < m /\ m < k + 1)
      BY <1>1, <1>4, <1>5, <2>1
    <2> QED
      BY <1>1, <1>3, <2>1, <2>2 DEF Chain
  <1>6. ASSUME EventsOf(p, i) = {} PROVE record = q[1].new
    <2>1. \A m \in EventsOf(q, i) : m <= 1
      BY <1>1, <1>4, <1>6
    <2> QED
      BY <1>1, <2>1 DEF Chain
  <1> QED
    BY <1>5, <1>6 DEF Currents, p

LEMMA CurrentsDropOther ==
    ASSUME NEW q \in Seq(Events), NEW i, NEW record, NEW n \in 0..Len(q),
           \A k \in 1..n : q[k].id # i
    PROVE  Currents(Drop(q, n), record, i) \subseteq Currents(q, record, i)
  <1> DEFINE p == Drop(q, n)
  <1>1. Len(q) \in Nat /\ n \in Nat
    BY LenProperties
  <1>2. \A k : k \in EventsOf(p, i) <=> k \in 1..(Len(q) - n) /\ k + n \in EventsOf(q, i)
    BY EventsOfDrop
  <1>3. \A k \in EventsOf(p, i) : p[k] = q[k + n]
    BY <1>2, DropIs
  <1>4. \A m \in EventsOf(q, i) : m \in 1..Len(q) /\ m > n
    BY <1>1, InEventsOf
  <1>5. \A m \in EventsOf(q, i) : m - n \in EventsOf(p, i)
    BY <1>1, <1>2, <1>4
  <1> HIDE DEF p
  <1>6. ASSUME NEW k \in EventsOf(p, i), \A l \in EventsOf(p, i) : k <= l
        PROVE  p[k].old \in Currents(q, record, i)
    <2>1. k + n \in EventsOf(q, i) /\ k \in Nat
      BY <1>1, <1>2
    <2>2. \A l \in EventsOf(q, i) : k + n <= l
      BY <1>1, <1>4, <1>5, <1>6, <2>1
    <2> QED
      BY <1>3, <2>1, <2>2 DEF Currents
  <1>7. ASSUME EventsOf(p, i) = {} PROVE record \in Currents(q, record, i)
    BY <1>5, <1>7 DEF Currents
  <1> QED
    BY <1>6, <1>7 DEF Currents, p

LEMMA CurrentsAppend ==
    ASSUME NEW q \in Seq(Events), NEW i, NEW record, NEW e \in Events, e.id = i, e.old = record
    PROVE  Currents(Append(q, e), e.new, i) \subseteq Currents(q, record, i)
  <1> DEFINE p == Append(q, e)
  <1>1. Len(q) \in Nat
    BY LenProperties
  <1>2. /\ \A k \in 1..Len(q) : p[k] = q[k]
        /\ p[Len(q) + 1] = e
    BY AppendProperties
  <1>3. EventsOf(p, i) = EventsOf(q, i) \cup {Len(q) + 1}
    BY EventsOfAppend
  <1>4. \A k \in EventsOf(q, i) : k \in 1..Len(q) /\ p[k] = q[k]
    BY <1>2, InEventsOf
  <1> HIDE DEF p
  <1>5. ASSUME NEW k \in EventsOf(p, i), \A l \in EventsOf(p, i) : k <= l
        PROVE  p[k].old \in Currents(q, record, i)
    <2>1. CASE k \in EventsOf(q, i)
      BY <1>3, <1>4, <1>5, <2>1 DEF Currents
    <2>2. CASE k = Len(q) + 1
      <3>1. ASSUME NEW l \in EventsOf(q, i) PROVE FALSE
        <4>1. Len(q) + 1 <= l
          BY <1>3, <1>5, <2>2
        <4> QED
          BY <1>1, <1>4, <4>1
      <3>2. EventsOf(q, i) = {}
        BY <3>1
      <3> QED
        BY <1>2, <2>2, <3>2 DEF Currents
    <2> QED
      BY <1>3, <2>1, <2>2
  <1>6. EventsOf(p, i) # {}
    BY <1>3
  <1> QED
    BY <1>5, <1>6, ZenonT(60) DEF Currents, p

LEMMA CurrentsAppendOther ==
    ASSUME NEW q \in Seq(Events), NEW i, NEW record, NEW e \in Events, e.id # i
    PROVE  Currents(Append(q, e), record, i) = Currents(q, record, i)
  <1>1. EventsOf(Append(q, e), i) = EventsOf(q, i)
    BY EventsOfAppend, ZenonT(60)
  <1>2. \A k \in EventsOf(q, i) : Append(q, e)[k] = q[k]
    BY AppendProperties, InEventsOf
  <1> QED
    BY <1>1, <1>2 DEF Currents

-----------------------------------------------------------------------------
(* ARNs that events name *)

LEMMA TellsDrop ==
    ASSUME NEW q \in Seq(Events), NEW i, NEW record, NEW a, NEW n \in 0..Len(q),
           Tells(q, record, i, a), Undeleted(q, i, n + 1)
    PROVE  Tells(Drop(q, n), record, i, a)
  <1> DEFINE p == Drop(q, n)
  <1>1. Len(q) \in Nat /\ n \in Nat /\ Len(p) = Len(q) - n
    BY LenProperties, DropIs
  <1>2. \A k : k \in EventsOf(p, i) <=> k \in 1..(Len(q) - n) /\ k + n \in EventsOf(q, i)
    BY EventsOfDrop
  <1>3. \A k \in EventsOf(p, i) : p[k] = q[k + n]
    BY <1>2, DropIs
  <1>4. \A k \in 1..(Len(q) - n + 1) : Undeleted(p, i, k) <=> Undeleted(q, i, k + n)
    BY UndeletedDrop
  <1>5. Undeleted(p, i, Len(p) + 1) <=> Undeleted(q, i, Len(q) + 1)
    <2>1. Len(p) + 1 \in 1..(Len(q) - n + 1) /\ (Len(p) + 1) + n = Len(q) + 1
      BY <1>1
    <2> QED
      BY <1>4, <2>1
  <1>6. \A k \in EventsOf(p, i) : Undeleted(p, i, k) <=> Undeleted(q, i, k + n)
    BY <1>1, <1>2, <1>4
  <1> HIDE DEF p
  <1>7. Undeleted(p, i, Len(p) + 1) => ArnsOf(record.meta) = a
    BY <1>5 DEF Tells
  <1>8. ~Undeleted(p, i, Len(p) + 1) => record.meta = NoMeta
    BY <1>5 DEF Tells
  <1>9. ASSUME NEW k \in EventsOf(p, i)
        PROVE  /\ Undeleted(p, i, k) /\ Changes(p[k]) =>
                    /\ ArnsOf(p[k].old.meta) = a
                    /\ ~Deletion(p[k]) => ArnsOf(p[k].new.meta) = a
               /\ ~Undeleted(p, i, k) => p[k].old.meta = NoMeta /\ p[k].new.meta = NoMeta
    BY <1>2, <1>3, <1>6 DEF Tells
  <1> QED
    BY <1>7, <1>8, <1>9 DEF Tells, p

\* A deletion that has been handled leaves records without ARNs.
LEMMA TellsDropDeletion ==
    ASSUME NEW q \in Seq(Events), NEW i, NEW record, NEW a, Tells(q, record, i, a),
           q # <<>>, q[1].id = i, Deletion(q[1])
    PROVE  Tells(Drop(q, 1), record, i, NoArns)
  <1> DEFINE p == Drop(q, 1)
  <1>1. Len(q) \in Nat /\ 1 \in 0..Len(q) /\ 1 \in EventsOf(q, i)
    BY LenProperties, InEventsOf, EmptySeq
  <1>2. \A k : k \in EventsOf(p, i) <=> k \in 1..(Len(q) - 1) /\ k + 1 \in EventsOf(q, i)
    BY <1>1, EventsOfDrop
  <1>3. \A k \in EventsOf(p, i) : p[k] = q[k + 1]
    BY <1>1, <1>2, DropIs, ZenonT(60)
  <1> HIDE DEF p
  <1>4. ~Undeleted(q, i, Len(q) + 1)
    BY <1>1 DEF Undeleted
  <1>5. \A k \in EventsOf(p, i) : ~Undeleted(q, i, k + 1)
    BY <1>1, <1>2 DEF Undeleted
  <1>6. record.meta = NoMeta
    BY <1>4 DEF Tells
  <1>7. \A k \in EventsOf(p, i) : p[k].old.meta = NoMeta /\ p[k].new.meta = NoMeta
    BY <1>2, <1>3, <1>5 DEF Tells
  <1> QED
    BY <1>6, <1>7 DEF Tells, NoArns, p

\* What a user does to a record, and the monitor to one it has just read.
LEMMA TellsAppend ==
    ASSUME NEW q \in Seq(Events), NEW i, NEW record, NEW a, NEW e \in Events,
           Tells(q, record, i, a), e.id = i, e.old = record,
           IF Deletion(e) THEN e.new.meta = NoMeta
           ELSE /\ ArnsOf(e.new.meta) = ArnsOf(record.meta)
                /\ record.meta = NoMeta => e.new.meta = NoMeta
    PROVE  Tells(Append(q, e), e.new, i, a)
  <1> DEFINE p == Append(q, e)
  <1>1. Len(q) \in Nat
    BY LenProperties
  <1>2. /\ \A k \in 1..Len(q) : p[k] = q[k]
        /\ p[Len(q) + 1] = e
        /\ Len(p) + 1 = Len(q) + 2
    BY <1>1, AppendProperties
  <1>3. EventsOf(p, i) = EventsOf(q, i) \cup {Len(q) + 1}
    BY EventsOfAppend
  <1>4. \A k \in EventsOf(q, i) : k \in 1..Len(q) /\ p[k] = q[k]
    BY <1>2, InEventsOf
  <1>5. \A k \in 1..(Len(q) + 1) : Undeleted(p, i, k) <=> Undeleted(q, i, k)
    BY UndeletedAppend
  <1>6. Undeleted(p, i, Len(p) + 1) <=> Undeleted(q, i, Len(q) + 1) /\ ~Deletion(e)
    BY <1>2, UndeletedAppend
  <1> HIDE DEF p
  <1>7. Undeleted(p, i, Len(p) + 1) => ArnsOf(e.new.meta) = a
    BY <1>6 DEF Tells
  <1>8. ~Undeleted(p, i, Len(p) + 1) => e.new.meta = NoMeta
    BY <1>6 DEF Tells
  <1>9. ASSUME NEW k \in EventsOf(p, i)
        PROVE  /\ Undeleted(p, i, k) /\ Changes(p[k]) =>
                    /\ ArnsOf(p[k].old.meta) = a
                    /\ ~Deletion(p[k]) => ArnsOf(p[k].new.meta) = a
               /\ ~Undeleted(p, i, k) => p[k].old.meta = NoMeta /\ p[k].new.meta = NoMeta
    <2>1. CASE k \in EventsOf(q, i)
      <3>1. Undeleted(p, i, k) <=> Undeleted(q, i, k)
        BY <1>1, <1>4, <1>5, <2>1
      <3> QED
        BY <1>4, <2>1, <3>1 DEF Tells
    <2>2. CASE k = Len(q) + 1
      <3>1. (Undeleted(p, i, k) <=> Undeleted(q, i, Len(q) + 1)) /\ p[k] = e
        BY <1>1, <1>2, <1>5, <2>2
      <3>2. Undeleted(q, i, Len(q) + 1) => ArnsOf(record.meta) = a
        BY DEF Tells
      <3>3. ~Undeleted(q, i, Len(q) + 1) => record.meta = NoMeta
        BY DEF Tells
      <3> QED
        BY <3>1, <3>2, <3>3
    <2> QED
      BY <1>3, <2>1, <2>2
  <1> QED
    BY <1>7, <1>8, <1>9 DEF Tells, p

LEMMA TellsAppendOther ==
    ASSUME NEW q \in Seq(Events), NEW i, NEW record, NEW a, NEW e \in Events,
           Tells(q, record, i, a), e.id # i
    PROVE  Tells(Append(q, e), record, i, a)
  <1> DEFINE p == Append(q, e)
  <1>1. Len(q) \in Nat
    BY LenProperties
  <1>2. EventsOf(p, i) = EventsOf(q, i)
    BY EventsOfAppend, ZenonT(60)
  <1>3. \A k \in EventsOf(q, i) : k \in 1..Len(q) /\ p[k] = q[k]
    BY AppendProperties, InEventsOf
  <1>4. \A k \in 1..(Len(q) + 1) : Undeleted(p, i, k) <=> Undeleted(q, i, k)
    BY UndeletedAppend
  <1>5. Undeleted(p, i, Len(q) + 2) <=> Undeleted(q, i, Len(q) + 1)
    BY UndeletedAppend
  <1>6. Len(p) = Len(q) + 1
    BY AppendProperties
  <1> HIDE DEF p
  <1>7. Undeleted(p, i, Len(p) + 1) <=> Undeleted(q, i, Len(q) + 1)
    BY <1>1, <1>5, <1>6
  <1>8. \A k \in EventsOf(q, i) : Undeleted(p, i, k) <=> Undeleted(q, i, k)
    BY <1>1, <1>3, <1>4
  <1> QED
    BY <1>2, <1>3, <1>7, <1>8 DEF Tells, p

\* Without a change of what is asked for, only the record itself matters.
LEMMA TellsQuiet ==
    ASSUME NEW q \in Seq(Events), NEW i, NEW record,
           \A k \in EventsOf(q, i) : ~Changes(q[k]) /\ ~Deletion(q[k])
    PROVE  Tells(q, record, i, ArnsOf(record.meta))
  BY DEF Tells, Undeleted

-----------------------------------------------------------------------------
(***************************************************************************)
(* The inductive invariant.                                                *)
(***************************************************************************)
Queue == batch \o stream
InHand(i) == batch # <<>> /\ Head(batch).id = i

Working == mpc \in {"register", "deregister", "put"}

HandlerSteps == {"nothing", "modify", "priority", "deleteRule", "deleteGroup",
                 "create", "createRule", "put"}

\* The types of the table, of its stream and of what both functions have read.
DataTypes ==
    /\ table \in [Ids -> Records \cup {None}]
    /\ dns \in [Ids -> Addresses]
    /\ stream \in Seq(Events) /\ batch \in Seq(Events)
    /\ \A k \in DOMAIN stream : stream[k].old # stream[k].new
    /\ \A k \in DOMAIN batch : batch[k].old # batch[k].new
    /\ made \in Meta
    /\ scanned \subseteq [id : Ids, record : Records]
    /\ item.meta \in Meta
    /\ Working => item \in [id : Ids, read : Records, meta : Meta, drop : SUBSET UNION Addresses]
    /\ spoiled \subseteq Ids

\* The types of what AWS holds.
AwsTypes ==
    /\ arns \in Nat
    /\ groups \subseteq [arn : 1..arns, id : Ids, target : {s.target : s \in Specs},
                        ips : SUBSET UNION Addresses]
    /\ rules \subseteq [arn : 1..arns, condition : {s.condition : s \in Specs},
                       priority : Nat \ {0}, group : 1..arns]

\* What each step of the handler was reached by.
HandlerInv ==
    /\ (hpc = "idle") = (batch = <<>>)
    /\ hpc \in {"idle"} \cup HandlerSteps
    /\ hpc = "nothing" => Old # None /\ New # None /\ ~Changes(Head(batch))
    /\ hpc \in {"modify", "priority"} =>
         Old # None /\ New # None /\ Changes(Head(batch)) /\ Old.meta # NoMeta
    /\ hpc \in {"deleteRule", "deleteGroup"} => Old # None /\ Changes(Head(batch))
    /\ hpc \in {"create", "createRule", "put"} => New # None /\ Changes(Head(batch))
    /\ hpc \in {"createRule", "put"} => made.group \in 1..arns
    /\ hpc = "put" => made.rule \in 1..arns

\* A pass has each id once, and takes what it writes from what it read.
MonitorInv ==
    /\ mpc \in {"idle", "next", "register", "deregister", "put"}
    /\ \A s, t \in scanned : s.id = t.id => s = t
    /\ Working =>
         /\ \A s \in scanned : s.id # item.id
         /\ item.meta = [item.read.meta EXCEPT !.ips = item.meta.ips]
         /\ item.drop = item.read.meta.ips \ item.meta.ips
         /\ item.read.meta = NoMeta => item.meta = NoMeta

TypeInv == DataTypes /\ AwsTypes /\ HandlerInv /\ MonitorInv

ChainInv == \A i \in Ids : Chain(Queue, table[i], i) /\ LastChange(Queue, table[i], i)

-----------------------------------------------------------------------------
(* Records *)

LEMMA NoneFacts ==
    /\ NoMeta \in Meta /\ None.meta = NoMeta /\ None = Record(None.spec, NoMeta)
    /\ NoMeta.group = 0 /\ NoMeta.rule = 0 /\ NoMeta.ips = {}
    /\ \A s \in Specs : s # None.spec
    /\ None \notin Records
  BY AlbAssumption DEF None, Record, NoMeta, Meta, Records

LEMMA RecordFacts ==
    ASSUME NEW record \in Records \cup {None}
    PROVE  /\ record.meta \in Meta
           /\ record = Record(record.spec, record.meta)
           /\ record = None <=> record.spec = None.spec
           /\ record # None => record \in Records /\ record.spec \in Specs
  <1>1. CASE record \in Records
    BY <1>1, NoneFacts DEF Records, Record
  <1>2. CASE record = None
    BY <1>2, NoneFacts
  <1> QED
    BY <1>1, <1>2

LEMMA SpecFacts ==
    ASSUME NEW s \in Specs
    PROVE  /\ s = [target |-> s.target, condition |-> s.condition, priority |-> s.priority]
           /\ s.priority \in Nat \ {0}
  BY AlbAssumption

LEMMA RecordOf ==
    ASSUME NEW spec, NEW meta
    PROVE  /\ Record(spec, meta).spec = spec /\ Record(spec, meta).meta = meta
           /\ spec \in Specs /\ meta \in Meta => Record(spec, meta) \in Records
  BY DEF Record, Records

LEMMA EventFacts ==
    ASSUME NEW e \in Events
    PROVE  e.id \in Ids /\ e.old \in Records \cup {None} /\ e.new \in Records \cup {None}
  BY DEF Events

LEMMA MetaWithIps ==
    ASSUME NEW meta \in Meta, NEW ips
    PROVE  /\ ips \in SUBSET UNION Addresses => [meta EXCEPT !.ips = ips] \in Meta
           /\ [meta EXCEPT !.ips = ips].group = meta.group
           /\ [meta EXCEPT !.ips = ips].rule = meta.rule
           /\ [meta EXCEPT !.ips = ips].ips = ips
           /\ [meta EXCEPT !.ips = meta.ips] = meta
  BY DEF Meta

-----------------------------------------------------------------------------
(* Types *)

LEMMA WriteTypes ==
    ASSUME DataTypes, NEW i \in Ids, NEW record \in Records \cup {None}, Write(i, record)
    PROVE  /\ table' \in [Ids -> Records \cup {None}]
           /\ stream' \in Seq(Events)
           /\ \A k \in DOMAIN stream' : stream'[k].old # stream'[k].new
  <1> DEFINE e == [id |-> i, old |-> table[i], new |-> record]
  <1>1. table' \in [Ids -> Records \cup {None}]
    BY DEF DataTypes, Write
  <1>2. CASE record = table[i]
    BY <1>1, <1>2 DEF DataTypes, Write
  <1>3. CASE record # table[i]
    <2>1. e \in Events /\ e.old # e.new
      BY <1>3 DEF DataTypes, Events
    <2>2. stream' = Append(stream, e) /\ stream \in Seq(Events)
      BY <1>3 DEF DataTypes, Write
    <2> HIDE DEF e
    <2>3. /\ stream' \in Seq(Events) /\ Len(stream') = Len(stream) + 1
          /\ \A k \in 1..Len(stream) : stream'[k] = stream[k]
          /\ stream'[Len(stream) + 1] = e
      BY <2>1, <2>2, AppendProperties
    <2>4. /\ DOMAIN stream' = 1..Len(stream') /\ DOMAIN stream = 1..Len(stream)
          /\ Len(stream) \in Nat
      BY <2>2, <2>3, LenProperties
    <2>5. \A k \in 1..Len(stream) : stream[k].old # stream[k].new
      BY <2>4 DEF DataTypes
    <2> QED
      BY <1>1, <2>1, <2>3, <2>4, <2>5
  <1> QED
    BY <1>2, <1>3

\* The handler turns to another event.
LEMMA GotoTypes ==
    ASSUME NEW events \in Seq(Events), \A k \in DOMAIN events : events[k].old # events[k].new,
           Goto(events)
    PROVE  /\ batch' \in Seq(Events)
           /\ \A k \in DOMAIN batch' : batch'[k].old # batch'[k].new
           /\ made' \in Meta
           /\ HandlerInv'
  <1>1. batch' = events /\ made' = NoMeta
        /\ hpc' = IF events = <<>> THEN "idle" ELSE Call(Head(events))
    BY DEF Goto
  <1>2. CASE events = <<>>
    BY <1>1, <1>2, NoneFacts DEF HandlerInv
  <1>3. CASE events # <<>>
    <2> DEFINE e == Head(events)
    <2>1. e \in Events /\ e.old # e.new
      <3>1. e = events[1] /\ 1 \in DOMAIN events
        BY <1>3, EmptySeq, LenProperties
      <3> QED
        BY <3>1, ElementOfSeq, LenProperties
    <2>2. Old' = e.old /\ New' = e.new /\ Head(batch)' = e /\ hpc' = Call(e)
      BY <1>1, <1>3 DEF Old, New
    <2> HIDE DEF e
    <2>3. e.old # None \/ e.new # None
      BY <2>1
    <2>4. e.old = None \/ e.new = None => Changes(e)
      BY <2>1, <2>3, RecordFacts, EventFacts DEF Changes
    <2>5. HandlerInv'
      BY <1>1, <1>3, <2>2, <2>3, <2>4 DEF HandlerInv, HandlerSteps, Call, Changes
    <2> QED
      BY <1>1, <2>5, NoneFacts
  <1> QED
    BY <1>2, <1>3

LEMMA BatchTypes ==
    ASSUME DataTypes, batch # <<>>
    PROVE  /\ Head(batch) = batch[1] /\ Head(batch) \in Events
           /\ Head(batch).id \in Ids
           /\ Old \in Records \cup {None} /\ New \in Records \cup {None}
           /\ Tail(batch) \in Seq(Events)
           /\ \A k \in DOMAIN Tail(batch) : Tail(batch)[k].old # Tail(batch)[k].new
  <1>1. batch \in Seq(Events) /\ Len(batch) \in Nat \ {0} /\ DOMAIN batch = 1..Len(batch)
    BY EmptySeq, LenProperties DEF DataTypes
  <1>2. Head(batch) = batch[1] /\ batch[1] \in Events
    BY <1>1, ElementOfSeq
  <1>3. /\ Tail(batch) \in Seq(Events) /\ Len(Tail(batch)) = Len(batch) - 1
        /\ \A k \in 1..Len(Tail(batch)) : Tail(batch)[k] = batch[k + 1]
    BY <1>1, HeadTailProperties
  <1>4. DOMAIN Tail(batch) = 1..Len(Tail(batch))
    BY <1>3, LenProperties
  <1>5. \A k \in DOMAIN Tail(batch) : Tail(batch)[k].old # Tail(batch)[k].new
    BY <1>1, <1>3, <1>4 DEF DataTypes
  <1> QED
    BY <1>2, <1>3, <1>5, EventFacts DEF Old, New

\* An event that is done makes way for the next.
LEMMA EventDoneTypes ==
    ASSUME DataTypes, batch # <<>>, EventDone
    PROVE  /\ batch' \in Seq(Events)
           /\ \A k \in DOMAIN batch' : batch'[k].old # batch'[k].new
           /\ made' \in Meta
           /\ HandlerInv'
  BY BatchTypes, GotoTypes DEF EventDone

LEMMA ThrowTypes ==
    ASSUME DataTypes, Throw
    PROVE  /\ batch' \in Seq(Events)
           /\ \A k \in DOMAIN batch' : batch'[k].old # batch'[k].new
           /\ made' \in Meta
           /\ HandlerInv'
           /\ spoiled' \subseteq Ids
  <1>1. <<>> \in Seq(Events) /\ \A k \in DOMAIN <<>> : <<>>[k].old # <<>>[k].new
    BY EmptySeq, LenProperties
  <1>2. Goto(<<>>)
    BY DEF Throw
  <1>3. \A k \in DOMAIN batch : batch[k].id \in Ids
    BY ElementOfSeq, LenProperties, EventFacts DEF DataTypes
  <1> QED
    BY <1>1, <1>2, <1>3, GotoTypes DEF Throw, DataTypes

\* Users change what a record asks for, and leave its ARNs or drop them with it.
UserWrites(i, record) ==
    /\ record \in Records \cup {None}
    /\ record.spec # table[i].spec
    /\ record.meta = IF record = None \/ table[i] = None THEN NoMeta ELSE table[i].meta
    /\ Write(i, record)
    /\ UNCHANGED <<aws, dns, handlerVars, monitorVars, spoiled>>

LEMMA UserCases ==
    ASSUME TypeInv, User
    PROVE  \/ \E i \in Ids, record \in Records \cup {None} : UserWrites(i, record)
           \/ \E i \in Ids, ips \in Addresses : AddressesMove(i, ips)
  <1> DEFINE Writes == \E i \in Ids, record \in Records \cup {None} : UserWrites(i, record)
  <1>1. \A i \in Ids : table[i] \in Records \cup {None}
    BY DEF TypeInv, DataTypes
  <1>2. ASSUME NEW i \in Ids, UserDeletes(i) PROVE UserWrites(i, None)
    BY <1>1, <1>2, NoneFacts, RecordFacts DEF UserDeletes, UserWrites
  <1>3. ASSUME NEW i \in Ids, NEW spec \in Specs, UserInserts(i, spec)
        PROVE  UserWrites(i, Record(spec, NoMeta))
    BY <1>3, NoneFacts, RecordOf DEF UserInserts, UserWrites
  <1>4. ASSUME NEW i \in Ids, NEW spec \in Specs, UserEdits(i, spec)
        PROVE  UserWrites(i, Record(spec, table[i].meta))
    <2>1. table[i] \in Records \cup {None} /\ table[i].meta \in Meta
      BY <1>1, RecordFacts
    <2>2. Record(spec, table[i].meta) \in Records /\ Record(spec, table[i].meta) # None
      BY <2>1, NoneFacts, RecordOf
    <2> QED
      BY <1>4, <2>1, <2>2, RecordOf DEF UserEdits, UserWrites
  <1>5. \A i \in Ids : \A record : UserWrites(i, record) => Writes
    BY DEF UserWrites
  <1> HIDE DEF Writes
  <1>6. ASSUME NEW i \in Ids, UserDeletes(i) PROVE Writes
    BY <1>2, <1>5, <1>6
  <1>7. ASSUME NEW i \in Ids, NEW spec \in Specs, UserInserts(i, spec) \/ UserEdits(i, spec)
        PROVE  Writes
    BY <1>3, <1>4, <1>5, <1>7
  <1> QED
    BY <1>6, <1>7 DEF User, Writes

LEMMA UserTypes ==
    ASSUME TypeInv, User
    PROVE  TypeInv'
  <1>1. ASSUME NEW i \in Ids, NEW ips \in Addresses, AddressesMove(i, ips) PROVE TypeInv'
    BY <1>1 DEF AddressesMove, TypeInv, DataTypes, AwsTypes, HandlerInv, MonitorInv, aws,
                handlerVars, monitorVars, Old, New, Working
  <1>2. ASSUME NEW i \in Ids, NEW record \in Records \cup {None}, UserWrites(i, record)
        PROVE  TypeInv'
    <2>1. /\ table' \in [Ids -> Records \cup {None}]
          /\ stream' \in Seq(Events)
          /\ \A k \in DOMAIN stream' : stream'[k].old # stream'[k].new
      BY <1>2, WriteTypes DEF UserWrites, TypeInv
    <2> QED
      BY <1>2, <2>1 DEF UserWrites, TypeInv, DataTypes, AwsTypes, HandlerInv, MonitorInv, aws,
                        handlerVars, monitorVars, Old, New, Working
  <1> QED
    BY <1>1, <1>2, UserCases

-----------------------------------------------------------------------------
(* Types, the handler's steps *)

\* The monitor's part is the same.
LEMMA MonitorUnmoved ==
    ASSUME MonitorInv, UNCHANGED monitorVars
    PROVE  MonitorInv'
  BY DEF MonitorInv, monitorVars, Working

LEMMA TakeBatchTypes ==
    ASSUME TypeInv, NEW n \in 1..Len(stream), TakeBatch(n)
    PROVE  TypeInv'
  <1> DEFINE first == SubSeq(stream, 1, n)
             rest == SubSeq(stream, n + 1, Len(stream))
  <1>1. /\ stream \in Seq(Events) /\ Len(stream) \in Nat /\ DOMAIN stream = 1..Len(stream)
        /\ \A k \in 1..Len(stream) : stream[k] \in Events /\ stream[k].old # stream[k].new
    BY ElementOfSeq, LenProperties DEF TypeInv, DataTypes
  <1>2. /\ first \in Seq(Events) /\ Len(first) = n
        /\ \A k \in 1..n : first[k] = stream[k]
    <2>1. /\ first \in Seq(Events) /\ Len(first) = IF 1 <= n THEN n - 1 + 1 ELSE 0
          /\ \A k \in 1..(n - 1 + 1) : first[k] = stream[1 + k - 1]
      BY <1>1, SubSeqProperties
    <2> QED
      BY <1>1, <2>1
  <1>3. /\ rest \in Seq(Events) /\ Len(rest) = Len(stream) - n
        /\ \A k \in 1..(Len(stream) - n) : rest[k] = stream[k + n]
    <2>1. n \in 0..Len(stream) /\ rest = Drop(stream, n)
      BY <1>1 DEF Drop
    <2>2. /\ Drop(stream, n) \in Seq(Events) /\ Len(Drop(stream, n)) = Len(stream) - n
          /\ \A k \in 1..(Len(stream) - n) : Drop(stream, n)[k] = stream[k + n]
      BY <2>1, DropIs DEF TypeInv, DataTypes
    <2> HIDE DEF rest
    <2> QED
      BY <2>1, <2>2
  <1>4. DOMAIN first = 1..n /\ DOMAIN rest = 1..(Len(stream) - n)
    BY <1>2, <1>3, LenProperties
  <1>5. \A k \in DOMAIN first : first[k].old # first[k].new
    BY <1>1, <1>2, <1>4
  <1>6. \A k \in DOMAIN rest : rest[k].old # rest[k].new
    <2>1. \A k \in 1..(Len(stream) - n) : k + n \in 1..Len(stream)
      BY <1>1
    <2> HIDE DEF rest
    <2> QED
      BY <1>1, <1>3, <1>4, <2>1
  <1>7. Goto(first) /\ stream' = rest
    BY DEF TakeBatch
  <1> HIDE DEF first, rest
  <1>8. /\ batch' \in Seq(Events)
        /\ \A k \in DOMAIN batch' : batch'[k].old # batch'[k].new
        /\ made' \in Meta
        /\ HandlerInv'
    BY <1>2, <1>5, <1>7, GotoTypes
  <1>9. DataTypes'
    BY <1>3, <1>6, <1>7, <1>8 DEF TakeBatch, TypeInv, DataTypes, monitorVars, Working
  <1>10. AwsTypes' /\ MonitorInv'
    BY MonitorUnmoved DEF TakeBatch, TypeInv, AwsTypes, aws
  <1> QED
    BY <1>8, <1>9, <1>10 DEF TypeInv

LEMMA NothingChangedTypes ==
    ASSUME TypeInv, NothingChanged
    PROVE  TypeInv'
  <1>1. batch # <<>>
    BY DEF NothingChanged, TypeInv, HandlerInv
  <1>2. /\ batch' \in Seq(Events)
        /\ \A k \in DOMAIN batch' : batch'[k].old # batch'[k].new
        /\ made' \in Meta
        /\ HandlerInv'
    BY <1>1, EventDoneTypes DEF NothingChanged, TypeInv
  <1>3. DataTypes'
    BY <1>2 DEF NothingChanged, TypeInv, DataTypes, monitorVars, Working
  <1>4. AwsTypes' /\ MonitorInv'
    BY MonitorUnmoved DEF NothingChanged, TypeInv, AwsTypes, aws
  <1> QED
    BY <1>2, <1>3, <1>4 DEF TypeInv

LEMMA ModifyRuleTypes ==
    ASSUME TypeInv, ModifyRule
    PROVE  TypeInv'
  <1>1. batch # <<>> /\ New \in Records /\ New.spec \in Specs
    BY BatchTypes, RecordFacts DEF ModifyRule, TypeInv, HandlerInv
  <1>2. CASE Throw
    <2>1. /\ batch' \in Seq(Events)
          /\ \A k \in DOMAIN batch' : batch'[k].old # batch'[k].new
          /\ made' \in Meta
          /\ HandlerInv'
          /\ spoiled' \subseteq Ids
      BY <1>2, ThrowTypes DEF TypeInv
    <2>2. DataTypes'
      BY <1>2, <2>1 DEF ModifyRule, Throw, TypeInv, DataTypes, monitorVars, Working
    <2>3. AwsTypes' /\ MonitorInv'
      BY <1>2, MonitorUnmoved DEF ModifyRule, Throw, TypeInv, AwsTypes, aws
    <2> QED
      BY <2>1, <2>2, <2>3 DEF TypeInv
  <1>3. CASE ~Throw
    <2>1. /\ hpc' = "priority"
          /\ UNCHANGED <<table, stream, groups, arns, batch, made, spoiled, dns, monitorVars>>
          /\ \/ rules' = rules
             \/ /\ RuleWith(New.meta.rule) # {} /\ GroupWith(New.meta.group) # {}
                /\ rules' = (rules \ RuleWith(New.meta.rule)) \cup
                     {[arn |-> r.arn, condition |-> New.spec.condition, priority |-> r.priority,
                       group |-> New.meta.group] : r \in RuleWith(New.meta.rule)}
      BY <1>3 DEF ModifyRule, aws
    <2>2. DataTypes' /\ MonitorInv'
      BY <2>1, MonitorUnmoved DEF TypeInv, DataTypes, monitorVars, Working
    <2>3. HandlerInv'
      BY <2>1 DEF ModifyRule, TypeInv, HandlerInv, HandlerSteps, Old, New
    <2>4. AwsTypes'
      <3>1. CASE rules' = rules
        BY <2>1, <3>1 DEF TypeInv, AwsTypes
      <3>2. CASE rules' # rules
        <4>1. New.meta.group \in 1..arns
          BY <2>1, <3>2 DEF GroupWith, TypeInv, AwsTypes
        <4>2. /\ New.spec.condition \in {s.condition : s \in Specs}
              /\ New.spec.priority \in Nat \ {0}
          BY <1>1, AlbAssumption
        <4>3. \A r \in rules' : r \in [arn : 1..arns, condition : {s.condition : s \in Specs},
                                       priority : Nat \ {0}, group : 1..arns]
          BY <2>1, <3>2, <4>1, <4>2 DEF RuleWith, TypeInv, AwsTypes
        <4> QED
          BY <2>1, <4>3 DEF TypeInv, AwsTypes
      <3> QED
        BY <3>1, <3>2
    <2> QED
      BY <2>2, <2>3, <2>4 DEF TypeInv
  <1> QED
    BY <1>2, <1>3

LEMMA SetPriorityTypes ==
    ASSUME TypeInv, SetPriority
    PROVE  TypeInv'
  <1>1. batch # <<>> /\ New \in Records /\ New.spec \in Specs
    BY BatchTypes, RecordFacts DEF SetPriority, TypeInv, HandlerInv
  <1>2. MonitorInv'
    BY MonitorUnmoved DEF SetPriority, TypeInv
  <1>3. AwsTypes'
    <2>1. New.spec.priority \in Nat \ {0} /\ New.spec.condition \in {s.condition : s \in Specs}
      BY <1>1, AlbAssumption
    <2>2. /\ groups' = groups /\ arns' = arns
          /\ \/ rules' = rules
             \/ rules' = (rules \ RuleWith(New.meta.rule)) \cup
                   {[r EXCEPT !.priority = New.spec.priority] : r \in RuleWith(New.meta.rule)}
      BY DEF SetPriority, Throw, aws
    <2>3. \A r \in rules' : r \in [arn : 1..arns, condition : {s.condition : s \in Specs},
                                   priority : Nat \ {0}, group : 1..arns]
      BY <2>1, <2>2 DEF RuleWith, TypeInv, AwsTypes
    <2> QED
      BY <2>2, <2>3 DEF TypeInv, AwsTypes
  <1>4. CASE hpc' = "deleteRule" /\ UNCHANGED <<table, stream, arns, batch, made, spoiled>>
    <2>1. HandlerInv'
      BY <1>4 DEF SetPriority, TypeInv, HandlerInv, HandlerSteps, Old, New
    <2>2. DataTypes'
      BY <1>4 DEF SetPriority, TypeInv, DataTypes, monitorVars, Working
    <2> QED
      BY <1>2, <1>3, <2>1, <2>2 DEF TypeInv
  <1>5. CASE EventDone /\ UNCHANGED <<table, stream, spoiled>>
    <2>1. /\ batch' \in Seq(Events)
          /\ \A k \in DOMAIN batch' : batch'[k].old # batch'[k].new
          /\ made' \in Meta
          /\ HandlerInv'
      BY <1>1, <1>5, EventDoneTypes DEF TypeInv
    <2>2. DataTypes'
      BY <1>5, <2>1 DEF SetPriority, TypeInv, DataTypes, monitorVars, Working
    <2> QED
      BY <1>2, <1>3, <2>1, <2>2 DEF TypeInv
  <1>6. CASE Throw
    <2>1. /\ batch' \in Seq(Events)
          /\ \A k \in DOMAIN batch' : batch'[k].old # batch'[k].new
          /\ made' \in Meta
          /\ HandlerInv'
          /\ spoiled' \subseteq Ids
      BY <1>6, ThrowTypes DEF TypeInv
    <2>2. DataTypes'
      BY <1>6, <2>1 DEF SetPriority, Throw, TypeInv, DataTypes, monitorVars, Working
    <2> QED
      BY <1>2, <1>3, <2>1, <2>2 DEF TypeInv
  <1> QED
    BY <1>4, <1>5, <1>6 DEF SetPriority

LEMMA SpoiledByDeletion ==
    ASSUME TypeInv, batch # <<>>, DeletionFails
    PROVE  spoiled' \subseteq Ids
  <1>1. Head(batch).id \in Ids
    BY BatchTypes DEF TypeInv
  <1> QED
    BY <1>1 DEF DeletionFails, TypeInv, DataTypes

LEMMA DeleteRuleTypes ==
    ASSUME TypeInv, DeleteRule
    PROVE  TypeInv'
  <1>1. DataTypes'
    <2>1. spoiled' \subseteq Ids
      BY SpoiledByDeletion DEF DeleteRule, TypeInv, HandlerInv, DataTypes
    <2> QED
      BY <2>1 DEF DeleteRule, TypeInv, DataTypes, monitorVars, Working
  <1>2. AwsTypes'
    BY DEF DeleteRule, DeletionFails, TypeInv, AwsTypes
  <1>3. HandlerInv'
    BY DEF DeleteRule, TypeInv, HandlerInv, HandlerSteps, Old, New
  <1>4. MonitorInv'
    BY MonitorUnmoved DEF DeleteRule, TypeInv
  <1> QED
    BY <1>1, <1>2, <1>3, <1>4 DEF TypeInv

LEMMA DeleteGroupTypes ==
    ASSUME TypeInv, DeleteGroup
    PROVE  TypeInv'
  <1>1. batch # <<>>
    BY DEF DeleteGroup, TypeInv, HandlerInv
  <1>2. AwsTypes'
    BY DEF DeleteGroup, DeletionFails, TypeInv, AwsTypes
  <1>3. MonitorInv'
    BY MonitorUnmoved DEF DeleteGroup, TypeInv
  <1>s. spoiled' \subseteq Ids
    BY <1>1, SpoiledByDeletion DEF DeleteGroup, TypeInv, DataTypes
  <1>4. CASE New = None
    <2>1. /\ batch' \in Seq(Events)
          /\ \A k \in DOMAIN batch' : batch'[k].old # batch'[k].new
          /\ made' \in Meta
          /\ HandlerInv'
      BY <1>1, <1>4, EventDoneTypes DEF DeleteGroup, TypeInv
    <2>2. DataTypes'
      BY <1>s, <2>1 DEF DeleteGroup, TypeInv, DataTypes, monitorVars, Working
    <2> QED
      BY <1>2, <1>3, <2>1, <2>2 DEF TypeInv
  <1>5. CASE New # None
    <2>1. DataTypes'
      BY <1>s, <1>5 DEF DeleteGroup, TypeInv, DataTypes, monitorVars, Working
    <2>2. HandlerInv'
      BY <1>5 DEF DeleteGroup, TypeInv, HandlerInv, HandlerSteps, Old, New
    <2> QED
      BY <1>2, <1>3, <2>1, <2>2 DEF TypeInv
  <1> QED
    BY <1>4, <1>5

LEMMA CreateGroupTypes ==
    ASSUME TypeInv, CreateGroup
    PROVE  TypeInv'
  <1>1. /\ batch # <<>> /\ New \in Records /\ New.spec \in Specs /\ Head(batch).id \in Ids
        /\ arns \in Nat
    BY BatchTypes, RecordFacts DEF CreateGroup, TypeInv, HandlerInv, AwsTypes
  <1>2. MonitorInv'
    BY MonitorUnmoved DEF CreateGroup, TypeInv
  <1>3. CASE Throw
    <2>1. /\ batch' \in Seq(Events)
          /\ \A k \in DOMAIN batch' : batch'[k].old # batch'[k].new
          /\ made' \in Meta
          /\ HandlerInv'
          /\ spoiled' \subseteq Ids
      BY <1>3, ThrowTypes DEF TypeInv
    <2>2. DataTypes'
      BY <1>3, <2>1 DEF CreateGroup, Throw, TypeInv, DataTypes, monitorVars, Working
    <2>3. AwsTypes'
      BY <1>3 DEF Throw, TypeInv, AwsTypes, aws
    <2> QED
      BY <1>2, <2>1, <2>2, <2>3 DEF TypeInv
  <1>4. CASE ~Throw
    <2> DEFINE same == {g \in groups : g.id = Head(batch).id}
               new == [arn |-> arns + 1, id |-> Head(batch).id,
                       target |-> New.spec.target, ips |-> {}]
    <2>1. /\ hpc' = "createRule" /\ UNCHANGED <<rules, table, stream, batch, spoiled>>
          /\ \/ /\ groups' = groups \cup {new} /\ arns' = arns + 1
                /\ made' = [NoMeta EXCEPT !.group = arns + 1]
             \/ /\ groups' = groups /\ arns' = arns
                /\ \E g \in same : made' = [NoMeta EXCEPT !.group = g.arn]
      BY <1>4 DEF CreateGroup
    <2>2. made' \in Meta /\ made'.group \in 1..arns' /\ arns' \in Nat /\ arns <= arns'
      BY <1>1, <2>1 DEF NoMeta, Meta, TypeInv, AwsTypes
    <2>3. DataTypes'
      BY <2>1, <2>2 DEF CreateGroup, TypeInv, DataTypes, monitorVars, Working
    <2>4. AwsTypes'
      <3>1. new \in [arn : 1..(arns + 1), id : Ids, target : {s.target : s \in Specs},
                     ips : SUBSET UNION Addresses]
        BY <1>1
      <3> HIDE DEF new, same
      <3>2. 1..arns \subseteq 1..arns'
        BY <1>1, <2>2
      <3>3. \A g \in groups' : g \in [arn : 1..arns', id : Ids, target : {s.target : s \in Specs},
                                      ips : SUBSET UNION Addresses]
        BY <2>1, <3>1, <3>2 DEF TypeInv, AwsTypes
      <3>4. \A r \in rules' : r \in [arn : 1..arns', condition : {s.condition : s \in Specs},
                                     priority : Nat \ {0}, group : 1..arns']
        BY <2>1, <3>2 DEF TypeInv, AwsTypes
      <3> QED
        BY <2>2, <3>3, <3>4 DEF AwsTypes
    <2>5. HandlerInv'
      <3> HIDE DEF new, same
      <3> QED
        BY <2>1, <2>2 DEF CreateGroup, TypeInv, HandlerInv, HandlerSteps, Old, New
    <2> QED
      BY <1>2, <2>3, <2>4, <2>5 DEF TypeInv
  <1> QED
    BY <1>3, <1>4

LEMMA CreateRuleTypes ==
    ASSUME TypeInv, CreateRule
    PROVE  TypeInv'
  <1>1. /\ batch # <<>> /\ New \in Records /\ New.spec \in Specs /\ made.group \in 1..arns
        /\ arns \in Nat
    BY BatchTypes, RecordFacts DEF CreateRule, TypeInv, HandlerInv, AwsTypes
  <1>2. MonitorInv'
    BY MonitorUnmoved DEF CreateRule, TypeInv
  <1>3. made' \in Meta /\ made'.group = made.group /\ made'.rule = arns + 1
    <2>1. made \in Meta /\ made' = [made EXCEPT !.rule = arns + 1]
      BY DEF CreateRule, TypeInv, DataTypes
    <2> QED
      BY <1>1, <2>1 DEF Meta
  <1>4. DataTypes'
    BY <1>3 DEF CreateRule, TypeInv, DataTypes, monitorVars, Working
  <1>5. AwsTypes'
    <2>1. /\ New.spec.condition \in {s.condition : s \in Specs}
          /\ New.spec.priority \in Nat \ {0}
      BY <1>1, AlbAssumption
    <2>2. 1..arns \subseteq 1..(arns + 1) /\ arns + 1 \in 1..(arns + 1) /\ arns + 1 \in Nat
      BY <1>1
    <2>3. \A r \in rules' : r \in [arn : 1..(arns + 1), condition : {s.condition : s \in Specs},
                                   priority : Nat \ {0}, group : 1..(arns + 1)]
      BY <1>1, <2>1, <2>2 DEF CreateRule, TypeInv, AwsTypes
    <2>4. \A g \in groups' : g \in [arn : 1..(arns + 1), id : Ids,
                                    target : {s.target : s \in Specs},
                                    ips : SUBSET UNION Addresses]
      BY <2>2 DEF CreateRule, TypeInv, AwsTypes
    <2> QED
      BY <2>2, <2>3, <2>4 DEF CreateRule, AwsTypes
  <1>6. HandlerInv'
    BY <1>1, <1>3 DEF CreateRule, TypeInv, HandlerInv, HandlerSteps, Old, New
  <1> QED
    BY <1>2, <1>4, <1>5, <1>6 DEF TypeInv

LEMMA PutMetadataTypes ==
    ASSUME TypeInv, PutMetadata
    PROVE  TypeInv'
  <1>1. /\ batch # <<>> /\ New \in Records /\ New.spec \in Specs /\ Head(batch).id \in Ids
    BY BatchTypes, RecordFacts DEF PutMetadata, TypeInv, HandlerInv
  <1>2. MonitorInv' /\ AwsTypes'
    BY MonitorUnmoved DEF PutMetadata, TypeInv, AwsTypes, aws
  <1>3. Record(New.spec, made) \in Records
    BY <1>1, RecordOf DEF TypeInv, DataTypes
  <1>4. /\ table' \in [Ids -> Records \cup {None}]
        /\ stream' \in Seq(Events)
        /\ \A k \in DOMAIN stream' : stream'[k].old # stream'[k].new
    BY <1>1, <1>3, WriteTypes DEF PutMetadata, TypeInv
  <1>5. /\ batch' \in Seq(Events)
        /\ \A k \in DOMAIN batch' : batch'[k].old # batch'[k].new
        /\ made' \in Meta
        /\ HandlerInv'
    BY <1>1, EventDoneTypes DEF PutMetadata, TypeInv
  <1>6. DataTypes'
    BY <1>1, <1>4, <1>5 DEF PutMetadata, TypeInv, DataTypes, monitorVars, Working
  <1> QED
    BY <1>2, <1>5, <1>6 DEF TypeInv

LEMMA HandlerTimesOutTypes ==
    ASSUME TypeInv, HandlerTimesOut
    PROVE  TypeInv'
  <1>1. /\ batch' \in Seq(Events)
        /\ \A k \in DOMAIN batch' : batch'[k].old # batch'[k].new
        /\ made' \in Meta
        /\ HandlerInv'
        /\ spoiled' \subseteq Ids
    BY ThrowTypes DEF HandlerTimesOut, TypeInv
  <1>2. DataTypes'
    BY <1>1 DEF HandlerTimesOut, Throw, TypeInv, DataTypes, monitorVars, Working
  <1>3. AwsTypes' /\ MonitorInv'
    BY MonitorUnmoved DEF HandlerTimesOut, Throw, TypeInv, AwsTypes, aws
  <1> QED
    BY <1>1, <1>2, <1>3 DEF TypeInv

-----------------------------------------------------------------------------
(* Types, the monitor's steps *)

LEMMA HandlerUnmoved ==
    ASSUME HandlerInv, UNCHANGED <<handlerVars, arns>>
    PROVE  HandlerInv'
  BY DEF HandlerInv, handlerVars, Old, New

\* The monitor goes on with the records it has left.
LEMMA NextRecordTypes ==
    ASSUME NEW records, records \subseteq [id : Ids, record : Records],
           \A s, t \in records : s.id = t.id => s = t, NextRecord(records)
    PROVE  /\ scanned' \subseteq [id : Ids, record : Records]
           /\ item'.meta \in Meta
           /\ mpc' \in {"idle", "next"} /\ ~Working'
           /\ MonitorInv'
  BY NoneFacts DEF NextRecord, NoItem, MonitorInv, Working

LEMMA ScanTypes ==
    ASSUME TypeInv, Scan
    PROVE  TypeInv'
  <1> DEFINE records == {[id |-> i, record |-> table[i]] : i \in {i \in Ids : table[i] # None}}
  <1>1. records \subseteq [id : Ids, record : Records]
    BY DEF TypeInv, DataTypes
  <1>2. \A s, t \in records : s.id = t.id => s = t
    OBVIOUS
  <1>3. NextRecord(records)
    BY DEF Scan
  <1> HIDE DEF records
  <1>4. /\ scanned' \subseteq [id : Ids, record : Records]
        /\ item'.meta \in Meta
        /\ ~Working' /\ MonitorInv'
    BY <1>1, <1>2, <1>3, NextRecordTypes
  <1>5. DataTypes'
    BY <1>4 DEF Scan, TypeInv, DataTypes, handlerVars
  <1>6. AwsTypes' /\ HandlerInv'
    BY HandlerUnmoved DEF Scan, TypeInv, AwsTypes, aws
  <1> QED
    BY <1>4, <1>5, <1>6 DEF TypeInv

LEMMA LookupTypes ==
    ASSUME TypeInv, NEW s \in scanned, NEW ips \in SUBSET UNION Addresses, Lookup(s, ips)
    PROVE  TypeInv'
  <1>1. AwsTypes' /\ HandlerInv'
    BY HandlerUnmoved DEF Lookup, TypeInv, AwsTypes, aws
  <1>2. s.id \in Ids /\ s.record \in Records /\ s.record.meta \in Meta
    BY RecordFacts DEF TypeInv, DataTypes
  <1>3. /\ scanned \ {s} \subseteq [id : Ids, record : Records]
        /\ \A t, u \in scanned \ {s} : t.id = u.id => t = u
        /\ \A t \in scanned \ {s} : t.id # s.id
    BY DEF TypeInv, DataTypes, MonitorInv
  <1>4. CASE NextRecord(scanned \ {s})
    <2>1. /\ scanned' \subseteq [id : Ids, record : Records]
          /\ item'.meta \in Meta
          /\ ~Working' /\ MonitorInv'
      BY <1>3, <1>4, NextRecordTypes
    <2>2. DataTypes'
      BY <2>1 DEF Lookup, TypeInv, DataTypes, handlerVars
    <2> QED
      BY <1>1, <2>1, <2>2 DEF TypeInv
  <1>5. CASE ~NextRecord(scanned \ {s})
    <2>1. /\ mpc' = "register" /\ item' = LookedUp(s, ips) /\ scanned' = scanned \ {s}
          /\ s.record.meta = NoMeta => ips = {}
      BY <1>5 DEF Lookup
    <2>2. /\ item'.id = s.id /\ item'.read = s.record
          /\ item'.meta = [s.record.meta EXCEPT !.ips = ips]
          /\ item'.drop = s.record.meta.ips \ ips
      BY <2>1 DEF LookedUp
    <2>3. /\ item'.meta \in Meta /\ item'.meta.ips = ips
          /\ s.record.meta = NoMeta => item'.meta = NoMeta
      <3>1. item'.meta \in Meta /\ item'.meta.ips = ips
        BY <1>2, <2>2, MetaWithIps, SMTT(40)
      <3>2. s.record.meta = NoMeta => item'.meta = [NoMeta EXCEPT !.ips = {}]
        BY <2>1, <2>2
      <3>3. [NoMeta EXCEPT !.ips = {}] = NoMeta
        BY DEF NoMeta
      <3> QED
        BY <3>1, <3>2, <3>3
    <2>4. item' \in [id : Ids, read : Records, meta : Meta, drop : SUBSET UNION Addresses]
      <3>1. s.record.meta.ips \in SUBSET UNION Addresses
        BY <1>2 DEF Meta
      <3>2. item' = [id |-> s.id, read |-> s.record, drop |-> s.record.meta.ips \ ips,
                     meta |-> [s.record.meta EXCEPT !.ips = ips]]
        BY <2>1 DEF LookedUp
      <3> QED
        BY <1>2, <2>2, <2>3, <3>1, <3>2
    <2>5. DataTypes'
      BY <1>3, <2>1, <2>3, <2>4 DEF Lookup, TypeInv, DataTypes, handlerVars
    <2>6. MonitorInv'
      BY <1>3, <2>1, <2>2, <2>3 DEF MonitorInv, Working
    <2> QED
      BY <1>1, <2>5, <2>6 DEF TypeInv
  <1> QED
    BY <1>4, <1>5

\* Registering and deregistering change the addresses of groups at most.
LEMMA RegistrationTypes ==
    ASSUME TypeInv, Register \/ Deregister
    PROVE  TypeInv'
  <1>1. HandlerInv'
    BY HandlerUnmoved DEF Register, Deregister, TypeInv
  <1>2. Working /\ item.meta \in Meta /\ item.read \in Records /\ item.read.meta \in Meta
    BY RecordFacts DEF Register, Deregister, Working, TypeInv, DataTypes
  <1>3. AwsTypes'
    <2>1. item.meta.ips \subseteq UNION Addresses
      BY <1>2 DEF Meta
    <2>2. \A g \in groups' : g \in [arn : 1..arns, id : Ids, target : {s.target : s \in Specs},
                                    ips : SUBSET UNION Addresses]
      <3>1. CASE groups' = groups
        BY <3>1 DEF TypeInv, AwsTypes
      <3>2. CASE groups' # groups
        <4>1. PICK add \in SUBSET UNION Addresses, drop \in SUBSET UNION Addresses :
                 groups' = {IF g.arn = item.meta.group THEN [g EXCEPT !.ips = (@ \cup add) \ drop]
                            ELSE g : g \in groups}
          <5>1. CASE Register
            <6> DEFINE add == item.meta.ips \ item.read.meta.ips
            <6>1. groups' = {IF g.arn = item.meta.group THEN [g EXCEPT !.ips = (@ \cup add) \ {}]
                             ELSE g : g \in groups}
              BY <3>2, <5>1 DEF Register
            <6>2. add \in SUBSET UNION Addresses /\ {} \in SUBSET UNION Addresses
              BY <2>1
            <6> QED
              BY <6>1, <6>2
          <5>2. CASE Deregister
            <6>1. groups' = {IF g.arn = item.meta.group
                             THEN [g EXCEPT !.ips = (@ \cup {}) \ item.drop]
                             ELSE g : g \in groups}
              BY <3>2, <5>2 DEF Deregister
            <6>2. item.drop \in SUBSET UNION Addresses /\ {} \in SUBSET UNION Addresses
              BY <1>2 DEF TypeInv, DataTypes
            <6> QED
              BY <6>1, <6>2
          <5> QED
            BY <5>1, <5>2
        <4> QED
          BY <4>1 DEF TypeInv, AwsTypes
      <3> QED
        BY <3>1, <3>2
    <2> QED
      BY <2>2 DEF Register, Deregister, TypeInv, AwsTypes
  <1>4. CASE ItemDone
    <2>1. /\ scanned' \subseteq [id : Ids, record : Records]
          /\ item'.meta \in Meta
          /\ ~Working' /\ MonitorInv'
      BY <1>4, NextRecordTypes DEF ItemDone, TypeInv, DataTypes, MonitorInv
    <2>2. DataTypes'
      BY <2>1 DEF Register, Deregister, TypeInv, DataTypes, handlerVars
    <2> QED
      BY <1>1, <1>3, <2>1, <2>2 DEF TypeInv
  <1>5. CASE ~ItemDone
    <2>1. mpc' \in {"deregister", "put"} /\ UNCHANGED <<item, scanned>> /\ Working'
      BY <1>5 DEF Register, Deregister, Working
    <2>2. DataTypes'
      BY <1>2, <2>1 DEF Register, Deregister, TypeInv, DataTypes, handlerVars
    <2>3. MonitorInv'
      BY <1>2, <2>1 DEF TypeInv, MonitorInv
    <2> QED
      BY <1>1, <1>3, <2>2, <2>3 DEF TypeInv
  <1> QED
    BY <1>4, <1>5

LEMMA PutRecordTypes ==
    ASSUME TypeInv, PutRecord
    PROVE  TypeInv'
  <1>1. AwsTypes' /\ HandlerInv'
    BY HandlerUnmoved DEF PutRecord, TypeInv, AwsTypes, aws
  <1>2. /\ Working /\ item.id \in Ids /\ item.meta \in Meta /\ item.read \in Records
        /\ Record(item.read.spec, item.meta) \in Records
    BY RecordOf, RecordFacts, NoneFacts DEF PutRecord, Working, TypeInv, DataTypes
  <1>3. /\ table' \in [Ids -> Records \cup {None}]
        /\ stream' \in Seq(Events)
        /\ \A k \in DOMAIN stream' : stream'[k].old # stream'[k].new
    BY <1>2, WriteTypes DEF PutRecord, TypeInv
  <1>4. /\ scanned' \subseteq [id : Ids, record : Records]
        /\ item'.meta \in Meta
        /\ ~Working' /\ MonitorInv'
    BY NextRecordTypes DEF PutRecord, ItemDone, TypeInv, DataTypes, MonitorInv
  <1>5. DataTypes'
    BY <1>2, <1>3, <1>4 DEF PutRecord, TypeInv, DataTypes, handlerVars
  <1> QED
    BY <1>1, <1>4, <1>5 DEF TypeInv

LEMMA MonitorTimesOutTypes ==
    ASSUME TypeInv, MonitorTimesOut
    PROVE  TypeInv'
  <1>1. AwsTypes' /\ HandlerInv'
    BY HandlerUnmoved DEF MonitorTimesOut, TypeInv, AwsTypes, aws
  <1>2. /\ scanned' \subseteq [id : Ids, record : Records]
        /\ item'.meta \in Meta
        /\ ~Working' /\ MonitorInv'
    BY NextRecordTypes DEF MonitorTimesOut
  <1>3. mpc \in {"deregister", "put"} => item.id \in Ids
    BY DEF Working, TypeInv, DataTypes
  <1>4. DataTypes'
    BY <1>2, <1>3 DEF MonitorTimesOut, TypeInv, DataTypes, handlerVars
  <1> QED
    BY <1>1, <1>2, <1>4 DEF TypeInv

-----------------------------------------------------------------------------
LEMMA InitTypes == Init => TypeInv
  <1> SUFFICES ASSUME Init PROVE TypeInv
    OBVIOUS
  <1>1. <<>> \in Seq(Events) /\ DOMAIN <<>> = {}
    BY EmptySeq, LenProperties
  <1>2. DataTypes
    BY <1>1, NoneFacts, AlbAssumption DEF Init, DataTypes, NoItem, Working
  <1>3. AwsTypes /\ HandlerInv /\ MonitorInv
    BY NoneFacts DEF Init, AwsTypes, HandlerInv, MonitorInv, Working
  <1> QED
    BY <1>2, <1>3 DEF TypeInv

LEMMA NextTypes == TypeInv /\ [Next]_vars => TypeInv'
  <1> SUFFICES ASSUME TypeInv, [Next]_vars PROVE TypeInv'
    OBVIOUS
  <1>1. ASSUME Handler PROVE TypeInv'
    BY <1>1, TakeBatchTypes, NothingChangedTypes, ModifyRuleTypes, SetPriorityTypes,
       DeleteRuleTypes, DeleteGroupTypes, CreateGroupTypes, CreateRuleTypes, PutMetadataTypes
       DEF Handler
  <1>2. ASSUME NEW s \in scanned, Resolve(s) \/ ResolveFails(s) PROVE TypeInv'
    <2>1. dns[s.id] \in SUBSET UNION Addresses /\ {} \in SUBSET UNION Addresses
      BY DEF TypeInv, DataTypes
    <2> QED
      BY <1>2, <2>1, LookupTypes DEF Resolve, ResolveFails
  <1>3. ASSUME Monitor PROVE TypeInv'
    BY <1>2, <1>3, ScanTypes, RegistrationTypes, PutRecordTypes DEF Monitor
  <1>4. CASE UNCHANGED vars
    BY <1>4 DEF vars, aws, handlerVars, monitorVars, TypeInv, DataTypes, AwsTypes, HandlerInv,
                MonitorInv, Working, Old, New
  <1> QED
    BY <1>1, <1>2, <1>3, <1>4, UserTypes, HandlerTimesOutTypes, MonitorTimesOutTypes DEF Next

LEMMA TypeInvImplies == TypeInv => TypeOK
  <1> SUFFICES ASSUME TypeInv PROVE TypeOK
    OBVIOUS
  <1>1. ASSUME NEW q \in Seq(Events), NEW k \in DOMAIN q PROVE q[k].id \in Ids
    BY <1>1, ElementOfSeq, LenProperties, EventFacts
  <1> QED
    BY <1>1 DEF TypeInv, DataTypes, AwsTypes, HandlerInv, TypeOK

\* Every variable keeps its type: the table and its stream, what AWS holds and what both
\* functions have read.
THEOREM TypeCorrect == Spec => []TypeOK
  <1> QED
    BY InitTypes, NextTypes, TypeInvImplies, PTL DEF Spec

-----------------------------------------------------------------------------
(* What steps do to the queue: nothing, a write at its end, events gone from its head *)

\* The queue q once the record old of i is replaced.
After(q, i, old, new) ==
    IF new = old THEN q ELSE Append(q, [id |-> i, old |-> old, new |-> new])

LEMMA QueueFacts ==
    ASSUME DataTypes
    PROVE  /\ Queue \in Seq(Events) /\ Len(batch) \in 0..Len(Queue) /\ Len(Queue) \in Nat
           /\ \A k \in 1..Len(batch) : Queue[k] = batch[k]
           /\ DOMAIN batch = 1..Len(batch)
           /\ batch # <<>> => /\ Queue # <<>> /\ Queue[1] = Head(batch)
                              /\ 1 \in 1..Len(batch) /\ 1 \in 0..Len(Queue)
           /\ batch = <<>> => Queue = stream /\ Len(batch) = 0
  <1>1. /\ batch \in Seq(Events) /\ stream \in Seq(Events) /\ DOMAIN batch = 1..Len(batch)
        /\ Len(batch) \in Nat /\ Len(stream) \in Nat
    BY LenProperties DEF DataTypes
  <1>2. /\ Queue \in Seq(Events) /\ Len(Queue) = Len(batch) + Len(stream)
        /\ \A k \in 1..(Len(batch) + Len(stream)) :
              Queue[k] = IF k <= Len(batch) THEN batch[k] ELSE stream[k - Len(batch)]
    BY <1>1, ConcatProperties DEF Queue
  <1>3. \A k \in 1..Len(batch) : Queue[k] = batch[k]
    BY <1>1, <1>2
  <1>4. CASE batch # <<>>
    <2>1. Len(batch) \in Nat \ {0} /\ Head(batch) = batch[1]
      BY <1>1, <1>4, EmptySeq
    <2>2. Len(Queue) # 0
      BY <1>1, <1>2, <2>1
    <2> QED
      BY <1>1, <1>2, <1>3, <1>4, <2>1, <2>2, EmptySeq
  <1>5. CASE batch = <<>>
    BY <1>1, <1>2, <1>3, <1>5, ConcatEmptySeq, EmptySeq DEF Queue
  <1> QED
    BY <1>4, <1>5

LEMMA EventOf ==
    ASSUME NEW i \in Ids, NEW old \in Records \cup {None}, NEW new \in Records \cup {None}
    PROVE  [id |-> i, old |-> old, new |-> new] \in Events
  BY DEF Events

LEMMA ConcatAppend ==
    ASSUME NEW b \in Seq(Events), NEW s \in Seq(Events), NEW e \in Events
    PROVE  b \o Append(s, e) = Append(b \o s, e)
  <1>1. b \o s \in Seq(Events) /\ <<e>> \in Seq(Events)
    BY ConcatProperties
  <1>2. Append(s, e) = s \o <<e>> /\ Append(b \o s, e) = (b \o s) \o <<e>>
    BY <1>1, AppendIsConcat
  <1>3. b \o (s \o <<e>>) = (b \o s) \o <<e>>
    BY <1>1, ConcatAssociative
  <1> QED
    BY <1>2, <1>3

LEMMA QueueWrite ==
    ASSUME DataTypes, NEW i \in Ids, NEW record \in Records \cup {None}, Write(i, record),
           batch' = batch
    PROVE  Queue' = After(Queue, i, table[i], record)
  <1>1. stream' = After(stream, i, table[i], record)
    BY DEF Write, After
  <1>2. PICK b \in Seq(Events), s \in Seq(Events), old \in Records \cup {None} :
            b = batch /\ s = stream /\ old = table[i]
    BY DEF DataTypes
  <1>3. PICK e \in Events : e = [id |-> i, old |-> old, new |-> record]
    BY EventOf
  <1>4. b \o After(s, i, old, record) = After(b \o s, i, old, record)
    BY <1>3, ConcatAppend DEF After
  <1> QED
    BY <1>1, <1>2, <1>4 DEF Queue

\* Without its first n events a batch is followed by the same stream.
LEMMA QueueRest ==
    ASSUME NEW b \in Seq(Events), NEW s \in Seq(Events), NEW p \in Seq(Events),
           NEW n \in 0..Len(b), Len(p) = Len(b) - n,
           \A k \in 1..Len(p) : p[k] = b[k + n]
    PROVE  p \o s = Drop(b \o s, n)
  <1>1. Len(b) \in Nat /\ Len(s) \in Nat
    BY LenProperties
  <1>2. /\ b \o s \in Seq(Events) /\ Len(b \o s) = Len(b) + Len(s)
        /\ \A k \in 1..(Len(b) + Len(s)) :
              (b \o s)[k] = IF k <= Len(b) THEN b[k] ELSE s[k - Len(b)]
    BY ConcatProperties
  <1>3. /\ p \o s \in Seq(Events) /\ Len(p \o s) = Len(p) + Len(s)
        /\ \A k \in 1..(Len(p) + Len(s)) :
              (p \o s)[k] = IF k <= Len(p) THEN p[k] ELSE s[k - Len(p)]
    BY ConcatProperties
  <1>4. n \in 0..Len(b \o s)
    BY <1>1, <1>2
  <1>5. /\ Drop(b \o s, n) \in Seq(Events) /\ Len(Drop(b \o s, n)) = Len(b \o s) - n
        /\ \A k \in 1..(Len(b \o s) - n) : Drop(b \o s, n)[k] = (b \o s)[k + n]
    BY <1>2, <1>4, DropIs
  <1>6. Len(p \o s) = Len(Drop(b \o s, n))
    <2> DEFINE t == b \o s
               d == Drop(t, n)
               u == p \o s
    <2>1. Len(u) = Len(p) + Len(s) /\ Len(d) = Len(t) - n /\ Len(t) = Len(b) + Len(s)
      BY <1>2, <1>3, <1>5
    <2> HIDE DEF t, d, u
    <2>2. Len(u) = Len(d)
      BY <1>1, <2>1
    <2> QED
      BY <2>2 DEF t, d, u
  <1>7. ASSUME NEW k \in 1..Len(p \o s) PROVE (p \o s)[k] = Drop(b \o s, n)[k]
    <2>1. k \in 1..(Len(b) - n + Len(s)) /\ k + n \in 1..(Len(b) + Len(s))
      BY <1>1, <1>3, <1>7
    <2>2. Drop(b \o s, n)[k] = IF k + n <= Len(b) THEN b[k + n] ELSE s[k + n - Len(b)]
      BY <1>1, <1>2, <1>5, <2>1
    <2>3. (p \o s)[k] = IF k <= Len(b) - n THEN p[k] ELSE s[k - (Len(b) - n)]
      BY <1>1, <1>3, <2>1
    <2>4. CASE k <= Len(b) - n
      BY <1>1, <2>1, <2>2, <2>3, <2>4
    <2>5. CASE ~(k <= Len(b) - n)
      BY <1>1, <2>1, <2>2, <2>3, <2>5
    <2> QED
      BY <2>4, <2>5
  <1> QED
    BY <1>3, <1>5, <1>6, <1>7, SeqEqual

LEMMA QueueDone ==
    ASSUME DataTypes, batch # <<>>
    PROVE  Tail(batch) \o stream = Drop(Queue, 1)
  <1>1. batch \in Seq(Events) /\ stream \in Seq(Events) /\ Len(batch) \in Nat \ {0}
    BY EmptySeq DEF DataTypes
  <1>2. /\ Tail(batch) \in Seq(Events) /\ Len(Tail(batch)) = Len(batch) - 1
        /\ \A k \in 1..Len(Tail(batch)) : Tail(batch)[k] = batch[k + 1]
    BY <1>1, HeadTailProperties
  <1>3. 1 \in 0..Len(batch)
    BY <1>1
  <1> DEFINE rest == Tail(batch)
  <1>4. rest \in Seq(Events) /\ Len(rest) = Len(batch) - 1
        /\ \A k \in 1..Len(rest) : rest[k] = batch[k + 1]
    BY <1>2
  <1> HIDE DEF rest
  <1>5. rest \o stream = Drop(batch \o stream, 1)
    BY <1>1, <1>3, <1>4, QueueRest, ZenonT(60)
  <1> QED
    BY <1>5 DEF Queue, rest

LEMMA QueueThrow ==
    ASSUME DataTypes
    PROVE  <<>> \o stream = Drop(Queue, Len(batch))
  <1>1. batch \in Seq(Events) /\ stream \in Seq(Events) /\ Len(batch) \in Nat
        /\ <<>> \in Seq(Events) /\ Len(<<>>) = 0
    BY EmptySeq, LenProperties DEF DataTypes
  <1>2. Len(batch) \in 0..Len(batch) /\ Len(<<>>) = Len(batch) - Len(batch)
        /\ \A k \in 1..Len(<<>>) : <<>>[k] = batch[k + Len(batch)]
    BY <1>1
  <1>3. <<>> \o stream = Drop(batch \o stream, Len(batch))
    BY <1>1, <1>2, QueueRest, ZenonT(60)
  <1> QED
    BY <1>3 DEF Queue

LEMMA QueueTake ==
    ASSUME DataTypes, batch = <<>>, NEW n \in 1..Len(stream)
    PROVE  SubSeq(stream, 1, n) \o SubSeq(stream, n + 1, Len(stream)) = Queue
  <1>1. stream \in Seq(Events) /\ Len(stream) \in Nat
    BY LenProperties DEF DataTypes
  <1>2. 1 \in 1..(Len(stream) + 1) /\ n \in (1 - 1)..Len(stream) /\ Len(stream) \in n..Len(stream)
    BY <1>1
  <1>3. SubSeq(stream, 1, n) \o SubSeq(stream, n + 1, Len(stream)) = SubSeq(stream, 1, Len(stream))
    BY <1>1, <1>2, ConcatAdjacentSubSeq
  <1>4. SubSeq(stream, 1, Len(stream)) = stream
    BY <1>1, SubSeqFull
  <1>5. Queue = stream
    BY QueueFacts
  <1> QED
    BY <1>3, <1>4, <1>5, Zenon

-----------------------------------------------------------------------------
(* The chain of events *)

LEMMA AfterFacts ==
    ASSUME NEW q \in Seq(Events), NEW i \in Ids,
           NEW old \in Records \cup {None}, NEW new \in Records \cup {None}
    PROVE  /\ After(q, i, old, new) \in Seq(Events)
           /\ Len(After(q, i, old, new)) \in {Len(q), Len(q) + 1}
           /\ \A k \in 1..Len(q) : After(q, i, old, new)[k] = q[k]
           /\ \A k \in 1..Len(After(q, i, old, new)) :
                 k \in 1..Len(q) \/ After(q, i, old, new)[k] = [id |-> i, old |-> old, new |-> new]
  <1>1. CASE new = old
    BY <1>1 DEF After
  <1>2. CASE new # old
    <2> DEFINE e == [id |-> i, old |-> old, new |-> new]
    <2>1. e \in Events
      BY EventOf
    <2> HIDE DEF e
    <2>2. /\ Append(q, e) \in Seq(Events) /\ Len(Append(q, e)) = Len(q) + 1
          /\ \A k \in 1..Len(q) : Append(q, e)[k] = q[k]
          /\ Append(q, e)[Len(q) + 1] = e
          /\ Len(q) \in Nat
      BY <2>1, AppendProperties, LenProperties
    <2>3. \A k \in 1..(Len(q) + 1) : k \in 1..Len(q) \/ k = Len(q) + 1
      BY <2>2
    <2> QED
      BY <1>2, <2>2, <2>3 DEF After, e
  <1> QED
    BY <1>1, <1>2

LEMMA AfterChain ==
    ASSUME NEW q \in Seq(Events), NEW i \in Ids, NEW j \in Ids, NEW record,
           NEW old \in Records \cup {None}, NEW new \in Records \cup {None},
           Chain(q, record, j), LastChange(q, record, j), i = j => record = old
    PROVE  /\ Chain(After(q, i, old, new), IF i = j THEN new ELSE record, j)
           /\ LastChange(After(q, i, old, new), IF i = j THEN new ELSE record, j)
  <1>1. CASE new = old
    BY <1>1 DEF After
  <1>2. CASE new # old
    <2> DEFINE e == [id |-> i, old |-> old, new |-> new]
    <2>1. e \in Events /\ e.id = i /\ e.old = old /\ e.new = new
      BY EventOf
    <2> HIDE DEF e
    <2>2. CASE i = j
      <3>1. Chain(Append(q, e), e.new, j) /\ LastChange(Append(q, e), e.new, j)
        BY <2>1, <2>2, ChainAppend, LastChangeAppend
      <3> QED
        BY <1>2, <2>1, <2>2, <3>1 DEF After, e
    <2>3. CASE i # j
      <3>1. Chain(Append(q, e), record, j) /\ LastChange(Append(q, e), record, j)
        BY <2>1, <2>3, ChainAppendOther, LastChangeAppendOther
      <3> QED
        BY <1>2, <2>3, <3>1 DEF After, e
    <2> QED
      BY <2>2, <2>3
  <1> QED
    BY <1>1, <1>2

\* Where the ARNs of a record that is written come from.
Source(i, meta) ==
    \/ meta = NoMeta
    \/ meta = table[i].meta
    \/ Working /\ item.id = i /\ meta = item.meta
    \/ hpc = "put" /\ PutMetadata /\ i = Head(batch).id /\ meta = made

\* What a step does to the table and the queue of events.
QueueStep ==
    \/ table' = table /\ \E n \in 0..Len(Queue) : Queue' = Drop(Queue, n)
    \/ \E i \in Ids, new \in Records \cup {None}, n \in 0..Len(Queue) :
         /\ table' = [table EXCEPT ![i] = new]
         /\ Queue' = After(Drop(Queue, n), i, table[i], new)
         /\ Source(i, new.meta)

LEMMA DropNone ==
    ASSUME DataTypes
    PROVE  Drop(Queue, 0) = Queue /\ 0 \in 0..Len(Queue)
  <1>1. Queue \in Seq(Events) /\ Len(Queue) \in Nat
    BY QueueFacts
  <1>2. SubSeq(Queue, 1, Len(Queue)) = Queue
    BY <1>1, SubSeqFull
  <1> QED
    BY <1>1, <1>2 DEF Drop

\* The record of the event at hand is written, and the event is done.
LEMMA PutQueue ==
    ASSUME TypeInv, PutMetadata
    PROVE  /\ batch # <<>> /\ Head(batch).id \in Ids /\ Record(New.spec, made) \in Records
           /\ 1 \in 0..Len(Queue)
           /\ table' = [table EXCEPT ![Head(batch).id] = Record(New.spec, made)]
           /\ Queue' = After(Drop(Queue, 1), Head(batch).id, table[Head(batch).id],
                             Record(New.spec, made))
  <1>1. DataTypes
    BY DEF TypeInv
  <1> DEFINE i == Head(batch).id
             record == Record(New.spec, made)
  <1>2. batch # <<>> /\ i \in Ids /\ record \in Records
    BY BatchTypes, RecordFacts, RecordOf DEF PutMetadata, TypeInv, HandlerInv, DataTypes
  <1>3. /\ batch' = Tail(batch) /\ stream' = After(stream, i, table[i], record)
        /\ table' = [table EXCEPT ![i] = record]
    BY DEF PutMetadata, Write, EventDone, Goto, After
  <1>4. Tail(batch) \in Seq(Events) /\ stream \in Seq(Events) /\ table[i] \in Records \cup {None}
    BY <1>1, <1>2, BatchTypes DEF DataTypes
  <1> DEFINE rest == Tail(batch)
             old == table[i]
  <1> HIDE DEF i, record, rest, old
  <1>5. rest \o After(stream, i, old, record) = After(rest \o stream, i, old, record)
    <2>1. rest \in Seq(Events) /\ stream \in Seq(Events) /\ old \in Records \cup {None}
      BY <1>4 DEF rest, old
    <2>2. i \in Ids /\ record \in Records \cup {None}
      BY <1>2
    <2>3. PICK e \in Events : e = [id |-> i, old |-> old, new |-> record]
      BY <2>1, <2>2, EventOf
    <2> QED
      BY <2>1, <2>3, ConcatAppend DEF After
  <1>6. Tail(batch) \o stream = Drop(Queue, 1) /\ 1 \in 0..Len(Queue)
    BY <1>1, <1>2, QueueDone, QueueFacts
  <1>7. Queue' = After(Drop(Queue, 1), i, table[i], record)
    BY <1>3, <1>5, <1>6 DEF Queue, rest, old
  <1> QED
    BY <1>2, <1>3, <1>6, <1>7 DEF i, record

LEMMA QueueSteps ==
    ASSUME TypeInv, [Next]_vars
    PROVE  QueueStep
  <1>1. DataTypes /\ Drop(Queue, 0) = Queue /\ 0 \in 0..Len(Queue)
    BY DropNone DEF TypeInv
  <1>2. CASE UNCHANGED <<table, stream, batch>>
    <2>1. Queue' = Queue
      BY <1>2 DEF Queue
    <2> QED
      BY <1>1, <1>2, <2>1 DEF QueueStep
  <1>3. ASSUME NEW i \in Ids, NEW record \in Records \cup {None}, Write(i, record), batch' = batch,
               Source(i, record.meta)
        PROVE  QueueStep
    <2>1. Queue' = After(Drop(Queue, 0), i, table[i], record)
      BY <1>1, <1>3, QueueWrite
    <2> QED
      BY <1>1, <1>3, <2>1 DEF QueueStep, Write
  <1>4. ASSUME User PROVE QueueStep
    <2>1. ASSUME NEW i \in Ids, NEW ips \in Addresses, AddressesMove(i, ips) PROVE QueueStep
      BY <1>2, <2>1 DEF AddressesMove, handlerVars
    <2>2. ASSUME NEW i \in Ids, NEW record \in Records \cup {None}, UserWrites(i, record)
          PROVE  QueueStep
      BY <1>3, <2>2 DEF UserWrites, handlerVars, Source
    <2> QED
      BY <1>4, <2>1, <2>2, UserCases
  <1>5. ASSUME batch # <<>>, EventDone, UNCHANGED <<table, stream>> PROVE QueueStep
    <2>1. Queue' = Drop(Queue, 1) /\ 1 \in 0..Len(Queue)
      BY <1>1, <1>5, QueueDone, QueueFacts DEF Queue, EventDone, Goto
    <2> QED
      BY <1>5, <2>1 DEF QueueStep
  <1>6. ASSUME Throw PROVE QueueStep
    <2>1. Queue' = Drop(Queue, Len(batch)) /\ Len(batch) \in 0..Len(Queue) /\ table' = table
      BY <1>1, <1>6, QueueThrow, QueueFacts DEF Queue, Throw, Goto
    <2> QED
      BY <2>1 DEF QueueStep
  <1>7. ASSUME NEW n \in 1..Len(stream), TakeBatch(n) PROVE QueueStep
    <2>1. batch = <<>>
      BY <1>7 DEF TakeBatch, TypeInv, HandlerInv
    <2>2. SubSeq(stream, 1, n) \o SubSeq(stream, n + 1, Len(stream)) = Queue
      BY <1>1, <2>1, QueueTake
    <2>3. Queue' = Queue /\ table' = table
      BY <1>7, <2>2 DEF Queue, TakeBatch, Goto
    <2> QED
      BY <1>1, <2>3 DEF QueueStep
  <1>8. ASSUME PutMetadata PROVE QueueStep
    <2> DEFINE i == Head(batch).id
               record == Record(New.spec, made)
    <2>1. Source(i, record.meta)
      BY <1>8, RecordOf DEF Source, PutMetadata
    <2>2. /\ i \in Ids /\ record \in Records \cup {None} /\ 1 \in 0..Len(Queue)
          /\ table' = [table EXCEPT ![i] = record]
          /\ Queue' = After(Drop(Queue, 1), i, table[i], record)
      BY <1>8, PutQueue
    <2> HIDE DEF i, record
    <2> QED
      BY <2>1, <2>2 DEF QueueStep
  <1>9. ASSUME Handler PROVE QueueStep
    <2>1. CASE UNCHANGED <<table, stream, batch>>
      BY <1>2, <2>1
    <2>2. CASE EventDone /\ UNCHANGED <<table, stream>> /\ hpc # "idle"
      BY <1>5, <2>2 DEF TypeInv, HandlerInv
    <2>3. CASE Throw
      BY <1>6, <2>3
    <2>4. CASE \E n \in 1..Len(stream) : TakeBatch(n)
      BY <1>7, <2>4
    <2>5. CASE PutMetadata
      BY <1>8, <2>5
    <2>6. NothingChanged => EventDone /\ UNCHANGED <<table, stream>> /\ hpc # "idle"
      BY DEF NothingChanged
    <2>7. ModifyRule => Throw \/ UNCHANGED <<table, stream, batch>>
      BY DEF ModifyRule
    <2>8. CASE SetPriority
      BY <2>1, <2>2, <2>3, <2>8 DEF SetPriority
    <2>9. DeleteRule \/ CreateRule => UNCHANGED <<table, stream, batch>>
      BY DEF DeleteRule, CreateRule
    <2>10. DeleteGroup => \/ UNCHANGED <<table, stream, batch>>
                          \/ EventDone /\ UNCHANGED <<table, stream>> /\ hpc # "idle"
      BY DEF DeleteGroup
    <2>11. CreateGroup => Throw \/ UNCHANGED <<table, stream, batch>>
      BY DEF CreateGroup
    <2> QED
      BY <1>9, <2>1, <2>2, <2>3, <2>4, <2>5, <2>6, <2>7, <2>8, <2>9, <2>10, <2>11 DEF Handler
  <1>10. ASSUME PutRecord PROVE QueueStep
    <2>1. item.id \in Ids /\ Record(item.read.spec, item.meta) \in Records \cup {None}
      BY <1>10, RecordOf, RecordFacts, NoneFacts DEF PutRecord, Working, TypeInv, DataTypes
    <2>2. Source(item.id, Record(item.read.spec, item.meta).meta)
      BY <1>10, RecordOf DEF PutRecord, Working, Source
    <2> QED
      BY <1>3, <1>10, <2>1, <2>2 DEF PutRecord, handlerVars
  <1>11. ASSUME Monitor PROVE QueueStep
    BY <1>2, <1>10, <1>11
       DEF Monitor, Scan, Resolve, Lookup, Register, Deregister, handlerVars
  <1>12. ASSUME HandlerTimesOut \/ MonitorTimesOut \/ \E s \in scanned : ResolveFails(s)
         PROVE  QueueStep
    BY <1>2, <1>6, <1>12 DEF HandlerTimesOut, MonitorTimesOut, ResolveFails, Lookup, handlerVars
  <1>13. CASE UNCHANGED vars
    BY <1>2, <1>13 DEF vars, handlerVars
  <1> QED
    BY <1>4, <1>9, <1>11, <1>12, <1>13 DEF Next

LEMMA NextChain == TypeInv /\ ChainInv /\ [Next]_vars => ChainInv'
  <1> SUFFICES ASSUME TypeInv, ChainInv, [Next]_vars, NEW j \in Ids
               PROVE  Chain(Queue, table[j], j)' /\ LastChange(Queue, table[j], j)'
    BY DEF ChainInv
  <1>1. Chain(Queue, table[j], j) /\ LastChange(Queue, table[j], j)
    BY DEF ChainInv
  <1>2. Queue \in Seq(Events) /\ table \in [Ids -> Records \cup {None}]
    BY QueueFacts DEF TypeInv, DataTypes
  <1>3. ASSUME NEW n \in 0..Len(Queue)
        PROVE  /\ Drop(Queue, n) \in Seq(Events)
               /\ Chain(Drop(Queue, n), table[j], j) /\ LastChange(Drop(Queue, n), table[j], j)
    BY <1>1, <1>2, DropIs, ChainDrop, LastChangeDrop
  <1>4. CASE table' = table /\ \E n \in 0..Len(Queue) : Queue' = Drop(Queue, n)
    BY <1>3, <1>4
  <1>5. ASSUME NEW i \in Ids, NEW new \in Records \cup {None}, NEW n \in 0..Len(Queue),
               table' = [table EXCEPT ![i] = new],
               Queue' = After(Drop(Queue, n), i, table[i], new)
        PROVE  Chain(Queue, table[j], j)' /\ LastChange(Queue, table[j], j)'
    <2>1. table'[j] = (IF i = j THEN new ELSE table[j]) /\ table[i] \in Records \cup {None}
      BY <1>2, <1>5
    <2> QED
      BY <1>3, <1>5, <2>1, AfterChain
  <1> QED
    BY <1>4, <1>5, QueueSteps DEF QueueStep

-----------------------------------------------------------------------------
(***************************************************************************)
(* Who owns what in AWS.  ARNs are never given twice, and those that any   *)
(* record of an id names are, as long as they exist, of its own group and  *)
(* of rules that forward to it.                                            *)
(***************************************************************************)
GroupsOf(i) == {g \in groups : g.id = i}
RulesOf(i) == {r \in rules : \E g \in groups : g.id = i /\ g.arn = r.group}

\* What records of i say of it anywhere: in the table, in events, in what the monitor read.
Metas(i) ==
    {table[i].meta}
      \cup {Queue[k].old.meta : k \in EventsOf(Queue, i)}
      \cup {Queue[k].new.meta : k \in EventsOf(Queue, i)}
      \cup {s.record.meta : s \in {s \in scanned : s.id = i}}
      \cup (IF Working /\ item.id = i THEN {item.read.meta, item.meta} ELSE {})

Names(i, meta) == meta \in Metas(i)

Owns(i, meta) ==
    /\ meta.group \in 0..arns /\ meta.rule \in 0..arns
    /\ \A g \in groups : g.arn = meta.group => g.id = i
    /\ \A r \in rules : r.arn = meta.rule => r \in RulesOf(i)

ArnsUnique ==
    /\ \A g, h \in groups : g.arn = h.arn => g = h
    /\ \A r, s \in rules : r.arn = s.arn => r = s
    /\ \A r \in rules : \E g \in groups : g.arn = r.group

MadeInv ==
    /\ hpc \in {"createRule", "put"} =>
         /\ made.ips = {}
         /\ \E g \in groups : g.arn = made.group /\ g.id = Head(batch).id
    /\ hpc = "put" => \E r \in rules : r.arn = made.rule /\ r.group = made.group

OwnerInv ==
    /\ ArnsUnique
    /\ MadeInv
    /\ \A i \in Ids : \A meta \in Metas(i) :
         Owns(i, meta) /\ (meta.group = 0 \/ meta.rule = 0 => meta = NoMeta)

\* What the monitor has read is in the table, and what it has at hand it has read.
ScannedNow == \A s \in scanned' : s \in scanned \/ (s.id \in Ids /\ s.record = table[s.id])

ItemNow ==
    Working' =>
        \/ Working /\ item' = item
        \/ \E s \in scanned :
             /\ item'.id = s.id /\ item'.read = s.record
             /\ item'.meta = [s.record.meta EXCEPT !.ips = item'.meta.ips]
             /\ s.record.meta = NoMeta => item'.meta = NoMeta

LEMMA NextRecordNow ==
    ASSUME NEW records, NextRecord(records),
           \A s \in records : s \in scanned \/ (s.id \in Ids /\ s.record = table[s.id])
    PROVE  ScannedNow /\ ItemNow
  BY DEF NextRecord, Working, ScannedNow, ItemNow

LEMMA LookupNow ==
    ASSUME TypeInv, NEW s \in scanned, NEW ips \in SUBSET UNION Addresses, Lookup(s, ips)
    PROVE  ScannedNow /\ ItemNow
  <1>1. CASE NextRecord(scanned \ {s})
    <2>1. \A x \in scanned \ {s} : x \in scanned \/ (x.id \in Ids /\ x.record = table[x.id])
      OBVIOUS
    <2> QED
      BY <1>1, <2>1, NextRecordNow
  <1>2. CASE ~NextRecord(scanned \ {s})
    <2>1. /\ item' = LookedUp(s, ips) /\ scanned' = scanned \ {s}
          /\ s.record.meta = NoMeta => ips = {}
      BY <1>2 DEF Lookup
    <2>2. /\ item'.id = s.id /\ item'.read = s.record
          /\ item'.meta = [s.record.meta EXCEPT !.ips = ips]
      BY <2>1 DEF LookedUp
    <2>3. s.record.meta \in Meta
      BY RecordFacts DEF TypeInv, DataTypes
    <2>4. item'.meta.ips = ips
      BY <2>2, <2>3, MetaWithIps
    <2>5. s.record.meta = NoMeta => item'.meta = [NoMeta EXCEPT !.ips = {}]
      BY <2>1, <2>2
    <2>6. [NoMeta EXCEPT !.ips = {}] = NoMeta
      BY DEF NoMeta
    <2> QED
      BY <2>1, <2>2, <2>4, <2>5, <2>6 DEF ScannedNow, ItemNow
  <1> QED
    BY <1>1, <1>2

LEMMA MonitorSteps ==
    ASSUME TypeInv, [Next]_vars
    PROVE  ScannedNow /\ ItemNow
  <1>1. CASE UNCHANGED monitorVars
    BY <1>1 DEF monitorVars, Working, ScannedNow, ItemNow
  <1>2. CASE Scan
    <2> DEFINE records == {[id |-> j, record |-> table[j]] : j \in {j \in Ids : table[j] # None}}
    <2>1. \A s \in records : s \in scanned \/ (s.id \in Ids /\ s.record = table[s.id])
      OBVIOUS
    <2>2. NextRecord(records)
      BY <1>2 DEF Scan
    <2> HIDE DEF records
    <2> QED
      BY <2>1, <2>2, NextRecordNow
  <1>3. CASE \E s \in scanned : Resolve(s) \/ ResolveFails(s)
    <2>1. PICK s \in scanned : Lookup(s, dns[s.id]) \/ Lookup(s, {})
      BY <1>3 DEF Resolve, ResolveFails
    <2>2. s.id \in Ids /\ dns \in [Ids -> Addresses]
      BY DEF TypeInv, DataTypes
    <2>3. dns[s.id] \in SUBSET UNION Addresses /\ {} \in SUBSET UNION Addresses
      BY <2>2
    <2> QED
      BY <2>1, <2>3, LookupNow
  <1>4. CASE Register \/ Deregister \/ PutRecord
    <2>1. CASE ItemDone
      <3>1. NextRecord(scanned)
        BY <2>1 DEF ItemDone
      <3>2. \A s \in scanned : s \in scanned \/ (s.id \in Ids /\ s.record = table[s.id])
        OBVIOUS
      <3> QED
        BY <3>1, <3>2, NextRecordNow
    <2>2. CASE ~ItemDone
      <3>1. Working /\ item' = item /\ scanned' = scanned
        BY <1>4, <2>2 DEF Register, Deregister, PutRecord, Working
      <3> QED
        BY <3>1 DEF ScannedNow, ItemNow
    <2> QED
      BY <2>1, <2>2
  <1>5. CASE MonitorTimesOut
    <2>1. NextRecord({})
      BY <1>5 DEF MonitorTimesOut
    <2>2. \A s \in {} : s \in scanned \/ (s.id \in Ids /\ s.record = table[s.id])
      OBVIOUS
    <2> QED
      BY <2>1, <2>2, NextRecordNow
  <1>6. CASE Handler \/ HandlerTimesOut \/ User \/ UNCHANGED vars
    <2>1. UNCHANGED monitorVars
      BY <1>6 DEF Handler, TakeBatch, NothingChanged, ModifyRule, SetPriority, DeleteRule,
                  DeleteGroup, CreateGroup, CreateRule, PutMetadata, HandlerTimesOut, User,
                  UserInserts, UserEdits, UserDeletes, AddressesMove, vars
    <2> QED
      BY <1>1, <2>1
  <1> QED
    BY <1>2, <1>3, <1>4, <1>5, <1>6 DEF Next, Monitor

\* Records of i name ARNs they named before, or those the handler has just written.
LEMMA MetasStep ==
    ASSUME TypeInv, [Next]_vars, NEW i \in Ids, NEW meta, Names(i, meta)'
    PROVE  \/ meta = NoMeta
           \/ \E m \in Metas(i) :
                m.group = meta.group /\ m.rule = meta.rule /\ (m = NoMeta => meta = NoMeta)
           \/ hpc = "put" /\ PutMetadata /\ i = Head(batch).id /\ meta = made
  <1> DEFINE Known(m) == \/ m = NoMeta
                         \/ m \in Metas(i)
                         \/ hpc = "put" /\ PutMetadata /\ i = Head(batch).id /\ m = made
  <1>1. Queue \in Seq(Events) /\ Len(Queue) \in Nat /\ table \in [Ids -> Records \cup {None}]
    BY QueueFacts DEF TypeInv, DataTypes
  <1>2. \A k \in EventsOf(Queue, i) : Queue[k].old.meta \in Metas(i) /\ Queue[k].new.meta \in Metas(i)
    BY DEF Metas
  <1>3. table[i].meta \in Metas(i)
    BY DEF Metas
  <1>4. \A s \in scanned : s.id = i => s.record.meta \in Metas(i)
    BY DEF Metas
  <1>5. Working /\ item.id = i => item.read.meta \in Metas(i) /\ item.meta \in Metas(i)
    BY DEF Metas
  <1> HIDE DEF Known
  <1>6. /\ Known(table'[i].meta)
        /\ \A k \in EventsOf(Queue', i) : Known(Queue'[k].old.meta) /\ Known(Queue'[k].new.meta)
    <2>1. ASSUME NEW n \in 0..Len(Queue)
          PROVE  /\ Drop(Queue, n) \in Seq(Events)
                 /\ \A k \in EventsOf(Drop(Queue, n), i) :
                      Known(Drop(Queue, n)[k].old.meta) /\ Known(Drop(Queue, n)[k].new.meta)
      <3>1. \A k : k \in EventsOf(Drop(Queue, n), i) <=> k \in 1..(Len(Queue) - n) /\ k + n \in EventsOf(Queue, i)
        BY <1>1, EventsOfDrop
      <3>2. \A k \in 1..(Len(Queue) - n) : Drop(Queue, n)[k] = Queue[k + n]
        BY <1>1, DropIs
      <3>3. Drop(Queue, n) \in Seq(Events)
        BY <1>1, DropIs
      <3> QED
        BY <1>2, <3>1, <3>2, <3>3 DEF Known
    <2>2. CASE table' = table /\ \E n \in 0..Len(Queue) : Queue' = Drop(Queue, n)
      BY <1>3, <2>1, <2>2 DEF Known
    <2>3. ASSUME NEW j \in Ids, NEW new \in Records \cup {None}, NEW n \in 0..Len(Queue),
                 table' = [table EXCEPT ![j] = new],
                 Queue' = After(Drop(Queue, n), j, table[j], new), Source(j, new.meta)
          PROVE  /\ Known(table'[i].meta)
                 /\ \A k \in EventsOf(Queue', i) : Known(Queue'[k].old.meta) /\ Known(Queue'[k].new.meta)
      <3>1. j = i => Known(new.meta)
        BY <1>3, <1>5, <2>3 DEF Known, Source
      <3>2. Known(table[i].meta)
        BY <1>3 DEF Known
      <3>3. Known(table'[i].meta)
        BY <1>1, <2>3, <3>1, <3>2
      <3> DEFINE q == Drop(Queue, n)
      <3>4. q \in Seq(Events) /\ table[j] \in Records \cup {None}
        BY <1>1, <2>1
      <3>5. \A k \in EventsOf(q, i) : Known(q[k].old.meta) /\ Known(q[k].new.meta)
        BY <2>1
      <3> HIDE DEF q
      <3>6. /\ Queue' \in Seq(Events)
            /\ \A k \in 1..Len(q) : Queue'[k] = q[k]
            /\ \A k \in 1..Len(Queue') :
                  k \in 1..Len(q) \/ Queue'[k] = [id |-> j, old |-> table[j], new |-> new]
        <4> DEFINE p == After(q, j, table[j], new)
        <4>1. Queue' = p
          BY <2>3 DEF q
        <4>2. /\ p \in Seq(Events)
              /\ \A k \in 1..Len(q) : p[k] = q[k]
              /\ \A k \in 1..Len(p) :
                    k \in 1..Len(q) \/ p[k] = [id |-> j, old |-> table[j], new |-> new]
          BY <3>4, AfterFacts, SMTT(40)
        <4> HIDE DEF p
        <4> QED
          BY <4>1, <4>2
      <3>7. ASSUME NEW k \in EventsOf(Queue', i)
            PROVE  Known(Queue'[k].old.meta) /\ Known(Queue'[k].new.meta)
        <4>1. k \in 1..Len(Queue') /\ Queue'[k].id = i
          BY <3>6, <3>7, InEventsOf
        <4>2. CASE k \in 1..Len(q)
          BY <3>4, <3>5, <3>6, <4>1, <4>2, InEventsOf
        <4>3. CASE Queue'[k] = [id |-> j, old |-> table[j], new |-> new]
          BY <3>1, <3>2, <4>1, <4>3
        <4> QED
          BY <3>6, <4>1, <4>2, <4>3
      <3> QED
        BY <3>3, <3>7
    <2> QED
      BY <2>2, <2>3, QueueSteps DEF QueueStep
  <1>7. ASSUME NEW s \in scanned', s.id = i PROVE Known(s.record.meta)
    BY <1>3, <1>4, <1>7, MonitorSteps DEF Known, ScannedNow
  <1>8. CASE Known(meta)
    BY <1>8 DEF Known
  <1>9. CASE Working' /\ item'.id = i /\ meta \in {item'.read.meta, item'.meta}
    <2>1. CASE Working /\ item' = item
      BY <1>5, <1>8, <1>9, <2>1 DEF Known
    <2>2. ASSUME NEW s \in scanned, item'.id = s.id, item'.read = s.record,
                 item'.meta = [s.record.meta EXCEPT !.ips = item'.meta.ips],
                 s.record.meta = NoMeta => item'.meta = NoMeta
          PROVE  \E m \in Metas(i) :
                m.group = meta.group /\ m.rule = meta.rule /\ (m = NoMeta => meta = NoMeta)
      <3>1. s.record.meta \in Metas(i) /\ s.record.meta \in Meta
        BY <1>4, <1>9, <2>2, RecordFacts DEF TypeInv, DataTypes
      <3> DEFINE ips == item'.meta.ips
      <3>2. item'.meta = [s.record.meta EXCEPT !.ips = ips]
        BY <2>2
      <3> HIDE DEF ips
      <3>3. item'.meta.group = s.record.meta.group /\ item'.meta.rule = s.record.meta.rule
        BY <3>1, <3>2, MetaWithIps
      <3> QED
        BY <1>9, <2>2, <3>1, <3>3
    <2> QED
      BY <1>9, <2>1, <2>2, MonitorSteps DEF ItemNow
  <1> QED
    BY <1>6, <1>7, <1>8, <1>9 DEF Names, Metas

\* Addresses are registered and deregistered in the group of the record at hand.
Moved(add, drop) ==
    {[arn |-> g.arn, id |-> g.id, target |-> g.target,
      ips |-> IF g.arn = item.meta.group THEN (g.ips \cup add) \ drop ELSE g.ips] : g \in groups}

LEMMA RegistrationGroups ==
    ASSUME TypeInv
    PROVE  /\ Register =>
                groups' \in {groups, Moved(item.meta.ips \ item.read.meta.ips, {})}
           /\ Deregister => groups' \in {groups, Moved({}, item.drop)}
  <1>1. \A g \in groups : \A ips :
          [g EXCEPT !.ips = ips] = [arn |-> g.arn, id |-> g.id, target |-> g.target, ips |-> ips]
    BY DEF TypeInv, AwsTypes
  <1>2. \A g \in groups : g = [arn |-> g.arn, id |-> g.id, target |-> g.target, ips |-> g.ips]
    BY DEF TypeInv, AwsTypes
  <1>3. CASE Register
    <2> DEFINE add == item.meta.ips \ item.read.meta.ips
    <2>1. CASE groups' # groups
      <3>1. groups' = {IF g.arn = item.meta.group THEN [g EXCEPT !.ips = @ \cup add]
                       ELSE g : g \in groups}
        BY <1>3, <2>1 DEF Register
      <3> HIDE DEF add
      <3>2. \A g \in groups : [g EXCEPT !.ips = @ \cup add] =
                [arn |-> g.arn, id |-> g.id, target |-> g.target, ips |-> (g.ips \cup add) \ {}]
        BY <1>1
      <3>3. groups' = Moved(add, {})
        BY <1>2, <3>1, <3>2 DEF Moved
      <3> QED
        BY <1>3, <3>3 DEF add, Register, Deregister
    <2> QED
      BY <1>3, <2>1 DEF Register, Deregister
  <1>4. CASE Deregister
    <2>1. CASE groups' # groups
      <3>1. groups' = {IF g.arn = item.meta.group THEN [g EXCEPT !.ips = @ \ item.drop]
                       ELSE g : g \in groups}
        BY <1>4, <2>1 DEF Deregister
      <3>2. \A g \in groups : [g EXCEPT !.ips = @ \ item.drop] =
                [arn |-> g.arn, id |-> g.id, target |-> g.target,
                 ips |-> (g.ips \cup {}) \ item.drop]
        BY <1>1
      <3>3. groups' = Moved({}, item.drop)
        BY <1>2, <3>1, <3>2 DEF Moved
      <3> QED
        BY <1>4, <3>3 DEF Register, Deregister
    <2> QED
      BY <1>4, <2>1 DEF Register, Deregister
  <1> QED
    BY <1>3, <1>4

\* What a step does to the groups and rules.
AwsStep ==
    /\ arns' \in {arns, arns + 1}
    /\ \A g \in groups' :
         \/ \E f \in groups : f.arn = g.arn /\ f.id = g.id
         \/ /\ g.arn = arns + 1 /\ arns' = arns + 1 /\ g.id = Head(batch).id
            /\ rules' = rules /\ groups \subseteq groups'
    /\ \A r \in rules' :
         \/ \E s \in rules :
              /\ s.arn = r.arn
              /\ \/ s.group = r.group
                 \/ /\ hpc = "modify" /\ groups' = groups
                    /\ s.arn = New.meta.rule /\ r.group = New.meta.group
                    /\ \E g \in groups : g.arn = New.meta.group
         \/ /\ r.arn = arns + 1 /\ arns' = arns + 1 /\ r.group = made.group
            /\ hpc = "createRule" /\ groups' = groups
    /\ \A g \in groups :
         \/ \E h \in groups' : h.arn = g.arn /\ h.id = g.id
         \/ rules' = rules /\ \A r \in rules : r.group # g.arn

LEMMA HandlerAws ==
    ASSUME TypeInv, Handler
    PROVE  AwsStep
  <1>1. CASE UNCHANGED aws
    BY <1>1 DEF AwsStep, aws
  <1>2. CASE ModifyRule
    <2>1. CASE rules' = rules
      BY <1>1, <1>2, <2>1 DEF ModifyRule, Throw, aws
    <2>2. CASE rules' # rules
      <3>1. /\ rules' = (rules \ RuleWith(New.meta.rule)) \cup
                 {[arn |-> r.arn, condition |-> New.spec.condition, priority |-> r.priority,
                   group |-> New.meta.group] : r \in RuleWith(New.meta.rule)}
            /\ GroupWith(New.meta.group) # {} /\ groups' = groups /\ arns' = arns
            /\ hpc = "modify"
        BY <1>2, <2>2 DEF ModifyRule, Throw, aws
      <3> QED
        BY <3>1 DEF AwsStep, RuleWith, GroupWith
    <2> QED
      BY <2>1, <2>2
  <1>3. CASE SetPriority
    <2>1. CASE rules' = rules
      BY <1>1, <1>3, <2>1 DEF SetPriority, Throw, aws
    <2>2. CASE rules' # rules
      <3>1. /\ rules' = (rules \ RuleWith(New.meta.rule)) \cup
                 {[r EXCEPT !.priority = New.spec.priority] : r \in RuleWith(New.meta.rule)}
            /\ groups' = groups /\ arns' = arns
        BY <1>3, <2>2 DEF SetPriority, Throw, aws
      <3>2. \A r \in rules : /\ [r EXCEPT !.priority = New.spec.priority].arn = r.arn
                             /\ [r EXCEPT !.priority = New.spec.priority].group = r.group
        BY DEF TypeInv, AwsTypes
      <3>3. \A r \in rules' : \E s \in rules : s.arn = r.arn /\ s.group = r.group
        BY <3>1, <3>2, ZenonT(60) DEF RuleWith
      <3> QED
        BY <3>1, <3>3 DEF AwsStep
    <2> QED
      BY <2>1, <2>2
  <1>4. CASE DeleteRule
    BY <1>4 DEF DeleteRule, DeletionFails, AwsStep
  <1>5. CASE DeleteGroup
    BY <1>5 DEF DeleteGroup, DeletionFails, AwsStep
  <1>6. CASE CreateGroup
    <2>1. CASE arns' = arns
      BY <1>1, <1>6, <2>1 DEF CreateGroup, Throw, aws, TypeInv, AwsTypes
    <2>2. CASE arns' # arns
      <3> DEFINE g == [arn |-> arns + 1, id |-> Head(batch).id, target |-> New.spec.target, ips |-> {}]
      <3>1. /\ groups' = groups \cup {g} /\ arns' = arns + 1 /\ rules' = rules
            /\ g.arn = arns + 1 /\ g.id = Head(batch).id
        BY <1>6, <2>2 DEF CreateGroup, Throw, aws
      <3> HIDE DEF g
      <3> QED
        BY <3>1 DEF AwsStep
    <2> QED
      BY <2>1, <2>2
  <1>7. CASE CreateRule
    <2> DEFINE r == [arn |-> arns + 1, condition |-> New.spec.condition,
                     priority |-> New.spec.priority, group |-> made.group]
    <2>1. /\ rules' = rules \cup {r} /\ arns' = arns + 1 /\ groups' = groups /\ hpc = "createRule"
          /\ r.arn = arns + 1 /\ r.group = made.group
      BY <1>7 DEF CreateRule
    <2> HIDE DEF r
    <2> QED
      BY <2>1 DEF AwsStep
  <1> QED
    BY <1>1, <1>2, <1>3, <1>4, <1>5, <1>6, <1>7
       DEF Handler, TakeBatch, NothingChanged, PutMetadata

\* Steps that are not the handler's.
Outside ==
    \/ User \/ Monitor \/ MonitorTimesOut \/ UNCHANGED vars
    \/ \E s \in scanned : ResolveFails(s)

Regrouped ==
    /\ UNCHANGED <<handlerVars, rules, arns>>
    /\ \A h \in groups' : \E g \in groups : g.arn = h.arn /\ g.id = h.id
    /\ \A g \in groups : \E h \in groups' : h.arn = g.arn /\ h.id = g.id

LEMMA OutsideAws ==
    ASSUME TypeInv, Outside
    PROVE  Regrouped
  <1>1. CASE UNCHANGED <<handlerVars, aws>>
    BY <1>1 DEF Regrouped, aws
  <1>2. CASE Register \/ Deregister
    <2>1. CASE groups' = groups
      BY <1>1, <1>2, <2>1 DEF Register, Deregister, aws
    <2>2. CASE groups' # groups
      <3>1. PICK add, drop : groups' = Moved(add, drop)
        BY <1>2, <2>2, RegistrationGroups
      <3>2. UNCHANGED <<handlerVars, rules, arns>>
        BY <1>2 DEF Register, Deregister
      <3>3. \A h \in Moved(add, drop) : \E g \in groups : g.arn = h.arn /\ g.id = h.id
        BY DEF Moved
      <3>4. ASSUME NEW g \in groups
            PROVE  \E h \in Moved(add, drop) : h.arn = g.arn /\ h.id = g.id
        <4> DEFINE h == [arn |-> g.arn, id |-> g.id, target |-> g.target,
                         ips |-> IF g.arn = item.meta.group THEN (g.ips \cup add) \ drop ELSE g.ips]
        <4>1. h \in Moved(add, drop)
          BY DEF Moved
        <4>2. h.arn = g.arn /\ h.id = g.id
          OBVIOUS
        <4> QED
          BY <4>1, <4>2
      <3> QED
        BY <3>1, <3>2, <3>3, <3>4 DEF Regrouped
    <2> QED
      BY <2>1, <2>2
  <1> QED
    BY <1>1, <1>2
       DEF Outside, Monitor, User, UserInserts, UserEdits, UserDeletes, AddressesMove, Scan, Resolve,
           ResolveFails, Lookup, PutRecord, MonitorTimesOut, vars

LEMMA AwsSteps ==
    ASSUME TypeInv, [Next]_vars
    PROVE  AwsStep
  <1>1. CASE Outside
    BY <1>1, OutsideAws DEF Regrouped, AwsStep
  <1>2. CASE Handler
    BY <1>2, HandlerAws
  <1>3. CASE HandlerTimesOut
    BY <1>3 DEF HandlerTimesOut, Throw, aws, AwsStep
  <1> QED
    BY <1>1, <1>2, <1>3 DEF Next, Outside

\* The event at hand is the first of the queue.
LEMMA HeadFacts ==
    ASSUME TypeInv, batch # <<>>
    PROVE  /\ 1 \in EventsOf(Queue, Head(batch).id) /\ Queue[1] = Head(batch)
           /\ Head(batch).id \in Ids
           /\ Old = Queue[1].old /\ New = Queue[1].new
           /\ Old.meta \in Metas(Head(batch).id) /\ New.meta \in Metas(Head(batch).id)
  <1>1. Queue \in Seq(Events) /\ Queue[1] = Head(batch) /\ 1 \in 1..Len(batch)
        /\ Len(batch) \in 0..Len(Queue) /\ Len(Queue) \in Nat
    BY QueueFacts DEF TypeInv
  <1>2. 1 \in EventsOf(Queue, Head(batch).id)
    BY <1>1, InEventsOf
  <1>3. Head(batch).id \in Ids
    BY BatchTypes DEF TypeInv
  <1> QED
    BY <1>1, <1>2, <1>3 DEF Old, New, Metas

LEMMA OwnsStep ==
    ASSUME TypeInv, OwnerInv, [Next]_vars, NEW i \in Ids, NEW meta, Owns(i, meta)
    PROVE  Owns(i, meta)'
  <1>1. AwsStep
    BY AwsSteps
  <1>2. arns \in Nat /\ meta.group \in 0..arns /\ meta.rule \in 0..arns
    BY DEF TypeInv, AwsTypes, Owns
  <1>3. meta.group \in 0..arns' /\ meta.rule \in 0..arns'
    BY <1>1, <1>2 DEF AwsStep
  <1>4. ASSUME NEW g \in groups', g.arn = meta.group PROVE g.id = i
    BY <1>1, <1>2, <1>4 DEF AwsStep, Owns
  <1>5. ASSUME NEW r \in rules', r.arn = meta.rule PROVE \E g \in groups' : g.id = i /\ g.arn = r.group
    <2>1. PICK s \in rules :
              /\ s.arn = r.arn
              /\ \/ s.group = r.group
                 \/ /\ hpc = "modify" /\ groups' = groups
                    /\ s.arn = New.meta.rule /\ r.group = New.meta.group
                    /\ \E g \in groups : g.arn = New.meta.group
      BY <1>1, <1>2, <1>5 DEF AwsStep
    <2>2. PICK g \in groups : g.id = i /\ g.arn = s.group
      BY <1>5, <2>1 DEF Owns, RulesOf
    <2>3. CASE s.group = r.group
      <3>1. CASE \E h \in groups' : h.arn = g.arn /\ h.id = g.id
        BY <2>2, <2>3, <3>1
      <3>2. CASE rules' = rules /\ \A x \in rules : x.group # g.arn
        BY <2>2, <2>3, <3>2
      <3> QED
        BY <1>1, <3>1, <3>2 DEF AwsStep
    <2>4. CASE /\ hpc = "modify" /\ groups' = groups
               /\ s.arn = New.meta.rule /\ r.group = New.meta.group
               /\ \E h \in groups : h.arn = New.meta.group
      <3> DEFINE j == Head(batch).id
      <3>1. batch # <<>>
        BY <2>4 DEF TypeInv, HandlerInv
      <3>2. j \in Ids /\ New.meta \in Metas(j)
        BY <3>1, HeadFacts
      <3>3. Owns(j, New.meta)
        BY <3>2 DEF OwnerInv
      <3>4. PICK f \in groups : f.id = j /\ f.arn = s.group
        BY <2>1, <2>4, <3>3 DEF Owns, RulesOf
      <3>5. f = g
        BY <2>2, <3>4 DEF OwnerInv, ArnsUnique
      <3>6. PICK h \in groups : h.arn = New.meta.group
        BY <2>4
      <3>7. h.id = j
        BY <3>3, <3>6 DEF Owns
      <3> QED
        BY <2>2, <2>4, <3>4, <3>5, <3>6, <3>7
    <2> QED
      BY <2>1, <2>3, <2>4
  <1> QED
    BY <1>3, <1>4, <1>5 DEF Owns, RulesOf

LEMMA HandlerUnique ==
    ASSUME TypeInv, ArnsUnique, MadeInv, Handler
    PROVE  ArnsUnique'
  <1>1. CASE UNCHANGED aws
    BY <1>1 DEF ArnsUnique, aws
  <1>2. arns \in Nat /\ \A g \in groups : g.arn # arns + 1
    BY DEF TypeInv, AwsTypes
  <1>3. \A r \in rules : r.arn # arns + 1
    BY <1>2 DEF TypeInv, AwsTypes
  <1>4. CASE ModifyRule
    <2>1. CASE rules' = rules
      BY <1>1, <1>4, <2>1 DEF ModifyRule, Throw, aws
    <2>2. CASE rules' # rules
      <3>1. /\ rules' = (rules \ RuleWith(New.meta.rule)) \cup
                 {[arn |-> r.arn, condition |-> New.spec.condition, priority |-> r.priority,
                   group |-> New.meta.group] : r \in RuleWith(New.meta.rule)}
            /\ GroupWith(New.meta.group) # {} /\ groups' = groups
        BY <1>4, <2>2 DEF ModifyRule, Throw, aws
      <3> QED
        BY <3>1 DEF ArnsUnique, RuleWith, GroupWith
    <2> QED
      BY <2>1, <2>2
  <1>5. CASE SetPriority
    <2>1. CASE rules' = rules
      BY <1>1, <1>5, <2>1 DEF SetPriority, Throw, aws
    <2>2. CASE rules' # rules
      <3>1. /\ rules' = (rules \ RuleWith(New.meta.rule)) \cup
                 {[r EXCEPT !.priority = New.spec.priority] : r \in RuleWith(New.meta.rule)}
            /\ groups' = groups
        BY <1>5, <2>2 DEF SetPriority, Throw, aws
      <3>2. \A r \in rules : /\ [r EXCEPT !.priority = New.spec.priority].arn = r.arn
                             /\ [r EXCEPT !.priority = New.spec.priority].group = r.group
        BY DEF TypeInv, AwsTypes
      <3>3. ASSUME NEW r \in rules', NEW s \in rules', r.arn = s.arn PROVE r = s
        <4> DEFINE Now(x) == IF x \in RuleWith(New.meta.rule)
                             THEN [x EXCEPT !.priority = New.spec.priority] ELSE x
        <4>1. \A x \in rules : Now(x).arn = x.arn
          BY <3>2
        <4>2. (\E x \in rules : r = Now(x)) /\ (\E x \in rules : s = Now(x))
          BY <3>1 DEF RuleWith
        <4> HIDE DEF Now
        <4> QED
          BY <3>3, <4>1, <4>2 DEF ArnsUnique
      <3>4. \A r \in rules' : \E s \in rules : s.group = r.group
        BY <3>1, <3>2, ZenonT(60) DEF RuleWith
      <3> QED
        BY <3>1, <3>3, <3>4 DEF ArnsUnique
    <2> QED
      BY <2>1, <2>2
  <1>6. CASE DeleteRule
    BY <1>6 DEF DeleteRule, DeletionFails, ArnsUnique
  <1>7. CASE DeleteGroup
    BY <1>7 DEF DeleteGroup, DeletionFails, ArnsUnique
  <1>8. CASE CreateGroup
    <2>1. CASE groups' = groups
      BY <1>1, <1>8, <2>1 DEF CreateGroup, Throw, aws, ArnsUnique
    <2>2. CASE groups' # groups
      <3> DEFINE g == [arn |-> arns + 1, id |-> Head(batch).id, target |-> New.spec.target, ips |-> {}]
      <3>1. groups' = groups \cup {g} /\ rules' = rules /\ g.arn = arns + 1
        BY <1>8, <2>2 DEF CreateGroup, Throw, aws
      <3> HIDE DEF g
      <3> QED
        BY <1>2, <3>1 DEF ArnsUnique
    <2> QED
      BY <2>1, <2>2
  <1>9. CASE CreateRule
    <2> DEFINE r == [arn |-> arns + 1, condition |-> New.spec.condition,
                     priority |-> New.spec.priority, group |-> made.group]
    <2>1. rules' = rules \cup {r} /\ groups' = groups /\ r.arn = arns + 1 /\ r.group = made.group
      BY <1>9 DEF CreateRule
    <2>2. \E g \in groups : g.arn = made.group
      BY <1>9 DEF CreateRule, MadeInv
    <2> HIDE DEF r
    <2> QED
      BY <1>3, <2>1, <2>2 DEF ArnsUnique
  <1> QED
    BY <1>1, <1>4, <1>5, <1>6, <1>7, <1>8, <1>9
       DEF Handler, TakeBatch, NothingChanged, PutMetadata

LEMMA OutsideUnique ==
    ASSUME TypeInv, ArnsUnique, Outside
    PROVE  ArnsUnique'
  <1>1. Regrouped
    BY OutsideAws
  <1>2. CASE groups' = groups
    BY <1>1, <1>2 DEF ArnsUnique, Regrouped
  <1>3. CASE groups' # groups
    <2>1. CASE Register \/ Deregister
      <3>1. PICK add, drop : groups' = Moved(add, drop)
        BY <1>3, <2>1, RegistrationGroups
      <3>2. ASSUME NEW g \in Moved(add, drop), NEW h \in Moved(add, drop), g.arn = h.arn
            PROVE  g = h
        <4> DEFINE To(x) == [arn |-> x.arn, id |-> x.id, target |-> x.target,
                             ips |-> IF x.arn = item.meta.group THEN (x.ips \cup add) \ drop
                                     ELSE x.ips]
        <4>1. (\E x \in groups : g = To(x)) /\ (\E x \in groups : h = To(x))
          BY DEF Moved
        <4>2. \A x : To(x).arn = x.arn
          OBVIOUS
        <4> HIDE DEF To
        <4> QED
          BY <3>2, <4>1, <4>2 DEF ArnsUnique
      <3> QED
        BY <1>1, <3>1, <3>2 DEF ArnsUnique, Regrouped
    <2> QED
      BY <1>3, <2>1
       DEF Outside, Monitor, User, UserInserts, UserEdits, UserDeletes, AddressesMove, Scan, Resolve,
           ResolveFails, Lookup, PutRecord, MonitorTimesOut, vars, aws
  <1> QED
    BY <1>2, <1>3

LEMMA MadeStep ==
    ASSUME TypeInv, OwnerInv, [Next]_vars
    PROVE  MadeInv'
  <1>1. ASSUME NEW events, Goto(events) PROVE MadeInv'
    BY <1>1 DEF Goto, Call, MadeInv
  <1>2. CASE Outside
    BY <1>2, OutsideAws DEF Regrouped, handlerVars, OwnerInv, MadeInv
  <1>3. ASSUME hpc' \notin {"createRule", "put"} PROVE MadeInv'
    BY <1>3 DEF MadeInv
  <1>4. CASE HandlerTimesOut
    BY <1>1, <1>4 DEF HandlerTimesOut, Throw
  <1>5. CASE CreateGroup
    <2>1. CASE Throw
      BY <1>1, <2>1 DEF Throw
    <2>2. CASE ~Throw
      <3>1. hpc' = "createRule" /\ batch' = batch
        BY <1>5, <2>2 DEF CreateGroup
      <3>2. /\ made'.ips = {}
            /\ \E g \in groups' : g.arn = made'.group /\ g.id = Head(batch).id
        <4>1. \A n : [NoMeta EXCEPT !.group = n].group = n /\ [NoMeta EXCEPT !.group = n].ips = {}
          BY DEF NoMeta
        <4>2. CASE {g \in groups : g.id = Head(batch).id} = {}
          <5> DEFINE g == [arn |-> arns + 1, id |-> Head(batch).id, target |-> New.spec.target,
                           ips |-> {}]
          <5>1. groups' = groups \cup {g} /\ made' = [NoMeta EXCEPT !.group = arns + 1]
            BY <1>5, <2>2, <4>2 DEF CreateGroup
          <5>2. g.arn = made'.group /\ g.id = Head(batch).id /\ made'.ips = {}
            BY <4>1, <5>1
          <5> QED
            BY <5>1, <5>2
        <4>3. CASE {g \in groups : g.id = Head(batch).id} # {}
          BY <1>5, <2>2, <4>1, <4>3, ZenonT(60) DEF CreateGroup
        <4> QED
          BY <4>2, <4>3
      <3> QED
        BY <3>1, <3>2 DEF MadeInv
    <2> QED
      BY <2>1, <2>2
  <1>6. CASE CreateRule
    <2> DEFINE r == [arn |-> arns + 1, condition |-> New.spec.condition,
                     priority |-> New.spec.priority, group |-> made.group]
    <2>1. rules' = rules \cup {r} /\ groups' = groups /\ r.arn = arns + 1 /\ r.group = made.group
          /\ hpc = "createRule" /\ hpc' = "put" /\ batch' = batch
      BY <1>6 DEF CreateRule
    <2>2. made'.rule = arns + 1 /\ made'.group = made.group /\ made'.ips = made.ips
      BY <1>6 DEF CreateRule, TypeInv, DataTypes, Meta
    <2> HIDE DEF r
    <2> QED
      BY <2>1, <2>2 DEF MadeInv, OwnerInv
  <1> QED
    BY <1>1, <1>2, <1>3, <1>4, <1>5, <1>6
       DEF Next, Outside, Handler, TakeBatch, NothingChanged, ModifyRule, SetPriority, DeleteRule,
           DeleteGroup, PutMetadata, EventDone, Throw

LEMMA InitOwners == Init => OwnerInv
  <1> SUFFICES ASSUME Init PROVE OwnerInv
    OBVIOUS
  <1>1. Queue = <<>>
    BY ConcatEmptySeq, EmptySeq DEF Init, Queue
  <1>2. \A i : EventsOf(Queue, i) = {}
    BY <1>1 DEF EventsOf
  <1>3. \A i \in Ids : Metas(i) = {NoMeta}
    BY <1>2, NoneFacts DEF Metas, Init, Working
  <1> QED
    BY <1>3, NoneFacts DEF OwnerInv, ArnsUnique, MadeInv, Owns, Init

LEMMA NextOwners == TypeInv /\ OwnerInv /\ [Next]_vars => OwnerInv'
  <1> SUFFICES ASSUME TypeInv, OwnerInv, [Next]_vars PROVE OwnerInv'
    OBVIOUS
  <1>1. ArnsUnique'
    BY HandlerUnique, OutsideUnique DEF OwnerInv, Next, Outside, HandlerTimesOut, Throw, aws, ArnsUnique
  <1>2. MadeInv'
    BY MadeStep
  <1>3. ASSUME NEW i \in Ids, NEW x, Names(i, x)'
        PROVE  Owns(i, x)' /\ (x.group = 0 \/ x.rule = 0 => x = NoMeta)
    <2>1. CASE x = NoMeta
      <3>1. TypeInv'
        BY NextTypes
      <3> QED
        BY <2>1, <3>1, NoneFacts DEF TypeInv, AwsTypes, Owns
    <2>2. CASE \E m \in Metas(i) : m.group = x.group /\ m.rule = x.rule /\ (m = NoMeta => x = NoMeta)
      <3>1. PICK m \in Metas(i) : m.group = x.group /\ m.rule = x.rule /\ (m = NoMeta => x = NoMeta)
        BY <2>2
      <3>2. Owns(i, m) /\ (m.group = 0 \/ m.rule = 0 => m = NoMeta)
        BY DEF OwnerInv
      <3>3. Owns(i, x)
        BY <3>1, <3>2 DEF Owns
      <3>4. Owns(i, x)'
        BY <3>3, OwnsStep
      <3> QED
        BY <3>1, <3>2, <3>4
    <2>3. CASE hpc = "put" /\ i = Head(batch).id /\ x = made
      <3>1. PICK g \in groups : g.arn = made.group /\ g.id = i
        BY <2>3 DEF OwnerInv, MadeInv
      <3>2. PICK r \in rules : r.arn = made.rule /\ r.group = made.group
        BY <2>3 DEF OwnerInv, MadeInv
      <3>3. Owns(i, x)
        BY <2>3, <3>1, <3>2 DEF Owns, RulesOf, OwnerInv, ArnsUnique, TypeInv, AwsTypes
      <3>4. made.group # 0 /\ made.rule # 0
        BY <3>1, <3>2 DEF TypeInv, AwsTypes
      <3>5. Owns(i, x)'
        BY <3>3, OwnsStep
      <3> QED
        BY <2>3, <3>4, <3>5
    <2>4. \/ x = NoMeta
          \/ \E m \in Metas(i) : m.group = x.group /\ m.rule = x.rule /\ (m = NoMeta => x = NoMeta)
          \/ hpc = "put" /\ i = Head(batch).id /\ x = made
      BY <1>3, MetasStep
    <2> QED
      BY <2>1, <2>2, <2>3, <2>4
  <1> QED
    BY <1>1, <1>2, <1>3 DEF OwnerInv, Names

-----------------------------------------------------------------------------
(***************************************************************************)
(* Events that are going to fail.  An event that asks for the priority of  *)
(* a rule it does not know, and that no event before it removes, ends its  *)
(* batch: its id will be among the spoiled ones.                           *)
(***************************************************************************)
Doom(i, k, r) ==
    /\ k \in EventsOf(Queue, i) /\ Changes(Queue[k]) /\ ~Deletion(Queue[k])
    /\ r \in rules /\ r.priority = Queue[k].new.spec.priority
    /\ RuleWith(Queue[k].new.meta.rule) = {}
    /\ \A l \in 1..k : r.arn # Queue[l].old.meta.rule /\ r.arn # Queue[l].new.meta.rule
    /\ k = 1 /\ batch # <<>> =>
         /\ hpc \in {"modify", "priority", "deleteRule", "deleteGroup", "create"}
         /\ hpc = "priority" => /\ New.spec.condition = Old.spec.condition
                                /\ New.spec.priority = Old.spec.priority

Doomed(i) == \E k \in DOMAIN Queue : \E r \in rules : Doom(i, k, r)

\* The first n events are gone, the others are where they were before.
Shifted(n) ==
    /\ n \in 0..Len(Queue)
    /\ \A k \in 1..Len(Queue) : k > n => k - n \in 1..Len(Queue') /\ Queue'[k - n] = Queue[k]

\* Goto, with what it leaves behind.
Going == hpc' = (IF batch' = <<>> THEN "idle" ELSE Call(Head(batch'))) /\ made' = NoMeta

LEMMA ShiftedAfter ==
    ASSUME TypeInv, NEW n \in 0..Len(Queue), NEW i \in Ids, NEW new \in Records \cup {None},
           Queue' = Drop(Queue, n) \/ Queue' = After(Drop(Queue, n), i, table[i], new)
    PROVE  Shifted(n)
  <1>1. Queue \in Seq(Events) /\ Len(Queue) \in Nat /\ table[i] \in Records \cup {None}
    BY QueueFacts DEF TypeInv, DataTypes
  <1> DEFINE q == Drop(Queue, n)
  <1>2. /\ q \in Seq(Events) /\ Len(q) = Len(Queue) - n
        /\ \A k \in 1..(Len(Queue) - n) : q[k] = Queue[k + n]
    BY <1>1, DropIs
  <1> HIDE DEF q
  <1>3. \A k \in 1..Len(Queue) : k > n => k - n \in 1..Len(q) /\ q[k - n] = Queue[k]
    BY <1>1, <1>2
  <1> DEFINE p == After(q, i, table[i], new)
  <1>4. /\ Len(p) \in {Len(q), Len(q) + 1}
        /\ \A k \in 1..Len(q) : p[k] = q[k]
    <2>1. PICK e \in Events : e = [id |-> i, old |-> table[i], new |-> new]
      BY <1>1, EventOf
    <2> QED
      BY <1>2, <2>1, AppendProperties DEF After
  <1>5. Queue' = q \/ Queue' = p
    BY DEF q
  <1> HIDE DEF p
  <1>6. Len(q) \in Nat
    BY <1>1, <1>2
  <1>7. \A k \in 1..Len(q) : k \in 1..Len(p)
    BY <1>4, <1>6
  <1> QED
    BY <1>3, <1>4, <1>5, <1>7 DEF Shifted

ShiftCases ==
    \/ Shifted(0) /\ batch' = batch
    \/ Shifted(0) /\ batch = <<>> /\ Going /\ rules' = rules
    \/ /\ Shifted(1) /\ batch # <<>> /\ Going /\ batch' = Tail(batch)
       /\ \/ NothingChanged \/ PutMetadata
          \/ SetPriority /\ New.spec.target = Old.spec.target
          \/ DeleteGroup /\ New = None
    \/ Shifted(Len(batch)) /\ Throw /\ batch # <<>>

LEMMA ShiftSteps ==
    ASSUME TypeInv, [Next]_vars
    PROVE  ShiftCases
  <1>1. DataTypes /\ Drop(Queue, 0) = Queue /\ 0 \in 0..Len(Queue)
    BY DropNone DEF TypeInv
  <1>2. Queue \in Seq(Events) /\ Len(Queue) \in Nat
    BY <1>1, QueueFacts
  <1>3. ASSUME Queue' = Queue PROVE Shifted(0)
    BY <1>1, <1>2, <1>3 DEF Shifted
  <1>4. ASSUME NEW i \in Ids, NEW new \in Records \cup {None}, Write(i, new), batch' = batch
        PROVE  ShiftCases
    <2>1. Queue' = After(Drop(Queue, 0), i, table[i], new)
      BY <1>1, <1>4, QueueWrite
    <2> QED
      BY <1>1, <1>4, <2>1, ShiftedAfter DEF ShiftCases
  <1>5. ASSUME Outside PROVE ShiftCases
    <2>1. CASE UNCHANGED <<batch, stream>>
      BY <1>3, <2>1 DEF Queue, ShiftCases
    <2>2. ASSUME NEW i \in Ids, NEW new \in Records \cup {None}, UserWrites(i, new) PROVE ShiftCases
      BY <1>4, <2>2 DEF UserWrites, handlerVars
    <2>3. ASSUME PutRecord PROVE ShiftCases
      <3>1. item.id \in Ids /\ Record(item.read.spec, item.meta) \in Records \cup {None}
        BY <2>3, RecordOf, RecordFacts, NoneFacts DEF PutRecord, Working, TypeInv, DataTypes
      <3> QED
        BY <1>4, <2>3, <3>1 DEF PutRecord, handlerVars
    <2>4. CASE User
      <3>1. ASSUME NEW i \in Ids, NEW ips \in Addresses, AddressesMove(i, ips) PROVE ShiftCases
        BY <2>1, <3>1 DEF AddressesMove, handlerVars
      <3> QED
        BY <2>2, <2>4, <3>1, UserCases
    <2> QED
      BY <1>5, <2>1, <2>3, <2>4
         DEF Outside, Monitor, Scan, Resolve, ResolveFails, Lookup, Register, Deregister,
             MonitorTimesOut, handlerVars, vars
  <1>6. ASSUME batch # <<>>, EventDone, UNCHANGED <<table, stream>>,
               \/ NothingChanged
               \/ SetPriority /\ New.spec.target = Old.spec.target
               \/ DeleteGroup /\ New = None
        PROVE  ShiftCases
    <2>1. Queue' = Drop(Queue, 1) /\ 1 \in 0..Len(Queue)
      BY <1>1, <1>6, QueueDone, QueueFacts DEF Queue, EventDone, Goto
    <2>2. Head(batch).id \in Ids /\ None \in Records \cup {None}
      BY <1>1, <1>6, BatchTypes
    <2>3. Shifted(1)
      BY <2>1, <2>2, ShiftedAfter
    <2> QED
      BY <1>6, <2>3 DEF ShiftCases, EventDone, Goto, Going
  <1>7. ASSUME Throw, hpc # "idle" PROVE ShiftCases
    <2>1. Queue' = Drop(Queue, Len(batch)) /\ Len(batch) \in 0..Len(Queue)
      BY <1>1, <1>7, QueueThrow, QueueFacts DEF Queue, Throw, Goto
    <2>2. batch # <<>>
      BY <1>7 DEF TypeInv, HandlerInv
    <2>3. Head(batch).id \in Ids /\ None \in Records \cup {None}
      BY <1>1, <2>2, BatchTypes
    <2>4. Shifted(Len(batch))
      BY <2>1, <2>3, ShiftedAfter
    <2> QED
      BY <1>7, <2>2, <2>4 DEF ShiftCases
  <1>8. ASSUME NEW n \in 1..Len(stream), TakeBatch(n) PROVE ShiftCases
    <2>1. batch = <<>>
      BY <1>8 DEF TakeBatch, TypeInv, HandlerInv
    <2>2. SubSeq(stream, 1, n) \o SubSeq(stream, n + 1, Len(stream)) = Queue
      BY <1>1, <2>1, QueueTake
    <2>3. Queue' = Queue
      BY <1>8, <2>2 DEF Queue, TakeBatch, Goto
    <2> QED
      BY <1>3, <1>8, <2>1, <2>3 DEF ShiftCases, TakeBatch, Goto, Going, aws
  <1>9. ASSUME PutMetadata PROVE ShiftCases
    <2>1. /\ Head(batch).id \in Ids /\ Record(New.spec, made) \in Records \cup {None}
          /\ 1 \in 0..Len(Queue) /\ batch # <<>>
          /\ Queue' = After(Drop(Queue, 1), Head(batch).id, table[Head(batch).id],
                            Record(New.spec, made))
      BY <1>9, PutQueue
    <2>2. Shifted(1)
      BY <2>1, ShiftedAfter
    <2> QED
      BY <1>9, <2>1, <2>2 DEF ShiftCases, PutMetadata, EventDone, Goto, Going
  <1>10. ASSUME Handler PROVE ShiftCases
    <2>1. CASE UNCHANGED <<table, stream, batch>>
      BY <1>3, <2>1 DEF Queue, ShiftCases
    <2>2. NothingChanged => EventDone /\ UNCHANGED <<table, stream>> /\ batch # <<>>
      BY DEF NothingChanged, TypeInv, HandlerInv
    <2>3. ModifyRule => (Throw /\ hpc # "idle") \/ UNCHANGED <<table, stream, batch>>
      BY DEF ModifyRule
    <2>4. SetPriority => \/ (Throw /\ hpc # "idle") \/ UNCHANGED <<table, stream, batch>>
                         \/ /\ EventDone /\ UNCHANGED <<table, stream>> /\ batch # <<>>
                            /\ New.spec.target = Old.spec.target
      BY DEF SetPriority, TypeInv, HandlerInv
    <2>5. DeleteRule \/ CreateRule => UNCHANGED <<table, stream, batch>>
      BY DEF DeleteRule, CreateRule
    <2>6. DeleteGroup => \/ UNCHANGED <<table, stream, batch>>
                         \/ EventDone /\ UNCHANGED <<table, stream>> /\ batch # <<>> /\ New = None
      BY DEF DeleteGroup, TypeInv, HandlerInv
    <2>7. CreateGroup => (Throw /\ hpc # "idle") \/ UNCHANGED <<table, stream, batch>>
      BY DEF CreateGroup
    <2> QED
      BY <1>6, <1>7, <1>8, <1>9, <1>10, <2>1, <2>2, <2>3, <2>4, <2>5, <2>6, <2>7 DEF Handler
  <1>11. ASSUME HandlerTimesOut PROVE ShiftCases
    BY <1>7, <1>11 DEF HandlerTimesOut
  <1> QED
    BY <1>5, <1>10, <1>11 DEF Next, Outside

\* The rule in the way stays, and no rule comes by an ARN that some event names.
LEMMA DoomRules ==
    ASSUME TypeInv, OwnerInv, ShiftCases, [Next]_vars, NEW i \in Ids,
           NEW k \in DOMAIN Queue, NEW r \in rules, Doom(i, k, r), i \notin spoiled'
    PROVE  /\ r \in rules'
           /\ \A s \in rules' : s.arn # Queue[k].new.meta.rule
  <1>1. Queue \in Seq(Events) /\ Len(Queue) \in Nat /\ k \in EventsOf(Queue, i)
    BY QueueFacts DEF TypeInv, Doom
  <1>2. k \in 1..Len(Queue) /\ Queue[k].id = i
    BY <1>1, InEventsOf
  <1>3. Queue[k].new.meta \in Metas(i)
    BY <1>1 DEF Metas
  <1>4. Queue[k].new.meta.rule \in 0..arns /\ arns \in Nat
    BY <1>3 DEF OwnerInv, Owns, TypeInv, AwsTypes
  <1>5. \A s \in rules' : s.arn # Queue[k].new.meta.rule
    <2>1. \A s \in rules : s.arn # Queue[k].new.meta.rule
      BY DEF Doom, RuleWith
    <2>2. \A s \in rules' : s.arn = arns + 1 \/ \E x \in rules : x.arn = s.arn
      BY AwsSteps DEF AwsStep
    <2> QED
      BY <1>4, <2>1, <2>2
  <1>6. r \in rules'
    <2>1. CASE rules' = rules
      BY <2>1
    <2>2. CASE rules' # rules
      <3>1. hpc # "idle" /\ (ModifyRule \/ SetPriority \/ DeleteRule \/ CreateRule)
        <4>1. ~Outside
          BY <2>2, OutsideAws DEF Regrouped
        <4> QED
          BY <2>2, <4>1 DEF Next, Outside, Handler, TakeBatch, NothingChanged, ModifyRule,
             SetPriority, DeleteRule, DeleteGroup, DeletionFails, CreateGroup, CreateRule,
             PutMetadata, HandlerTimesOut, Throw, aws
      <3>2. batch # <<>>
        BY <3>1 DEF TypeInv, HandlerInv
      <3>3. Old = Queue[1].old /\ New = Queue[1].new /\ 1 \in 1..k
        BY <1>2, <3>2, HeadFacts
      <3>4. r.arn # Old.meta.rule /\ r.arn # New.meta.rule
        BY <3>3 DEF Doom
      <3>5. r \notin RuleWith(New.meta.rule) /\ r \notin RuleWith(Gone.rule)
        BY <3>4 DEF RuleWith, Gone
      <3> QED
        BY <3>1, <3>5 DEF ModifyRule, SetPriority, DeleteRule, DeletionFails, CreateRule, Throw, aws
    <2> QED
      BY <2>1, <2>2
  <1> QED
    BY <1>5, <1>6

\* At the head an event that is going to fail goes on until a group is to be created.
LEMMA DoomHead ==
    ASSUME TypeInv, [Next]_vars, NEW i, NEW r \in rules, Doom(i, 1, r), batch # <<>>, batch' = batch
    PROVE  /\ hpc' \in {"modify", "priority", "deleteRule", "deleteGroup", "create"}
           /\ hpc' = "priority" => /\ New.spec.condition = Old.spec.condition
                                   /\ New.spec.priority = Old.spec.priority
  <1>1. /\ hpc \in {"modify", "priority", "deleteRule", "deleteGroup", "create"}
        /\ hpc = "priority" => /\ New.spec.condition = Old.spec.condition
                               /\ New.spec.priority = Old.spec.priority
    BY DEF Doom
  <1>2. Old = Queue[1].old /\ New = Queue[1].new
    BY HeadFacts
  <1>3. RuleWith(New.meta.rule) = {} /\ r.priority = New.spec.priority /\ New # None
    BY <1>2 DEF Doom, Deletion
  <1>4. CASE hpc' = hpc
    BY <1>1, <1>4
  <1>5. CASE hpc' # hpc
    <2>1. ~Throw
      BY DEF Throw, Goto
    <2>2. ~Valid(New.spec.priority)
      BY <1>3 DEF Valid
    <2>3. Tail(batch) # batch
      <3>1. batch \in Seq(Events) /\ Len(batch) \in Nat
        BY LenProperties DEF TypeInv, DataTypes
      <3>2. Len(Tail(batch)) = Len(batch) - 1
        BY <3>1, HeadTailProperties, EmptySeq
      <3> DEFINE rest == Tail(batch)
      <3>3. Len(rest) = Len(batch) - 1
        BY <3>2
      <3> HIDE DEF rest
      <3>4. rest # batch
        BY <3>1, <3>3
      <3> QED
        BY <3>4 DEF rest
    <2>4. ~EventDone
      BY <2>3 DEF EventDone, Goto
    <2>5. ~Outside
      BY <1>5, OutsideAws DEF Regrouped, handlerVars
    <2> QED
      BY <1>1, <1>3, <1>5, <2>1, <2>2, <2>4, <2>5
         DEF Next, Outside, Handler, TakeBatch, NothingChanged, ModifyRule, SetPriority, DeleteRule,
             DeleteGroup, CreateGroup, CreateRule, PutMetadata, HandlerTimesOut
  <1> QED
    BY <1>4, <1>5

\* An event that is going to fail moves to the head and is not done there.
LEMMA DoomStep ==
    ASSUME TypeInv, OwnerInv, [Next]_vars, NEW i \in Ids, Doomed(i), i \notin spoiled'
    PROVE  Doomed(i)'
  <1>1. PICK k \in DOMAIN Queue : \E r \in rules : Doom(i, k, r)
    BY DEF Doomed
  <1>2. PICK r \in rules : Doom(i, k, r)
    BY <1>1
  <1>3. ShiftCases
    BY ShiftSteps
  <1>4. /\ Queue \in Seq(Events) /\ Len(Queue) \in Nat /\ k \in 1..Len(Queue)
        /\ Len(batch) \in 0..Len(Queue) /\ Len(batch) \in Nat
        /\ \A l \in 1..Len(batch) : Queue[l] = batch[l]
        /\ DOMAIN batch = 1..Len(batch) /\ Queue[k].id = i
    BY <1>2, QueueFacts, InEventsOf DEF TypeInv, Doom
  <1>5. r \in rules' /\ \A s \in rules' : s.arn # Queue[k].new.meta.rule
    BY <1>2, <1>3, DoomRules
  <1>6. Queue' \in Seq(Events) /\ DOMAIN Queue' = 1..Len(Queue') /\ Len(Queue') \in Nat
    <2>1. TypeInv'
      BY NextTypes
    <2>2. batch' \in Seq(Events) /\ stream' \in Seq(Events)
      BY <2>1 DEF TypeInv, DataTypes
    <2>3. Queue' \in Seq(Events)
      BY <2>2, ConcatProperties DEF Queue
    <2> QED
      BY <2>3, LenProperties
  <1>7. ASSUME NEW n \in 0..(k - 1), Shifted(n),
               k - n = 1 /\ batch' # <<>> =>
                 /\ hpc' \in {"modify", "priority", "deleteRule", "deleteGroup", "create"}
                 /\ hpc' = "priority" => /\ New'.spec.condition = Old'.spec.condition
                                         /\ New'.spec.priority = Old'.spec.priority
        PROVE  Doomed(i)'
    <2>1. /\ k - n \in 1..Len(Queue') /\ Queue'[k - n] = Queue[k]
          /\ \A l \in 1..(k - n) : Queue'[l] = Queue[l + n] /\ l + n \in 1..k
      <3>1. ASSUME NEW l \in 1..(k - n)
            PROVE  Queue'[l] = Queue[l + n] /\ l + n \in 1..k
        <4>1. l + n \in 1..Len(Queue) /\ l + n > n /\ (l + n) - n = l /\ l + n \in 1..k
          BY <1>4
        <4>2. Queue'[(l + n) - n] = Queue[l + n]
          BY <1>7, <4>1 DEF Shifted
        <4> QED
          BY <4>1, <4>2
      <3>2. k - n \in 1..Len(Queue') /\ Queue'[k - n] = Queue[k]
        BY <1>4, <1>7 DEF Shifted
      <3> QED
        BY <3>1, <3>2
    <2>2. k - n \in EventsOf(Queue', i)
      BY <1>4, <1>6, <2>1 DEF EventsOf
    <2>3. \A l \in 1..(k - n) : r.arn # Queue'[l].old.meta.rule /\ r.arn # Queue'[l].new.meta.rule
      BY <1>2, <2>1 DEF Doom
    <2>4. Changes(Queue'[k - n]) /\ ~Deletion(Queue'[k - n]) /\ r.priority = Queue'[k - n].new.spec.priority
      BY <1>2, <2>1 DEF Doom
    <2>5. {s \in rules' : s.arn = Queue'[k - n].new.meta.rule} = {}
      BY <1>5, <2>1
    <2>6. Doom(i, k - n, r)'
      BY <1>5, <1>7, <2>2, <2>3, <2>4, <2>5 DEF Doom, RuleWith
    <2>7. k - n \in DOMAIN Queue'
      BY <1>6, <2>1
    <2> QED
      BY <1>5, <2>6, <2>7 DEF Doomed
  <1>8. batch' # <<>> => Queue'[1] = Head(batch') /\ New' = Head(batch').new /\ Old' = Head(batch').old
    <2>1. TypeInv'
      BY NextTypes
    <2>2. batch' \in Seq(Events) /\ stream' \in Seq(Events)
      BY <2>1 DEF TypeInv, DataTypes
    <2>3. batch' # <<>> => (batch' \o stream')[1] = Head(batch')
      BY <2>2, ConcatProperties, EmptySeq
    <2> QED
      BY <2>3 DEF Queue, New, Old
  <1>9. Going /\ batch' # <<>> /\ Queue'[1] = Queue[k] => hpc' \in {"create", "modify"}
    BY <1>2, <1>8 DEF Going, Doom, Changes, Deletion, Call
  <1>10. CASE Shifted(0) /\ batch' = batch
    <2>1. 0 \in 0..(k - 1) /\ (k - 0 = 1 => k = 1)
      BY <1>4
    <2>2. k = 1 /\ batch' # <<>> =>
            /\ hpc' \in {"modify", "priority", "deleteRule", "deleteGroup", "create"}
            /\ hpc' = "priority" => /\ New'.spec.condition = Old'.spec.condition
                                    /\ New'.spec.priority = Old'.spec.priority
      BY <1>2, <1>10, DoomHead DEF New, Old
    <2> QED
      BY <1>7, <1>10, <2>1, <2>2
  <1>11. CASE Shifted(0) /\ batch = <<>> /\ Going
    <2>1. 0 \in 0..(k - 1) /\ (k - 0 = 1 => k = 1)
      BY <1>4
    <2>2. k = 1 => Queue'[1] = Queue[k]
      BY <1>4, <1>11 DEF Shifted
    <2>3. k = 1 /\ batch' # <<>> => hpc' \in {"create", "modify"}
      BY <1>9, <1>11, <2>2
    <2> QED
      BY <1>7, <1>11, <2>1, <2>3
  <1>12. CASE /\ Shifted(1) /\ batch # <<>> /\ Going /\ batch' = Tail(batch)
              /\ \/ NothingChanged \/ PutMetadata
                 \/ SetPriority /\ New.spec.target = Old.spec.target
                 \/ DeleteGroup /\ New = None
    <2>1. k # 1
      <3> SUFFICES ASSUME k = 1 PROVE FALSE
        OBVIOUS
      <3>1. Old = Queue[1].old /\ New = Queue[1].new
        BY <1>12, HeadFacts
      <3>2. /\ hpc \in {"modify", "priority", "deleteRule", "deleteGroup", "create"}
            /\ hpc = "priority" => /\ New.spec.condition = Old.spec.condition
                                   /\ New.spec.priority = Old.spec.priority
            /\ New # None /\ New.spec # Old.spec
        BY <1>2, <1>12, <3>1 DEF Doom, Deletion, Changes
      <3>3. hpc = "priority" /\ New.spec.target = Old.spec.target
        BY <1>12, <3>2 DEF NothingChanged, PutMetadata, SetPriority, DeleteGroup
      <3>4. New.spec \in Specs /\ Old.spec \in Specs
        BY <1>12, <3>3, BatchTypes, RecordFacts DEF TypeInv, HandlerInv
      <3>5. New.spec = Old.spec
        BY <3>2, <3>3, <3>4, SpecFacts
      <3> QED
        BY <3>2, <3>5
    <2>2. 1 \in 0..(k - 1) /\ (k - 1 = 1 => k = 2)
      BY <1>4, <2>1
    <2>3. k = 2 => Queue'[1] = Queue[k]
      BY <1>4, <1>12 DEF Shifted
    <2>4. k - 1 = 1 /\ batch' # <<>> => hpc' \in {"create", "modify"}
      BY <1>9, <1>12, <2>2, <2>3
    <2> QED
      BY <1>7, <1>12, <2>2, <2>4
  <1>13. CASE Shifted(Len(batch)) /\ Throw /\ batch # <<>>
    <2>1. batch' = <<>>
      BY <1>13 DEF Throw, Goto
    <2>2. k > Len(batch)
      <3>1. k \in 1..Len(batch) => batch[k].id = i /\ k \in DOMAIN batch
        BY <1>4
      <3>2. k \notin 1..Len(batch)
        BY <1>13, <3>1 DEF Throw
      <3> QED
        BY <1>4, <3>2
    <2>3. Len(batch) \in 0..(k - 1)
      BY <1>4, <2>2
    <2> QED
      BY <1>7, <1>13, <2>1, <2>3
  <1> QED
    BY <1>3, <1>10, <1>11, <1>12, <1>13 DEF ShiftCases

-----------------------------------------------------------------------------
(***************************************************************************)
(* What AWS holds for an id that is not spoiled, and not doomed: what the  *)
(* record before its first event asks for, under the ARNs a that the       *)
(* events name, and in between what the handler has done of that event.    *)
(***************************************************************************)
HasGroup(i, arn, target) ==
    \E g \in groups : GroupsOf(i) = {g} /\ g.arn = arn /\ g.target = target

HasRule(i, a, condition, priority) ==
    RulesOf(i) = {[arn |-> a.rule, condition |-> condition, priority |-> priority,
                   group |-> a.group]}

Has(i, a, target, condition, priority) ==
    a # NoArns /\ HasGroup(i, a.group, target) /\ HasRule(i, a, condition, priority)

Serves(i, a, record) ==
    IF a = NoArns THEN record = None /\ GroupsOf(i) = {}
    ELSE /\ record # None
         /\ Has(i, a, record.spec.target, record.spec.condition, record.spec.priority)

\* The handler has done nothing of an event of i.
Unbegun(i) == ~InHand(i) \/ hpc \in {"nothing", "modify"} \/ (hpc = "deleteRule" /\ New = None)

Waiting(i, a) ==
    Unbegun(i) => \A record \in Currents(Queue, table[i], i) : Serves(i, a, record)

\* The new group and the new rule have ARNs that no record names yet.
Fresh(i) ==
    /\ GroupsOf(i) = {[arn |-> made.group, id |-> i, target |-> New.spec.target, ips |-> {}]}
    /\ \A meta \in Metas(i) : meta.group # made.group

FreshRule(i) ==
    /\ HasRule(i, made, New.spec.condition, New.spec.priority)
    /\ \A meta \in Metas(i) : meta.rule # made.rule

InWork(i, a) ==
    InHand(i) =>
        /\ hpc = "priority" => Has(i, a, Old.spec.target, New.spec.condition, Old.spec.priority)
        /\ hpc = "deleteRule" /\ New # None =>
             Has(i, a, Old.spec.target, New.spec.condition, New.spec.priority)
        /\ hpc = "deleteGroup" => HasGroup(i, a.group, Old.spec.target) /\ RulesOf(i) = {}
        /\ hpc = "create" => GroupsOf(i) = {}
        /\ hpc \in {"createRule", "put"} => Fresh(i)
        /\ hpc = "createRule" => RulesOf(i) = {}
        /\ hpc = "put" => FreshRule(i)

\* The addresses registered in a group while the monitor works on its record.
Registered(i, group) ==
    IF Working /\ item.id = i /\ item.meta.group = group
    THEN IF mpc = "register" THEN item.read.meta.ips
         ELSE IF mpc = "deregister" THEN item.read.meta.ips \cup item.meta.ips
         ELSE item.meta.ips
    ELSE table[i].meta.ips

Ips(i, a) ==
    Undeleted(Queue, i, Len(Queue) + 1) =>
        \A g \in GroupsOf(i) : g.arn = a.group => g.ips = Registered(i, g.arn)

\* What the monitor has read of the group that the table names is still there.
Link(i) ==
    /\ \A s \in scanned :
         s.id = i /\ s.record.meta.group = table[i].meta.group => s.record.meta = table[i].meta
    /\ Working /\ item.id = i /\ item.read.meta.group = table[i].meta.group =>
         item.read.meta = table[i].meta

Clean(i, a) ==
    /\ Tells(Queue, table[i], i, a)
    /\ Waiting(i, a)
    /\ InWork(i, a)
    /\ Ips(i, a)
    /\ Link(i)

CleanInv ==
    \A i \in Ids \ spoiled : Doomed(i) \/ \E a \in [group : Nat, rule : Nat] : Clean(i, a)

-----------------------------------------------------------------------------
(* The head of the queue, and the next event the handler turns to *)

LEMMA HeadNow ==
    ASSUME TypeInv, NEW i, InHand(i)
    PROVE  /\ i \in Ids /\ Queue \in Seq(Events) /\ Queue # <<>> /\ Len(Queue) \in Nat
           /\ 1 \in 1..Len(Queue) /\ 1 \in 0..Len(Queue)
           /\ 1 \in EventsOf(Queue, i) /\ Queue[1] = Head(batch) /\ Queue[1].id = i
           /\ Old = Queue[1].old /\ New = Queue[1].new
           /\ Old \in Records \cup {None} /\ New \in Records \cup {None}
           /\ Old.meta \in Metas(i) /\ New.meta \in Metas(i)
           /\ Undeleted(Queue, i, 1)
           /\ Undeleted(Queue, i, 2) <=> New # None
  <1>1. batch # <<>> /\ Head(batch).id = i
    BY DEF InHand
  <1>2. /\ Queue \in Seq(Events) /\ Queue # <<>> /\ Len(Queue) \in Nat
        /\ Len(batch) \in 0..Len(Queue) /\ 1 \in 1..Len(batch) /\ 1 \in 0..Len(Queue)
    BY <1>1, QueueFacts DEF TypeInv
  <1>3. /\ 1 \in EventsOf(Queue, i) /\ Queue[1] = Head(batch) /\ i \in Ids
        /\ Old = Queue[1].old /\ New = Queue[1].new
        /\ Old.meta \in Metas(i) /\ New.meta \in Metas(i)
    BY <1>1, HeadFacts
  <1>4. Old \in Records \cup {None} /\ New \in Records \cup {None}
    BY <1>1, BatchTypes DEF TypeInv
  <1>5. \A d \in EventsOf(Queue, i) : d \in 1..Len(Queue)
    BY <1>2, InEventsOf
  <1>6. Undeleted(Queue, i, 1) /\ (Undeleted(Queue, i, 2) <=> ~Deletion(Queue[1]))
    BY <1>2, <1>3, <1>5 DEF Undeleted
  <1> QED
    BY <1>1, <1>2, <1>3, <1>4, <1>6 DEF Deletion

\* Records of an event that changes what is asked for name the ARNs.
LEMMA HeadArns ==
    ASSUME TypeInv, NEW i, NEW a, InHand(i), Tells(Queue, table[i], i, a), Changes(Head(batch))
    PROVE  ArnsOf(Old.meta) = a /\ (New # None => ArnsOf(New.meta) = a)
  BY HeadNow DEF Tells, Deletion

LEMMA CurrentHead ==
    ASSUME TypeInv, NEW i, InHand(i), NEW record
    PROVE  Old \in Currents(Queue, record, i)
  <1>1. /\ Queue \in Seq(Events) /\ 1 \in EventsOf(Queue, i) /\ Len(Queue) \in Nat
        /\ Old = Queue[1].old
    BY HeadNow
  <1>2. \A l \in EventsOf(Queue, i) : 1 <= l
    BY <1>1, InEventsOf
  <1> QED
    BY <1>1, <1>2 DEF Currents

\* The handler turns to an event of an id that is as the events say, or to none.
LEMMA Begins ==
    ASSUME TypeInv', Going, NEW i \in Ids, NEW a, Tells(Queue', table'[i], i, a),
           \A record \in Currents(Queue', table'[i], i) : Serves(i, a, record)'
    PROVE  Waiting(i, a)' /\ InWork(i, a)'
  <1>1. Waiting(i, a)'
    BY DEF Waiting
  <1>2. InWork(i, a)'
    <2> SUFFICES ASSUME InHand(i)' PROVE InWork(i, a)'
      BY DEF InWork
    <2> DEFINE e == Head(batch')
    <2>1. batch' # <<>> /\ e.id = i /\ batch' \in Seq(Events) /\ stream' \in Seq(Events)
          /\ Old' = e.old /\ New' = e.new
      BY DEF InHand, TypeInv, DataTypes, Old, New
    <2>2. /\ Queue' \in Seq(Events) /\ Queue'[1] = e /\ DOMAIN Queue' = 1..Len(Queue')
          /\ Len(Queue') \in Nat /\ 1 \in 1..Len(Queue')
      BY <2>1, ConcatProperties, EmptySeq, LenProperties DEF Queue
    <2>3. 1 \in EventsOf(Queue', i) /\ \A l \in EventsOf(Queue', i) : 1 <= l
      BY <2>1, <2>2 DEF EventsOf
    <2>4. Undeleted(Queue', i, 1)
      BY <2>2, <2>3 DEF Undeleted, EventsOf
    <2>5. PICK old \in Currents(Queue', table'[i], i) : old = e.old
      BY <2>2, <2>3 DEF Currents
    <2>6. Serves(i, a, old)'
      OBVIOUS
    <2>7. Changes(e) => ArnsOf(e.old.meta) = a
      BY <2>2, <2>3, <2>4 DEF Tells
    <2>8. hpc' = Call(e) /\ e \in Events
      BY <2>1, <2>2, ElementOfSeq DEF Going
    <2> HIDE DEF e
    <2>9. /\ hpc' \in {"create", "deleteRule", "nothing", "modify"}
          /\ hpc' = "deleteRule" => New' = None
      BY <2>1, <2>8 DEF Call
    <2>10. hpc' = "create" => GroupsOf(i)' = {}
      <3>1. CASE e.old = None
        BY <2>5, <2>6, <3>1 DEF Serves
      <3>2. CASE hpc' = "create" /\ e.old # None
        <4>1. Changes(e) /\ e.old.meta = NoMeta
          BY <2>8, <3>2 DEF Call, Changes
        <4>2. a = NoArns
          BY <2>7, <4>1 DEF NoArns
        <4> QED
          BY <2>6, <4>2 DEF Serves
      <3> QED
        BY <3>1, <3>2
    <2> QED
      BY <2>9, <2>10 DEF InWork
  <1> QED
    BY <1>1, <1>2

-----------------------------------------------------------------------------
(* What the handler does for one id leaves the others alone *)

AwsSame(i) == GroupsOf(i)' = GroupsOf(i) /\ RulesOf(i)' = RulesOf(i)

LEMMA RulesApart ==
    ASSUME OwnerInv, NEW i, NEW j, i # j
    PROVE  \A r \in RulesOf(i) : r \notin RulesOf(j)
  BY DEF OwnerInv, ArnsUnique, RulesOf

LEMMA HandlerElse ==
    ASSUME TypeInv, OwnerInv, Handler \/ HandlerTimesOut, NEW i \in Ids, ~InHand(i)
    PROVE  AwsSame(i)
  <1>1. CASE UNCHANGED aws
    BY <1>1 DEF aws, AwsSame, GroupsOf, RulesOf
  <1>2. CASE ~UNCHANGED aws
    <2> DEFINE j == Head(batch).id
    <2>1. hpc # "idle" /\ batch # <<>>
      BY <1>2 DEF Handler, TakeBatch, NothingChanged, ModifyRule, SetPriority, DeleteRule,
                  DeleteGroup, CreateGroup, CreateRule, PutMetadata, HandlerTimesOut,
                  TypeInv, HandlerInv
    <2>2. j \in Ids /\ j # i /\ Old.meta \in Metas(j) /\ New.meta \in Metas(j)
      BY <2>1, HeadFacts DEF InHand
    <2>3. Owns(j, Old.meta) /\ Owns(j, New.meta)
      BY <2>2 DEF OwnerInv
    <2> HIDE DEF j
    <2>4. \A r \in RulesOf(i) : r \notin RuleWith(New.meta.rule) /\ r \notin RuleWith(Gone.rule)
      <3>1. \A r \in RulesOf(i) : r \in rules /\ r \notin RulesOf(j)
        BY <2>2, RulesApart DEF RulesOf
      <3> QED
        BY <2>3, <3>1 DEF RuleWith, Owns, Gone
    <2>5. \A g \in groups : g.arn = New.meta.group \/ g.arn = Gone.group => g.id # i
      BY <2>2, <2>3 DEF Owns, Gone
    <2>6. \A g \in groups : g.arn \in 1..arns
      BY DEF TypeInv, AwsTypes
    <2>7. \A r \in rules : r.group \in 1..arns
      BY DEF TypeInv, AwsTypes
    <2>8. arns \in Nat
      BY DEF TypeInv, AwsTypes
    <2>9. CASE ModifyRule
      <3>1. /\ rules' = (rules \ RuleWith(New.meta.rule)) \cup
                 {[arn |-> r.arn, condition |-> New.spec.condition, priority |-> r.priority,
                   group |-> New.meta.group] : r \in RuleWith(New.meta.rule)}
            /\ groups' = groups
        BY <1>2, <2>9 DEF ModifyRule, Throw, aws
      <3> QED
        BY <2>4, <2>5, <3>1 DEF AwsSame, GroupsOf, RulesOf
    <2>10. CASE SetPriority
      <3>1. /\ rules' = (rules \ RuleWith(New.meta.rule)) \cup
                 {[r EXCEPT !.priority = New.spec.priority] : r \in RuleWith(New.meta.rule)}
            /\ groups' = groups
        BY <1>2, <2>10 DEF SetPriority, Throw, aws
      <3>2. \A r \in rules : [r EXCEPT !.priority = New.spec.priority].group = r.group
        BY DEF TypeInv, AwsTypes
      <3>3. \A r \in rules : r \in RuleWith(New.meta.rule) =>
               \A g \in groups : g.id = i => g.arn # r.group
        BY <2>4 DEF RulesOf
      <3>4. ASSUME NEW r \in rules', r \notin rules
            PROVE  \A g \in groups : g.id = i => g.arn # r.group
        <4>1. PICK s \in RuleWith(New.meta.rule) : r = [s EXCEPT !.priority = New.spec.priority]
          BY <3>1, <3>4
        <4>2. s \in rules
          BY DEF RuleWith
        <4> QED
          BY <3>2, <3>3, <4>1, <4>2
      <3>5. \A r \in RulesOf(i) : r \in rules'
        BY <2>4, <3>1 DEF RulesOf
      <3> QED
        BY <3>1, <3>4, <3>5 DEF AwsSame, GroupsOf, RulesOf
    <2>11. CASE DeleteRule
      BY <1>2, <2>4, <2>11 DEF DeleteRule, DeletionFails, AwsSame, GroupsOf, RulesOf, aws
    <2>12. CASE DeleteGroup
      <3>1. groups' = {g \in groups : g.arn = Gone.group => \E r \in rules : r.group = g.arn}
            /\ rules' = rules
        BY <1>2, <2>12 DEF DeleteGroup, DeletionFails, aws
      <3>2. GroupsOf(i)' = GroupsOf(i)
        BY <2>5, <3>1 DEF GroupsOf
      <3>3. RulesOf(i)' = RulesOf(i)
        BY <2>5, <3>1 DEF RulesOf
      <3> QED
        BY <3>2, <3>3 DEF AwsSame
    <2>13. CASE CreateGroup
      <3> DEFINE g == [arn |-> arns + 1, id |-> j, target |-> New.spec.target, ips |-> {}]
      <3>1. groups' = groups \cup {g} /\ rules' = rules /\ g.id # i
        BY <1>2, <2>2, <2>13 DEF CreateGroup, Throw, aws, j
      <3> HIDE DEF g
      <3> QED
        BY <3>1 DEF AwsSame, GroupsOf, RulesOf
    <2>14. CASE CreateRule
      <3> DEFINE r == [arn |-> arns + 1, condition |-> New.spec.condition,
                       priority |-> New.spec.priority, group |-> made.group]
      <3>1. rules' = rules \cup {r} /\ groups' = groups /\ r.group = made.group
        BY <2>14 DEF CreateRule
      <3> HIDE DEF r
      <3>2. PICK g \in groups : g.arn = made.group /\ g.id = j
        BY <2>14 DEF CreateRule, OwnerInv, MadeInv, j
      <3>3. \A h \in groups : h.arn = made.group => h.id # i
        BY <2>2, <3>2 DEF OwnerInv, ArnsUnique
      <3> QED
        BY <3>1, <3>3 DEF AwsSame, GroupsOf, RulesOf
    <2> QED
      BY <1>2, <2>9, <2>10, <2>11, <2>12, <2>13, <2>14
         DEF Handler, TakeBatch, NothingChanged, PutMetadata, HandlerTimesOut, Throw, aws
  <1> QED
    BY <1>1, <1>2

LEMMA ServesSame ==
    ASSUME NEW i, AwsSame(i)
    PROVE  /\ \A arn, target : HasGroup(i, arn, target) => HasGroup(i, arn, target)'
           /\ \A a, condition, priority :
                HasRule(i, a, condition, priority) => HasRule(i, a, condition, priority)'
           /\ \A a, target, condition, priority :
                Has(i, a, target, condition, priority) => Has(i, a, target, condition, priority)'
           /\ \A a, record : Serves(i, a, record) => Serves(i, a, record)'
  <1>1. \A arn, target : HasGroup(i, arn, target) => HasGroup(i, arn, target)'
    <2> SUFFICES ASSUME NEW arn, NEW target, HasGroup(i, arn, target)
                 PROVE  HasGroup(i, arn, target)'
      OBVIOUS
    <2>1. PICK g \in groups : GroupsOf(i) = {g} /\ g.arn = arn /\ g.target = target
      BY DEF HasGroup
    <2>2. g \in groups' /\ GroupsOf(i)' = {g}
      BY <2>1 DEF AwsSame, GroupsOf
    <2> QED
      BY <2>1, <2>2 DEF HasGroup
  <1>2. \A a, condition, priority :
          HasRule(i, a, condition, priority) => HasRule(i, a, condition, priority)'
    BY DEF HasRule, AwsSame
  <1>3. \A a, target, condition, priority :
          Has(i, a, target, condition, priority) => Has(i, a, target, condition, priority)'
    BY <1>1, <1>2 DEF Has
  <1>4. \A a, record : Serves(i, a, record) => Serves(i, a, record)'
    BY <1>3 DEF Serves, AwsSame
  <1> QED
    BY <1>1, <1>2, <1>3, <1>4

LEMMA MonitorSame ==
    ASSUME NEW i, UNCHANGED monitorVars, table'[i] = table[i]
    PROVE  /\ Link(i) => Link(i)'
           /\ \A group : Registered(i, group)' = Registered(i, group)
           /\ \A a : Ips(i, a) /\ GroupsOf(i)' = GroupsOf(i)
                     /\ (Undeleted(Queue, i, Len(Queue) + 1)' => Undeleted(Queue, i, Len(Queue) + 1))
                     => Ips(i, a)'
  <1>1. \A group : Registered(i, group)' = Registered(i, group)
    BY DEF Registered, Working, monitorVars
  <1>2. Link(i) => Link(i)'
    BY DEF Link, Working, monitorVars
  <1> QED
    BY <1>1, <1>2 DEF Ips

\* Events of others go from the head of the queue.
LEMMA OthersGo ==
    ASSUME NEW q \in Seq(Events), NEW i, NEW record, NEW a, NEW n \in 0..Len(q),
           \A k \in 1..n : q[k].id # i, Tells(q, record, i, a)
    PROVE  /\ Drop(q, n) \in Seq(Events)
           /\ Tells(Drop(q, n), record, i, a)
           /\ Currents(Drop(q, n), record, i) \subseteq Currents(q, record, i)
           /\ Undeleted(Drop(q, n), i, Len(Drop(q, n)) + 1) => Undeleted(q, i, Len(q) + 1)
  <1>1. Len(q) \in Nat
    BY LenProperties
  <1>2. Undeleted(q, i, n + 1)
    <2>1. \A d \in EventsOf(q, i) : d \in 1..Len(q) /\ q[d].id = i
      BY InEventsOf
    <2> QED
      BY <1>1, <2>1 DEF Undeleted
  <1>3. Drop(q, n) \in Seq(Events) /\ Len(Drop(q, n)) = Len(q) - n
    BY DropIs
  <1>4. Tells(Drop(q, n), record, i, a)
    BY <1>2, TellsDrop
  <1>5. Currents(Drop(q, n), record, i) \subseteq Currents(q, record, i)
    BY CurrentsDropOther
  <1>6. Undeleted(Drop(q, n), i, Len(Drop(q, n)) + 1) => Undeleted(q, i, Len(q) + 1)
    <2> DEFINE k == Len(q) - n + 1
    <2>1. k \in 1..(Len(q) - n + 1) /\ k + n = Len(q) + 1
      BY <1>1
    <2> HIDE DEF k
    <2>2. Undeleted(Drop(q, n), i, k) => Undeleted(q, i, k + n)
      BY <1>2, <2>1, UndeletedDrop
    <2> QED
      BY <1>3, <2>1, <2>2 DEF k
  <1> QED
    BY <1>3, <1>4, <1>5, <1>6

\* Another one's record is written.
LEMMA OthersAppend ==
    ASSUME NEW q \in Seq(Events), NEW i, NEW record, NEW a, NEW e \in Events, e.id # i,
           Tells(q, record, i, a)
    PROVE  /\ Tells(Append(q, e), record, i, a)
           /\ Currents(Append(q, e), record, i) = Currents(q, record, i)
           /\ Undeleted(Append(q, e), i, Len(Append(q, e)) + 1) => Undeleted(q, i, Len(q) + 1)
  <1>1. Tells(Append(q, e), record, i, a)
    BY TellsAppendOther
  <1>2. Currents(Append(q, e), record, i) = Currents(q, record, i)
    BY CurrentsAppendOther
  <1>3. Len(Append(q, e)) + 1 = Len(q) + 2
    BY AppendProperties, LenProperties
  <1>4. Undeleted(Append(q, e), i, Len(q) + 2) => Undeleted(q, i, Len(q) + 1)
    BY UndeletedAppend
  <1> QED
    BY <1>1, <1>2, <1>3, <1>4

HandlerShape ==
    \/ UNCHANGED <<table, stream, batch>>
    \/ batch = <<>> /\ Going /\ Queue' = Queue /\ table' = table
    \/ batch # <<>> /\ Going /\ Queue' = Drop(Queue, 1) /\ table' = table
    \/ Throw /\ batch # <<>> /\ Going /\ Queue' = Drop(Queue, Len(batch)) /\ table' = table
    \/ PutMetadata /\ Going

LEMMA HandlerShapes ==
    ASSUME TypeInv, Handler \/ HandlerTimesOut
    PROVE  HandlerShape /\ UNCHANGED monitorVars
  <1>1. DataTypes
    BY DEF TypeInv
  <1>2. ASSUME batch # <<>>, EventDone, UNCHANGED <<table, stream>>
        PROVE  HandlerShape
    <2>1. Queue' = Drop(Queue, 1)
      BY <1>1, <1>2, QueueDone DEF Queue, EventDone, Goto
    <2> QED
      BY <1>2, <2>1 DEF HandlerShape, EventDone, Goto, Going
  <1>3. ASSUME Throw, hpc # "idle" PROVE HandlerShape
    <2>1. Queue' = Drop(Queue, Len(batch)) /\ table' = table /\ Going
      BY <1>1, <1>3, QueueThrow DEF Queue, Throw, Goto, Going
    <2>2. batch # <<>>
      BY <1>3 DEF TypeInv, HandlerInv
    <2> QED
      BY <1>3, <2>1, <2>2 DEF HandlerShape
  <1>4. ASSUME NEW n \in 1..Len(stream), TakeBatch(n) PROVE HandlerShape
    <2>1. batch = <<>>
      BY <1>4 DEF TakeBatch, TypeInv, HandlerInv
    <2>2. SubSeq(stream, 1, n) \o SubSeq(stream, n + 1, Len(stream)) = Queue
      BY <1>1, <2>1, QueueTake
    <2>3. Queue' = Queue
      BY <1>4, <2>2 DEF Queue, TakeBatch, Goto
    <2> QED
      BY <1>4, <2>1, <2>3 DEF HandlerShape, TakeBatch, Goto, Going
  <1>5. ASSUME Handler PROVE HandlerShape
    <2>1. CASE UNCHANGED <<table, stream, batch>>
      BY <2>1 DEF HandlerShape
    <2>2. NothingChanged => EventDone /\ UNCHANGED <<table, stream>> /\ batch # <<>>
      BY DEF NothingChanged, TypeInv, HandlerInv
    <2>3. ModifyRule => (Throw /\ hpc # "idle") \/ UNCHANGED <<table, stream, batch>>
      BY DEF ModifyRule
    <2>4. SetPriority => \/ (Throw /\ hpc # "idle") \/ UNCHANGED <<table, stream, batch>>
                         \/ EventDone /\ UNCHANGED <<table, stream>> /\ batch # <<>>
      BY DEF SetPriority, TypeInv, HandlerInv
    <2>5. DeleteRule \/ CreateRule => UNCHANGED <<table, stream, batch>>
      BY DEF DeleteRule, CreateRule
    <2>6. DeleteGroup => \/ UNCHANGED <<table, stream, batch>>
                         \/ EventDone /\ UNCHANGED <<table, stream>> /\ batch # <<>>
      BY DEF DeleteGroup, TypeInv, HandlerInv
    <2>7. CreateGroup => (Throw /\ hpc # "idle") \/ UNCHANGED <<table, stream, batch>>
      BY DEF CreateGroup
    <2>8. PutMetadata => HandlerShape
      BY DEF HandlerShape, PutMetadata, EventDone, Goto, Going
    <2> QED
      BY <1>2, <1>3, <1>4, <1>5, <2>1, <2>2, <2>3, <2>4, <2>5, <2>6, <2>7, <2>8 DEF Handler
  <1>6. UNCHANGED monitorVars
    BY DEF Handler, TakeBatch, NothingChanged, ModifyRule, SetPriority, DeleteRule, DeleteGroup,
           CreateGroup, CreateRule, PutMetadata, HandlerTimesOut
  <1> QED
    BY <1>3, <1>5, <1>6 DEF HandlerTimesOut

LEMMA CleanElse ==
    ASSUME TypeInv, OwnerInv, Handler \/ HandlerTimesOut, NEW i \in Ids, i \notin spoiled',
           ~InHand(i), NEW a, Clean(i, a)
    PROVE  Clean(i, a)'
  <1>1. AwsSame(i) /\ HandlerShape /\ UNCHANGED monitorVars
    BY HandlerElse, HandlerShapes
  <1>2. TypeInv'
    BY NextTypes DEF Next
  <1>3. /\ Queue \in Seq(Events) /\ Len(Queue) \in Nat /\ table \in [Ids -> Records \cup {None}]
        /\ Len(batch) \in 0..Len(Queue) /\ \A k \in 1..Len(batch) : Queue[k] = batch[k]
        /\ DOMAIN batch = 1..Len(batch)
        /\ batch # <<>> => Queue[1] = Head(batch) /\ 1 \in 0..Len(Queue)
    BY QueueFacts DEF TypeInv, DataTypes
  <1>4. /\ Tells(Queue, table[i], i, a) /\ Ips(i, a) /\ Link(i)
        /\ \A record \in Currents(Queue, table[i], i) : Serves(i, a, record)
    BY DEF Clean, Waiting, Unbegun
  <1>5. \A record : Serves(i, a, record) => Serves(i, a, record)'
    BY <1>1, ServesSame
  <1>6. CASE UNCHANGED <<table, stream, batch>>
    <2>1. Queue' = Queue /\ ~InHand(i)' /\ table'[i] = table[i]
      BY <1>6 DEF Queue, InHand
    <2>2. Tells(Queue, table[i], i, a)'
      BY <1>4, <2>1
    <2>3. Waiting(i, a)' /\ InWork(i, a)'
      BY <1>4, <1>5, <2>1 DEF Waiting, InWork
    <2>4. Ips(i, a)' /\ Link(i)'
      BY <1>1, <1>4, <2>1, MonitorSame DEF AwsSame
    <2> QED
      BY <2>2, <2>3, <2>4 DEF Clean
  <1>7. ASSUME Going, table'[i] = table[i], Tells(Queue', table[i], i, a),
               Currents(Queue', table[i], i) \subseteq Currents(Queue, table[i], i),
               Undeleted(Queue', i, Len(Queue') + 1) => Undeleted(Queue, i, Len(Queue) + 1)
        PROVE  Clean(i, a)'
    <2>1. Tells(Queue', table'[i], i, a)
      BY <1>7
    <2>2. \A record \in Currents(Queue', table'[i], i) : Serves(i, a, record)'
      BY <1>4, <1>5, <1>7
    <2>3. Waiting(i, a)' /\ InWork(i, a)'
      BY <1>2, <1>7, <2>1, <2>2, Begins
    <2>4. Ips(i, a)' /\ Link(i)'
      BY <1>1, <1>4, <1>7, MonitorSame DEF AwsSame
    <2> QED
      BY <2>1, <2>3, <2>4 DEF Clean
  <1>8. ASSUME NEW n \in 0..Len(Queue), \A k \in 1..n : Queue[k].id # i
        PROVE  /\ Drop(Queue, n) \in Seq(Events)
               /\ Tells(Drop(Queue, n), table[i], i, a)
               /\ Currents(Drop(Queue, n), table[i], i) \subseteq Currents(Queue, table[i], i)
               /\ Undeleted(Drop(Queue, n), i, Len(Drop(Queue, n)) + 1) =>
                    Undeleted(Queue, i, Len(Queue) + 1)
    BY <1>3, <1>4, <1>8, OthersGo
  <1>9. CASE batch = <<>> /\ Going /\ Queue' = Queue /\ table' = table
    BY <1>4, <1>7, <1>9
  <1>10. CASE batch # <<>> /\ Going /\ Queue' = Drop(Queue, 1) /\ table' = table
    <2>1. 1 \in 0..Len(Queue) /\ \A k \in 1..1 : Queue[k].id # i
      BY <1>3, <1>10 DEF InHand
    <2> QED
      BY <1>7, <1>8, <1>10, <2>1
  <1>11. CASE Throw /\ batch # <<>> /\ Going /\ Queue' = Drop(Queue, Len(batch)) /\ table' = table
    <2>1. \A k \in 1..Len(batch) : Queue[k].id # i
      BY <1>3, <1>11 DEF Throw
    <2> QED
      BY <1>3, <1>7, <1>8, <1>11, <2>1
  <1>12. CASE PutMetadata /\ Going
    <2> DEFINE j == Head(batch).id
               new == Record(New.spec, made)
               old == table[j]
               q == Drop(Queue, 1)
    <2>1. /\ batch # <<>> /\ j \in Ids /\ new \in Records \cup {None}
          /\ table' = [table EXCEPT ![j] = new]
          /\ Queue' = After(q, j, old, new)
      BY <1>12, PutQueue
    <2>2. j # i /\ 1 \in 0..Len(Queue) /\ \A k \in 1..1 : Queue[k].id # i
      BY <1>3, <2>1 DEF InHand
    <2>3. old \in Records \cup {None} /\ table'[i] = table[i]
      BY <1>3, <2>1, <2>2
    <2>4. /\ q \in Seq(Events) /\ Tells(q, table[i], i, a)
          /\ Currents(q, table[i], i) \subseteq Currents(Queue, table[i], i)
          /\ Undeleted(q, i, Len(q) + 1) => Undeleted(Queue, i, Len(Queue) + 1)
      BY <1>8, <2>2
    <2> HIDE DEF j, new, old, q
    <2> DEFINE record == table[i]
    <2>5. /\ q \in Seq(Events) /\ j \in Ids /\ j # i
          /\ old \in Records \cup {None} /\ new \in Records \cup {None}
          /\ Tells(q, record, i, a)
      BY <2>1, <2>2, <2>3, <2>4
    <2> HIDE DEF record
    <2>6. /\ Tells(After(q, j, old, new), record, i, a)
          /\ Currents(After(q, j, old, new), record, i) = Currents(q, record, i)
          /\ Undeleted(After(q, j, old, new), i, Len(After(q, j, old, new)) + 1) =>
               Undeleted(q, i, Len(q) + 1)
      <3>1. PICK e \in Events : e = [id |-> j, old |-> old, new |-> new]
        BY <2>5, EventOf
      <3>2. e.id # i
        BY <2>5, <3>1
      <3>3. After(q, j, old, new) = IF new = old THEN q ELSE Append(q, e)
        BY <3>1 DEF After
      <3> QED
        BY <2>5, <3>2, <3>3, OthersAppend
    <2>7. /\ Tells(Queue', table[i], i, a)
          /\ Currents(Queue', table[i], i) \subseteq Currents(Queue, table[i], i)
          /\ Undeleted(Queue', i, Len(Queue') + 1) => Undeleted(Queue, i, Len(Queue) + 1)
      BY <2>1, <2>4, <2>6 DEF record
    <2> QED
      BY <1>7, <1>12, <2>3, <2>7
  <1> QED
    BY <1>1, <1>6, <1>9, <1>10, <1>11, <1>12 DEF HandlerShape

-----------------------------------------------------------------------------
(* What the handler does for the id of the event at hand *)

LEMMA ThrowSpoils ==
    ASSUME TypeInv, NEW i, InHand(i), Throw
    PROVE  i \in spoiled'
  <1>1. batch # <<>> /\ Head(batch) = batch[1] /\ batch[1].id = i
    BY BatchTypes DEF InHand, TypeInv
  <1>2. 1 \in DOMAIN batch
    BY <1>1, QueueFacts DEF TypeInv
  <1> QED
    BY <1>1, <1>2 DEF Throw

LEMMA FailedDeletionSpoils ==
    ASSUME NEW i, InHand(i), DeletionFails
    PROVE  i \in spoiled'
  BY DEF InHand, DeletionFails

LEMMA HasFacts ==
    ASSUME OwnerInv, NEW i, NEW a, NEW target, NEW condition, NEW priority,
           Has(i, a, target, condition, priority)
    PROVE  /\ RuleWith(a.rule) = RulesOf(i)
           /\ \E g \in groups : GroupsOf(i) = {g} /\ g.arn = a.group /\ g.target = target
           /\ RulesOf(i) = {[arn |-> a.rule, condition |-> condition, priority |-> priority,
                             group |-> a.group]}
           /\ a # NoArns
  <1>1. /\ \E g \in groups : GroupsOf(i) = {g} /\ g.arn = a.group /\ g.target = target
        /\ RulesOf(i) = {[arn |-> a.rule, condition |-> condition, priority |-> priority,
                          group |-> a.group]}
        /\ a # NoArns
    BY DEF Has, HasGroup, HasRule
  <1> DEFINE x == [arn |-> a.rule, condition |-> condition, priority |-> priority,
                   group |-> a.group]
  <1>2. x \in RulesOf(i) /\ x.arn = a.rule
    BY <1>1
  <1> HIDE DEF x
  <1>3. x \in rules /\ RulesOf(i) = {x}
    BY <1>1, <1>2 DEF RulesOf, x
  <1>4. \A r \in rules : r.arn = a.rule => r = x
    BY <1>2, <1>3 DEF OwnerInv, ArnsUnique
  <1>5. RuleWith(a.rule) = {x}
    BY <1>2, <1>3, <1>4 DEF RuleWith
  <1> QED
    BY <1>1, <1>3, <1>5

\* An event that names ARNs is of a record that is served.
LEMMA HeadServed ==
    ASSUME TypeInv, OwnerInv, NEW i, InHand(i), NEW a, Clean(i, a), Unbegun(i), Old # None
    PROVE  Has(i, a, Old.spec.target, Old.spec.condition, Old.spec.priority)
  <1>1. Serves(i, a, Old)
    BY CurrentHead DEF Clean, Waiting
  <1> QED
    BY <1>1 DEF Serves

\* The handler goes on with the same event.
LEMMA StaysClean ==
    ASSUME NEW i, NEW a, UNCHANGED <<table, stream, batch, monitorVars>>, Clean(i, a),
           GroupsOf(i)' = GroupsOf(i) \/ Ips(i, a)', ~Unbegun(i)', InWork(i, a)'
    PROVE  Clean(i, a)'
  <1>1. Queue' = Queue /\ table'[i] = table[i]
    BY DEF Queue
  <1>2. Tells(Queue, table[i], i, a)'
    BY <1>1 DEF Clean
  <1>3. Ips(i, a)' /\ Link(i)'
    BY <1>1, MonitorSame DEF Clean
  <1> QED
    BY <1>2, <1>3 DEF Clean, Waiting

LEMMA ModifyClean ==
    ASSUME TypeInv, OwnerInv, ModifyRule, NEW i, InHand(i), i \notin spoiled', NEW a, Clean(i, a)
    PROVE  Clean(i, a)'
  <1>1. /\ hpc = "modify" /\ Old # None /\ New # None /\ Changes(Head(batch))
        /\ ~Throw
    BY ThrowSpoils DEF ModifyRule, TypeInv, HandlerInv
  <1>2. ArnsOf(New.meta) = a
    BY <1>1, HeadArns DEF Clean
  <1>3. New.meta.rule = a.rule /\ New.meta.group = a.group
    BY <1>2 DEF ArnsOf
  <1> DEFINE target == Old.spec.target
             condition == Old.spec.condition
             priority == Old.spec.priority
  <1>4. Has(i, a, target, condition, priority)
    BY <1>1, HeadServed DEF Unbegun
  <1> HIDE DEF target, condition, priority
  <1>5. PICK g \in groups : GroupsOf(i) = {g} /\ g.arn = a.group /\ g.target = target
    BY <1>4, HasFacts
  <1>6. /\ RuleWith(a.rule) = RulesOf(i) /\ a # NoArns
        /\ RulesOf(i) = {[arn |-> a.rule, condition |-> condition, priority |-> priority,
                          group |-> a.group]}
    BY <1>4, HasFacts
  <1>7. /\ UNCHANGED <<table, stream, batch, monitorVars, groups>> /\ hpc' = "priority"
        /\ \/ rules' = rules /\ New.spec.condition = condition
           \/ rules' = (rules \ RuleWith(New.meta.rule)) \cup
                 {[arn |-> r.arn, condition |-> New.spec.condition, priority |-> r.priority,
                   group |-> New.meta.group] : r \in RuleWith(New.meta.rule)}
    BY <1>1 DEF ModifyRule, aws, condition
  <1>8. GroupsOf(i)' = {g} /\ g \in groups'
    BY <1>5, <1>7 DEF GroupsOf
  <1>9. RulesOf(i)' = {[arn |-> a.rule, condition |-> New.spec.condition, priority |-> priority,
                        group |-> a.group]}
    <2>1. CASE rules' = rules /\ New.spec.condition = condition
      BY <1>6, <1>7, <2>1 DEF RulesOf
    <2>2. CASE rules' = (rules \ RuleWith(New.meta.rule)) \cup
                 {[arn |-> r.arn, condition |-> New.spec.condition, priority |-> r.priority,
                   group |-> New.meta.group] : r \in RuleWith(New.meta.rule)}
      <3> DEFINE x == [arn |-> a.rule, condition |-> New.spec.condition, priority |-> priority,
                       group |-> a.group]
      <3>1. rules' = (rules \ RulesOf(i)) \cup {x}
        BY <1>3, <1>6, <2>2
      <3>2. x.group = g.arn /\ g.id = i
        BY <1>5 DEF GroupsOf
      <3> HIDE DEF x
      <3>3. RulesOf(i)' = {x}
        BY <1>7, <1>8, <3>1, <3>2 DEF RulesOf
      <3> QED
        BY <3>3 DEF x
    <2> QED
      BY <1>7, <2>1, <2>2
  <1>10. InHand(i)' /\ Old' = Old /\ New' = New
    BY <1>7 DEF InHand, Old, New
  <1>11. InWork(i, a)' /\ ~Unbegun(i)'
    BY <1>5, <1>6, <1>7, <1>8, <1>9, <1>10
       DEF InWork, Unbegun, Has, HasGroup, HasRule, target, priority
  <1> QED
    BY <1>5, <1>7, <1>8, <1>11, StaysClean

LEMMA DoneQueue ==
    ASSUME TypeInv, NEW i, InHand(i), EventDone, UNCHANGED <<table, stream>>
    PROVE  Going /\ Queue' = Drop(Queue, 1)
  BY QueueDone DEF TypeInv, InHand, Queue, EventDone, Goto, Going

LEMMA HeadGoes ==
    ASSUME TypeInv, ChainInv, NEW i, InHand(i)
    PROVE  /\ Drop(Queue, 1) \in Seq(Events)
           /\ Currents(Drop(Queue, 1), table[i], i) \subseteq {New}
           /\ New # None =>
                /\ Undeleted(Drop(Queue, 1), i, Len(Drop(Queue, 1)) + 1) =>
                     Undeleted(Queue, i, Len(Queue) + 1)
                /\ \A a : Tells(Queue, table[i], i, a) => Tells(Drop(Queue, 1), table[i], i, a)
  <1> DEFINE record == table[i]
  <1>1. /\ i \in Ids /\ Queue \in Seq(Events) /\ Queue # <<>> /\ Len(Queue) \in Nat
        /\ 1 \in 1..Len(Queue) /\ 1 \in 0..Len(Queue) /\ Queue[1].id = i /\ New = Queue[1].new
        /\ Undeleted(Queue, i, 2) <=> New # None
    BY HeadNow
  <1>2. Chain(Queue, record, i)
    BY <1>1 DEF ChainInv
  <1> HIDE DEF record
  <1>3. Drop(Queue, 1) \in Seq(Events) /\ Len(Drop(Queue, 1)) = Len(Queue) - 1
    BY <1>1, DropIs
  <1>4. Currents(Drop(Queue, 1), record, i) \subseteq {New}
    BY <1>1, <1>2, CurrentsDropHead
  <1>5. CASE New # None
    <2>1. Undeleted(Queue, i, 1 + 1)
      BY <1>1, <1>5
    <2>2. \A a : Tells(Queue, record, i, a) => Tells(Drop(Queue, 1), record, i, a)
      BY <1>1, <2>1, TellsDrop
    <2> DEFINE k == Len(Queue) - 1 + 1
    <2>3. k \in 1..(Len(Queue) - 1 + 1) /\ k + 1 = Len(Queue) + 1
      BY <1>1
    <2> HIDE DEF k
    <2>4. Undeleted(Drop(Queue, 1), i, k) => Undeleted(Queue, i, k + 1)
      BY <1>1, <2>1, <2>3, UndeletedDrop
    <2> QED
      BY <1>3, <1>4, <2>2, <2>3, <2>4 DEF k, record
  <1> QED
    BY <1>3, <1>4, <1>5 DEF record

LEMMA DoneClean ==
    ASSUME TypeInv, TypeInv', ChainInv, NEW i, InHand(i), New # None, EventDone,
           UNCHANGED <<table, stream, monitorVars>>, GroupsOf(i)' = GroupsOf(i),
           NEW a, Clean(i, a), NEW record, record = New, Serves(i, a, record)'
    PROVE  Clean(i, a)'
  <1>1. Going /\ Queue' = Drop(Queue, 1) /\ i \in Ids
    BY DoneQueue, HeadNow
  <1>2. /\ Tells(Queue', table'[i], i, a)
        /\ Currents(Queue', table'[i], i) \subseteq {record}
        /\ Undeleted(Queue', i, Len(Queue') + 1) => Undeleted(Queue, i, Len(Queue) + 1)
    BY <1>1, HeadGoes DEF Clean
  <1>3. \A x \in Currents(Queue', table'[i], i) : Serves(i, a, x)'
    BY <1>2
  <1>4. Waiting(i, a)' /\ InWork(i, a)'
    BY <1>1, <1>2, <1>3, Begins
  <1>5. Ips(i, a)' /\ Link(i)'
    BY <1>2, MonitorSame DEF Clean
  <1> QED
    BY <1>2, <1>4, <1>5 DEF Clean

LEMMA NothingClean ==
    ASSUME TypeInv, TypeInv', ChainInv, OwnerInv, NothingChanged, NEW i, InHand(i), NEW a, Clean(i, a)
    PROVE  Clean(i, a)'
  <1>1. /\ hpc = "nothing" /\ Old # None /\ New # None /\ Old.spec = New.spec
        /\ EventDone /\ UNCHANGED <<table, stream, monitorVars>>
    BY DEF NothingChanged, TypeInv, HandlerInv, Changes, Old, New
  <1>2. Serves(i, a, Old)
    BY <1>1, CurrentHead DEF Clean, Waiting, Unbegun
  <1>3. PICK record : record = New
    OBVIOUS
  <1>4. Serves(i, a, record)
    BY <1>1, <1>2, <1>3 DEF Serves
  <1>5. AwsSame(i)
    BY DEF NothingChanged, aws, AwsSame, GroupsOf, RulesOf
  <1>6. Serves(i, a, record)'
    BY <1>4, <1>5, ServesSame
  <1> QED
    BY <1>1, <1>3, <1>5, <1>6, DoneClean DEF AwsSame

LEMMA PriorityClean ==
    ASSUME TypeInv, TypeInv', ChainInv, OwnerInv, SetPriority, NEW i, InHand(i), i \notin spoiled',
           NEW a, Clean(i, a)
    PROVE  Clean(i, a)'
  <1>1. /\ hpc = "priority" /\ Old # None /\ New # None /\ Changes(Head(batch))
        /\ ~Throw
    BY ThrowSpoils DEF SetPriority, TypeInv, HandlerInv
  <1>2. ArnsOf(New.meta) = a
    BY <1>1, HeadArns DEF Clean
  <1>3. New.meta.rule = a.rule /\ New.meta.group = a.group
    BY <1>2 DEF ArnsOf
  <1> DEFINE target == Old.spec.target
             condition == New.spec.condition
             priority == Old.spec.priority
  <1>4. Has(i, a, target, condition, priority)
    BY <1>1 DEF Clean, InWork
  <1> HIDE DEF target, condition, priority
  <1>5. PICK g \in groups : GroupsOf(i) = {g} /\ g.arn = a.group /\ g.target = target
    BY <1>4, HasFacts
  <1>6. /\ RuleWith(a.rule) = RulesOf(i) /\ a # NoArns
        /\ RulesOf(i) = {[arn |-> a.rule, condition |-> condition, priority |-> priority,
                          group |-> a.group]}
    BY <1>4, HasFacts
  <1>7. /\ UNCHANGED <<table, stream, monitorVars, groups>>
        /\ \/ rules' = rules /\ New.spec.priority = priority
           \/ rules' = (rules \ RuleWith(New.meta.rule)) \cup
                {[r EXCEPT !.priority = New.spec.priority] : r \in RuleWith(New.meta.rule)}
        /\ \/ EventDone /\ New.spec.target = target
           \/ hpc' = "deleteRule" /\ batch' = batch
    BY <1>1 DEF SetPriority, target, priority
  <1>8. GroupsOf(i)' = {g} /\ g \in groups'
    BY <1>5, <1>7 DEF GroupsOf
  <1>9. RulesOf(i)' = {[arn |-> a.rule, condition |-> condition, priority |-> New.spec.priority,
                        group |-> a.group]}
    <2>1. CASE rules' = rules /\ New.spec.priority = priority
      BY <1>6, <1>7, <2>1 DEF RulesOf
    <2>2. CASE rules' = (rules \ RuleWith(New.meta.rule)) \cup
                {[r EXCEPT !.priority = New.spec.priority] : r \in RuleWith(New.meta.rule)}
      <3> DEFINE x == [arn |-> a.rule, condition |-> condition, priority |-> New.spec.priority,
                       group |-> a.group]
                 y == [arn |-> a.rule, condition |-> condition, priority |-> priority,
                       group |-> a.group]
      <3>1. [y EXCEPT !.priority = New.spec.priority] = x
        OBVIOUS
      <3>2. RuleWith(New.meta.rule) = {y} /\ RulesOf(i) = {y}
        BY <1>3, <1>6
      <3>3. x.group = g.arn /\ g.id = i
        BY <1>5 DEF GroupsOf
      <3> HIDE DEF x, y
      <3>4. rules' = (rules \ RulesOf(i)) \cup {x}
        BY <2>2, <3>1, <3>2
      <3>5. RulesOf(i)' = {x}
        BY <1>7, <1>8, <3>3, <3>4 DEF RulesOf
      <3> QED
        BY <3>5 DEF x
    <2> QED
      BY <1>7, <2>1, <2>2
  <1>10. CASE EventDone /\ New.spec.target = target
    <2>1. PICK record : record = New
      OBVIOUS
    <2>2. Serves(i, a, record)'
      BY <1>1, <1>5, <1>6, <1>8, <1>9, <1>10, <2>1
         DEF Serves, Has, HasGroup, HasRule, condition
    <2> QED
      BY <1>1, <1>5, <1>7, <1>8, <1>10, <2>1, <2>2, DoneClean
  <1>11. CASE hpc' = "deleteRule" /\ batch' = batch
    <2>1. InHand(i)' /\ Old' = Old /\ New' = New
      BY <1>11 DEF InHand, Old, New
    <2>2. InWork(i, a)' /\ ~Unbegun(i)'
      BY <1>1, <1>5, <1>6, <1>8, <1>9, <1>11, <2>1
         DEF InWork, Unbegun, Has, HasGroup, HasRule, target, condition
    <2> QED
      BY <1>5, <1>7, <1>8, <1>11, <2>2, StaysClean
  <1> QED
    BY <1>7, <1>10, <1>11

LEMMA DeleteRuleClean ==
    ASSUME TypeInv, OwnerInv, DeleteRule, NEW i, InHand(i), i \notin spoiled', NEW a, Clean(i, a)
    PROVE  Clean(i, a)'
  <1>1. /\ hpc = "deleteRule" /\ Old # None /\ Changes(Head(batch))
        /\ UNCHANGED <<table, stream, batch, monitorVars, groups>> /\ hpc' = "deleteGroup"
        /\ rules' = rules \ RuleWith(Gone.rule)
    BY FailedDeletionSpoils DEF DeleteRule, TypeInv, HandlerInv
  <1>2. ArnsOf(Gone) = a
    BY <1>1, HeadArns DEF Clean, Gone
  <1>3. Gone.rule = a.rule
    BY <1>2 DEF ArnsOf
  <1>4. PICK condition, priority : Has(i, a, Old.spec.target, condition, priority)
    BY <1>1, HeadServed DEF Clean, InWork, Unbegun
  <1> DEFINE target == Old.spec.target
  <1>5. Has(i, a, target, condition, priority)
    BY <1>4
  <1> HIDE DEF target
  <1>6. PICK g \in groups : GroupsOf(i) = {g} /\ g.arn = a.group /\ g.target = target
    BY <1>5, HasFacts
  <1>7. RuleWith(a.rule) = RulesOf(i)
    BY <1>5, HasFacts
  <1>8. GroupsOf(i)' = GroupsOf(i) /\ RulesOf(i)' = {}
    BY <1>1, <1>3, <1>7 DEF GroupsOf, RulesOf
  <1>9. InHand(i)' /\ Old' = Old /\ New' = New
    BY <1>1 DEF InHand, Old, New
  <1>10. InWork(i, a)' /\ ~Unbegun(i)'
    BY <1>1, <1>6, <1>8, <1>9 DEF InWork, Unbegun, HasGroup, target
  <1> QED
    BY <1>1, <1>8, <1>10, StaysClean

LEMMA DeleteGroupClean ==
    ASSUME TypeInv, TypeInv', ChainInv, OwnerInv, DeleteGroup, NEW i, InHand(i),
           i \notin spoiled', NEW a, Clean(i, a)
    PROVE  Clean(i, a)' \/ Clean(i, NoArns)'
  <1>1. /\ hpc = "deleteGroup" /\ Old # None /\ Changes(Head(batch))
        /\ UNCHANGED <<table, stream, monitorVars, rules>>
        /\ groups' = {g \in groups : g.arn = Gone.group => \E r \in rules : r.group = g.arn}
        /\ IF New = None THEN EventDone ELSE hpc' = "create" /\ UNCHANGED <<batch, made>>
    BY FailedDeletionSpoils DEF DeleteGroup, TypeInv, HandlerInv
  <1>2. ArnsOf(Gone) = a
    BY <1>1, HeadArns DEF Clean, Gone
  <1>3. Gone.group = a.group
    BY <1>2 DEF ArnsOf
  <1>4. PICK g \in groups : GroupsOf(i) = {g} /\ g.arn = a.group
    BY <1>1 DEF Clean, InWork, HasGroup
  <1>5. RulesOf(i) = {} /\ g.id = i
    BY <1>1, <1>4 DEF Clean, InWork, GroupsOf
  <1>6. \A r \in rules : r.group # g.arn
    BY <1>5 DEF RulesOf
  <1>7. GroupsOf(i)' = {}
    BY <1>1, <1>3, <1>4, <1>6 DEF GroupsOf
  <1>8. CASE New # None
    <2>1. InHand(i)' /\ hpc' = "create" /\ New' = New /\ batch' = batch
      BY <1>1, <1>8 DEF InHand, New
    <2>2. InWork(i, a)' /\ ~Unbegun(i)'
      BY <1>7, <2>1 DEF InWork, Unbegun
    <2>3. Ips(i, a)'
      BY <1>7 DEF Ips
    <2> QED
      BY <1>1, <2>1, <2>2, <2>3, StaysClean
  <1>9. CASE New = None
    <2>1. Going /\ Queue' = Drop(Queue, 1) /\ i \in Ids
      BY <1>1, <1>9, DoneQueue, HeadNow
    <2> DEFINE record == table[i]
    <2>2. Tells(Queue, record, i, a)
      BY DEF Clean
    <2>3. Queue \in Seq(Events) /\ Queue # <<>> /\ Queue[1].id = i /\ Deletion(Queue[1])
      BY <1>9, HeadNow DEF Deletion
    <2> HIDE DEF record
    <2>4. Tells(Drop(Queue, 1), record, i, NoArns)
      BY <2>2, <2>3, TellsDropDeletion
    <2>5. Tells(Queue', table'[i], i, NoArns)
      BY <1>1, <2>1, <2>4 DEF record
    <2>6. PICK none : none = None
      OBVIOUS
    <2>7. Serves(i, NoArns, none)'
      BY <1>7, <2>6 DEF Serves
    <2>8. Currents(Queue', table'[i], i) \subseteq {none}
      BY <1>1, <1>9, <2>1, <2>6, HeadGoes
    <2>9. \A x \in Currents(Queue', table'[i], i) : Serves(i, NoArns, x)'
      BY <2>7, <2>8
    <2>10. Waiting(i, NoArns)' /\ InWork(i, NoArns)'
      BY <2>1, <2>5, <2>9, Begins
    <2>11. Ips(i, NoArns)'
      BY <1>7 DEF Ips
    <2>12. Link(i)'
      BY <1>1, MonitorSame DEF Clean
    <2> QED
      BY <2>5, <2>10, <2>11, <2>12 DEF Clean
  <1> QED
    BY <1>8, <1>9

LEMMA CreateGroupClean ==
    ASSUME TypeInv, OwnerInv, CreateGroup, NEW i \in Ids, InHand(i), i \notin spoiled', NEW a, Clean(i, a)
    PROVE  Clean(i, a)'
  <1>1. hpc = "create" /\ ~Throw /\ Head(batch).id = i
    BY ThrowSpoils DEF CreateGroup, InHand
  <1>2. GroupsOf(i) = {} /\ RulesOf(i) = {}
    BY <1>1 DEF Clean, InWork, GroupsOf, RulesOf
  <1> DEFINE g == [arn |-> arns + 1, id |-> i, target |-> New.spec.target, ips |-> {}]
  <1>3. /\ groups' = groups \cup {g} /\ rules' = rules /\ made' = [NoMeta EXCEPT !.group = arns + 1]
        /\ hpc' = "createRule" /\ UNCHANGED <<table, stream, batch, monitorVars>>
    BY <1>1, <1>2 DEF CreateGroup, GroupsOf
  <1>4. made'.group = arns + 1
    BY <1>3 DEF NoMeta
  <1>5. g.id = i /\ g.arn = arns + 1
    OBVIOUS
  <1>6. g = [arn |-> made'.group, id |-> i, target |-> New.spec.target, ips |-> {}]
    BY <1>4
  <1> HIDE DEF g
  <1>7. GroupsOf(i)' = {g}
    BY <1>2, <1>3, <1>5 DEF GroupsOf
  <1>8. arns \in Nat /\ \A r \in rules : r.group \in 1..arns
    BY DEF TypeInv, AwsTypes
  <1>9. RulesOf(i)' = {}
    BY <1>2, <1>3, <1>5, <1>8 DEF RulesOf
  <1>10. Metas(i)' = Metas(i)
    BY <1>3 DEF Metas, Queue, EventsOf, Working, monitorVars
  <1>11. \A meta \in Metas(i) : meta.group \in 0..arns
    BY DEF OwnerInv, Owns
  <1>12. \A meta \in Metas(i)' : meta.group # made'.group
    BY <1>4, <1>8, <1>10, <1>11
  <1>13. InHand(i)' /\ New' = New
    BY <1>3 DEF InHand, New
  <1>14. Fresh(i)'
    BY <1>6, <1>7, <1>12, <1>13 DEF Fresh
  <1>15. InWork(i, a)' /\ ~Unbegun(i)'
    BY <1>3, <1>9, <1>13, <1>14 DEF InWork, Unbegun
  <1>16. Ips(i, a)'
    <2> SUFFICES ASSUME Undeleted(Queue, i, Len(Queue) + 1)' PROVE g.arn # a.group
      BY <1>7 DEF Ips
    <2>1. Undeleted(Queue, i, Len(Queue) + 1)
      BY <1>3 DEF Queue
    <2>2. ArnsOf(table[i].meta) = a
      BY <2>1 DEF Clean, Tells
    <2>3. a.group = table[i].meta.group /\ table[i].meta \in Metas(i)
      BY <2>2 DEF ArnsOf, Metas
    <2> QED
      BY <1>5, <1>8, <1>11, <2>3
  <1> QED
    BY <1>3, <1>15, <1>16, StaysClean

LEMMA CreateRuleClean ==
    ASSUME TypeInv, OwnerInv, CreateRule, NEW i \in Ids, InHand(i), NEW a, Clean(i, a)
    PROVE  Clean(i, a)'
  <1> DEFINE x == [arn |-> arns + 1, condition |-> New.spec.condition,
                   priority |-> New.spec.priority, group |-> made.group]
  <1>1. /\ hpc = "createRule" /\ hpc' = "put"
        /\ rules' = rules \cup {x} /\ made' = [made EXCEPT !.rule = arns + 1]
        /\ UNCHANGED <<table, stream, batch, monitorVars, groups>>
    BY DEF CreateRule
  <1>2. made'.group = made.group /\ made'.rule = arns + 1
    BY <1>1 DEF TypeInv, DataTypes, Meta
  <1>3. Fresh(i) /\ RulesOf(i) = {}
    BY <1>1 DEF Clean, InWork
  <1>4. x = [arn |-> made'.rule, condition |-> New.spec.condition,
             priority |-> New.spec.priority, group |-> made'.group] /\ x.group = made.group
    BY <1>2
  <1> HIDE DEF x
  <1>5. GroupsOf(i)' = GroupsOf(i)
    BY <1>1 DEF GroupsOf
  <1> DEFINE g == [arn |-> made.group, id |-> i, target |-> New.spec.target, ips |-> {}]
  <1>6. GroupsOf(i) = {g} /\ g.arn = made.group
    BY <1>3 DEF Fresh
  <1> HIDE DEF g
  <1>7. g \in groups /\ g.id = i
    BY <1>6 DEF GroupsOf
  <1>8. RulesOf(i)' = {x}
    BY <1>1, <1>3, <1>4, <1>6, <1>7 DEF RulesOf
  <1>9. Metas(i)' = Metas(i)
    BY <1>1 DEF Metas, Queue, EventsOf, Working, monitorVars
  <1>10. arns \in Nat /\ \A meta \in Metas(i) : meta.rule \in 0..arns
    BY DEF TypeInv, AwsTypes, OwnerInv, Owns
  <1>11. InHand(i)' /\ New' = New
    BY <1>1 DEF InHand, New
  <1>12. Fresh(i)'
    BY <1>2, <1>3, <1>5, <1>9, <1>11 DEF Fresh
  <1>13. FreshRule(i)'
    BY <1>2, <1>4, <1>8, <1>9, <1>10, <1>11 DEF FreshRule, HasRule
  <1>14. InWork(i, a)' /\ ~Unbegun(i)'
    BY <1>1, <1>11, <1>12, <1>13 DEF InWork, Unbegun
  <1> QED
    BY <1>1, <1>5, <1>14, StaysClean

-----------------------------------------------------------------------------
(* The record is written with the new ARNs *)

LEMMA QueueDiffers ==
    ASSUME TypeInv
    PROVE  \A k \in 1..Len(Queue) : Queue[k].old # Queue[k].new
  <1>1. /\ batch \in Seq(Events) /\ stream \in Seq(Events)
        /\ DOMAIN batch = 1..Len(batch) /\ DOMAIN stream = 1..Len(stream)
        /\ Len(batch) \in Nat /\ Len(stream) \in Nat
        /\ \A k \in 1..Len(stream) : stream[k].old # stream[k].new
        /\ \A k \in 1..Len(batch) : batch[k].old # batch[k].new
    BY LenProperties DEF TypeInv, DataTypes
  <1>2. /\ Len(Queue) = Len(batch) + Len(stream)
        /\ \A k \in 1..(Len(batch) + Len(stream)) :
              Queue[k] = IF k <= Len(batch) THEN batch[k] ELSE stream[k - Len(batch)]
    BY <1>1, ConcatProperties DEF Queue
  <1>3. ASSUME NEW k \in 1..Len(Queue) PROVE Queue[k].old # Queue[k].new
    <2>1. CASE k <= Len(batch)
      BY <1>1, <1>2, <2>1
    <2>2. CASE ~(k <= Len(batch))
      <3>1. k - Len(batch) \in 1..Len(stream) /\ Queue[k] = stream[k - Len(batch)]
        BY <1>1, <1>2, <2>2
      <3> QED
        BY <1>1, <3>1
    <2> QED
      BY <2>1, <2>2
  <1> QED
    BY <1>3

\* An event that changes nothing users ask for deletes nothing.
LEMMA QuietKeeps ==
    ASSUME NEW e \in Events, e.old # e.new, ~Changes(e)
    PROVE  ~Deletion(e)
  <1>1. e.old \in Records \cup {None} /\ e.new \in Records \cup {None}
    BY EventFacts
  <1> QED
    BY <1>1, RecordFacts DEF Changes, Deletion

\* The situation in which both cases below start.
Putting(i, new) ==
    /\ hpc = "put" /\ InHand(i) /\ i \in Ids /\ New # None /\ table[i] = New
    /\ new \in Records /\ new.spec = New.spec /\ new.meta = made /\ new # None
    /\ Fresh(i) /\ FreshRule(i) /\ made.ips = {}
    /\ table' = [table EXCEPT ![i] = new]
    /\ Queue' = After(Drop(Queue, 1), i, New, new)
    /\ UNCHANGED <<aws, monitorVars>>
    /\ Going

LEMMA PutStarts ==
    ASSUME TypeInv, OwnerInv, PutMetadata, NEW i, InHand(i), i \notin spoiled', NEW a, Clean(i, a)
    PROVE  Putting(i, Record(New.spec, made))
  <1> DEFINE new == Record(New.spec, made)
  <1>1. /\ Head(batch).id = i /\ i \in Ids /\ new \in Records
        /\ table' = [table EXCEPT ![i] = new]
        /\ Queue' = After(Drop(Queue, 1), i, table[i], new)
    BY PutQueue DEF InHand
  <1>2. hpc = "put" /\ UNCHANGED <<aws, monitorVars>> /\ Going /\ table[i] = New
    BY <1>1 DEF PutMetadata, EventDone, Goto, Going
  <1>3. New # None /\ made.ips = {} /\ Fresh(i) /\ FreshRule(i)
    BY <1>2 DEF TypeInv, HandlerInv, OwnerInv, MadeInv, Clean, InWork
  <1>4. new.spec = New.spec /\ new.meta = made /\ new # None
    BY <1>1, RecordOf, NoneFacts
  <1> QED
    BY <1>1, <1>2, <1>3, <1>4 DEF Putting

LEMMA PutQuiet ==
    ASSUME TypeInv, TypeInv', ChainInv, OwnerInv, NEW i, NEW new, Putting(i, new),
           \A k \in EventsOf(Drop(Queue, 1), i) : ~Changes(Drop(Queue, 1)[k]),
           NEW a, a = ArnsOf(made)
    PROVE  Clean(i, a)'
  <1> DEFINE q == Drop(Queue, 1)
             p == After(q, i, New, new)
  <1>1. /\ InHand(i) /\ i \in Ids /\ New # None /\ table[i] = New /\ new \in Records
        /\ new.spec = New.spec /\ new.meta = made /\ new # None
        /\ Queue' = p /\ table'[i] = new
    BY DEF Putting, TypeInv, DataTypes
  <1>2. /\ Queue \in Seq(Events) /\ Len(Queue) \in Nat /\ 1 \in 0..Len(Queue)
        /\ New \in Records \cup {None}
    BY <1>1, HeadNow
  <1>3. /\ q \in Seq(Events) /\ Len(q) = Len(Queue) - 1
        /\ \A k \in 1..(Len(Queue) - 1) : q[k] = Queue[k + 1]
    BY <1>2, DropIs
  <1>4. \A k \in 1..Len(q) : q[k].old # q[k].new /\ q[k] \in Events
    <2>1. \A k \in 1..Len(q) : k + 1 \in 1..Len(Queue) /\ q[k] = Queue[k + 1]
      BY <1>2, <1>3
    <2>2. \A k \in 1..Len(q) : q[k] \in Events
      BY <1>3, ElementOfSeq
    <2> QED
      BY <2>1, <2>2, QueueDiffers
  <1>5. Currents(q, New, i) \subseteq {New}
    BY <1>1, HeadGoes
  <1>6. \A k \in EventsOf(q, i) : ~Changes(q[k]) /\ ~Deletion(q[k])
    BY <1>3, <1>4, QuietKeeps, InEventsOf
  <1> DEFINE e == [id |-> i, old |-> New, new |-> new]
  <1>7. e \in Events /\ e.id = i /\ e.old = New /\ e.new = new
    BY <1>1, <1>2, EventOf
  <1>8. ~Changes(e) /\ ~Deletion(e)
    BY <1>1, <1>7 DEF Changes, Deletion
  <1>9. p = (IF new = New THEN q ELSE Append(q, e))
    BY DEF After
  <1> HIDE DEF q, p, e
  <1>10. \A k \in EventsOf(p, i) : ~Changes(p[k]) /\ ~Deletion(p[k])
    <2>1. CASE new = New
      BY <1>6, <1>9, <2>1
    <2>2. CASE new # New
      <3>1. EventsOf(p, i) = EventsOf(q, i) \cup {Len(q) + 1}
        BY <1>3, <1>7, <1>9, <2>2, EventsOfAppend
      <3>2. p[Len(q) + 1] = e /\ \A k \in 1..Len(q) : p[k] = q[k]
        BY <1>3, <1>7, <1>9, <2>2, AppendProperties
      <3>3. \A k \in EventsOf(q, i) : k \in 1..Len(q)
        BY <1>3, InEventsOf
      <3> QED
        BY <1>6, <1>8, <3>1, <3>2, <3>3
    <2> QED
      BY <2>1, <2>2
  <1>11. Currents(p, new, i) \subseteq {New, new}
    <2>1. CASE new = New
      BY <1>5, <1>9, <2>1
    <2>2. CASE new # New
      <3>1. Currents(Append(q, e), e.new, i) \subseteq Currents(q, New, i)
        BY <1>3, <1>7, CurrentsAppend
      <3> QED
        BY <1>5, <1>7, <1>9, <2>2, <3>1
    <2> QED
      BY <2>1, <2>2
  <1>12. p \in Seq(Events)
    BY <1>3, <1>7, <1>9, AppendProperties
  <1>13. Tells(p, new, i, ArnsOf(new.meta))
    BY <1>10, <1>12, TellsQuiet
  <1>14. made.group # 0
    BY DEF Putting, TypeInv, HandlerInv
  <1>15. a # NoArns /\ a.group = made.group /\ a.rule = made.rule
    BY <1>14, NoneFacts DEF NoArns, ArnsOf
  <1>16. Tells(Queue', table'[i], i, a)
    BY <1>1, <1>13
  <1> DEFINE g == [arn |-> made.group, id |-> i, target |-> New.spec.target, ips |-> {}]
  <1>17. /\ GroupsOf(i)' = {g} /\ g \in groups' /\ g.arn = made.group /\ g.target = New.spec.target
         /\ g.ips = {}
         /\ RulesOf(i)' = {[arn |-> made.rule, condition |-> New.spec.condition,
                            priority |-> New.spec.priority, group |-> made.group]}
    <2>1. GroupsOf(i)' = GroupsOf(i) /\ RulesOf(i)' = RulesOf(i) /\ groups' = groups
      BY DEF Putting, aws, GroupsOf, RulesOf
    <2>2. GroupsOf(i) = {g}
      BY DEF Putting, Fresh
    <2>3. g \in groups
      BY <2>2 DEF GroupsOf
    <2> QED
      BY <2>1, <2>2, <2>3 DEF Putting, FreshRule, HasRule
  <1> HIDE DEF g
  <1>18. ASSUME NEW record, record # None, record.spec = New.spec
         PROVE  Serves(i, a, record)'
    BY <1>15, <1>17, <1>18 DEF Serves, Has, HasGroup, HasRule
  <1>19. \A record \in Currents(Queue', table'[i], i) : Serves(i, a, record)'
    BY <1>1, <1>11, <1>18
  <1>20. Waiting(i, a)' /\ InWork(i, a)'
    BY <1>1, <1>16, <1>19, Begins DEF Putting
  <1>21. /\ Working' = Working /\ item' = item /\ scanned' = scanned /\ mpc' = mpc
         /\ \A s \in scanned : s.id = i => s.record.meta.group # made.group
         /\ Working /\ item.id = i =>
              item.read.meta.group # made.group /\ item.meta.group # made.group
    BY DEF Putting, Fresh, Metas, Working, monitorVars
  <1>22. Link(i)'
    BY <1>1, <1>21 DEF Link
  <1>23. Ips(i, a)'
    <2>1. table'[i].meta.ips = {}
      BY <1>1 DEF Putting
    <2> QED
      BY <1>15, <1>17, <1>21, <2>1 DEF Ips, Registered
  <1> QED
    BY <1>16, <1>20, <1>22, <1>23 DEF Clean

\* If an event that changes the record waits behind the one just written, the last such event asks
\* for what the new rule has already: the priority is taken.
LEMMA PutDoomed ==
    ASSUME TypeInv, TypeInv', ChainInv, OwnerInv, NEW i, NEW new, Putting(i, new),
           NEW k \in EventsOf(Drop(Queue, 1), i), Changes(Drop(Queue, 1)[k])
    PROVE  Doomed(i)'
  <1> DEFINE q == Drop(Queue, 1)
             p == After(q, i, New, new)
  <1>1. /\ InHand(i) /\ i \in Ids /\ New # None /\ table[i] = New /\ new \in Records
        /\ new.spec = New.spec /\ new.meta = made /\ new # None /\ FreshRule(i)
        /\ Queue' = p /\ rules' = rules /\ Going /\ groups' = groups
    BY DEF Putting, aws
  <1>2. /\ Queue \in Seq(Events) /\ Len(Queue) \in Nat /\ 1 \in 0..Len(Queue)
        /\ New \in Records \cup {None}
    BY <1>1, HeadNow
  <1>3. /\ q \in Seq(Events) /\ Len(q) = Len(Queue) - 1 /\ Len(q) \in Nat
        /\ \A m \in 1..(Len(Queue) - 1) : q[m] = Queue[m + 1]
    BY <1>2, DropIs, LenProperties
  <1>4. LastChange(Queue, table[i], i)
    BY <1>1 DEF ChainInv
  <1>5. LastChange(q, table[i], i)
    BY <1>2, <1>4, LastChangeDrop
  <1>6. /\ p \in Seq(Events) /\ Len(p) \in {Len(q), Len(q) + 1}
        /\ \A m \in 1..Len(q) : p[m] = q[m]
    <2> DEFINE e == [id |-> i, old |-> New, new |-> new]
    <2>1. e \in Events
      BY <1>1, <1>2, EventOf
    <2>2. p = (IF new = New THEN q ELSE Append(q, e))
      BY DEF After
    <2> HIDE DEF q, p, e
    <2> QED
      BY <1>3, <2>1, <2>2, AppendProperties
  <1>7. k \in EventsOf(q, i) /\ Changes(q[k])
    OBVIOUS
  <1> HIDE DEF q, p
  <1>8. PICK l \in EventsOf(q, i) : k <= l /\ Changes(q[l]) /\ q[l].new.spec = New.spec
    BY <1>1, <1>5, <1>7 DEF LastChange
  <1>9. l \in 1..Len(q) /\ q[l].id = i /\ q[l] \in Events
    BY <1>3, <1>8, InEventsOf, ElementOfSeq
  <1>10. p[l] = q[l] /\ l \in 1..Len(p) /\ l \in EventsOf(p, i)
    <2>1. l \in 1..Len(p) /\ p[l] = q[l]
      BY <1>3, <1>6, <1>9
    <2> QED
      BY <1>6, <1>9, <2>1, InEventsOf
  <1>11. q[l].new \in Records \cup {None} /\ ~Deletion(q[l])
    <2>1. New.spec \in Specs /\ q[l].new \in Records \cup {None}
      BY <1>1, <1>2, <1>9, RecordFacts, EventFacts
    <2> QED
      BY <1>8, <2>1, NoneFacts DEF Deletion
  <1>12. PICK r : RulesOf(i) = {r} /\ r.arn = made.rule /\ r.priority = New.spec.priority
    <2> DEFINE x == [arn |-> made.rule, condition |-> New.spec.condition,
                     priority |-> New.spec.priority, group |-> made.group]
    <2>1. RulesOf(i) = {x} /\ x.arn = made.rule /\ x.priority = New.spec.priority
      BY <1>1 DEF FreshRule, HasRule
    <2> HIDE DEF x
    <2> QED
      BY <2>1
  <1>13. r \in rules
    BY <1>12 DEF RulesOf
  <1>14. ASSUME NEW j \in Ids, NEW meta \in Metas(j)
         PROVE  meta.rule # made.rule
    <2>1. CASE j = i
      BY <1>1, <1>14, <2>1 DEF FreshRule
    <2>2. CASE j # i
      <3>1. Owns(j, meta)
        BY <1>14 DEF OwnerInv
      <3>2. r.arn = meta.rule => r \in RulesOf(j)
        BY <1>13, <3>1 DEF Owns
      <3> QED
        BY <1>12, <2>2, <3>2, RulesApart
    <2> QED
      BY <2>1, <2>2
  <1>15. ASSUME NEW m \in 1..Len(q)
         PROVE  q[m].old.meta.rule # made.rule /\ q[m].new.meta.rule # made.rule
    <2>1. q[m] = Queue[m + 1] /\ m + 1 \in 1..Len(Queue) /\ q[m] \in Events
      BY <1>2, <1>3, <1>15, ElementOfSeq
    <2>2. q[m].id \in Ids
      BY <2>1, EventFacts
    <2>3. m + 1 \in EventsOf(Queue, q[m].id)
      BY <1>2, <2>1, InEventsOf
    <2>4. q[m].old.meta \in Metas(q[m].id) /\ q[m].new.meta \in Metas(q[m].id)
      BY <2>1, <2>3 DEF Metas
    <2> QED
      BY <1>14, <2>2, <2>4
  <1>16. RuleWith(q[l].new.meta.rule) = {}
    <2> SUFFICES ASSUME NEW x \in rules, x.arn = q[l].new.meta.rule PROVE FALSE
      BY DEF RuleWith
    <2>1. l + 1 \in EventsOf(Queue, i) /\ Queue[l + 1] = q[l]
      <3>1. l + 1 \in 1..Len(Queue) /\ Queue[l + 1] = q[l]
        BY <1>2, <1>3, <1>9
      <3> QED
        BY <1>2, <1>9, <3>1, InEventsOf
    <2>2. q[l].new.meta \in Metas(i)
      BY <2>1 DEF Metas
    <2>3. x \in RulesOf(i)
      BY <1>1, <2>2 DEF OwnerInv, Owns
    <2> QED
      BY <1>9, <1>12, <1>15, <2>3
  <1>17. ASSUME l = 1, batch' # <<>>
         PROVE  hpc' \in {"modify", "create"}
    <2>1. batch' \in Seq(Events) /\ stream' \in Seq(Events)
      BY DEF TypeInv, DataTypes
    <2>2. Head(batch') = q[l]
      <3>1. Queue'[1] = Head(batch')
        BY <1>17, <2>1, ConcatProperties, EmptySeq, LenProperties DEF Queue
      <3> QED
        BY <1>1, <1>10, <1>17, <3>1
    <2>3. hpc' = Call(q[l])
      BY <1>1, <1>17, <2>2 DEF Going
    <2> QED
      BY <1>8, <1>11, <2>3 DEF Call, Changes, Deletion
  <1>18. \A m \in 1..l : /\ r.arn # p[m].old.meta.rule /\ r.arn # p[m].new.meta.rule
    <2>1. \A m \in 1..l : m \in 1..Len(q)
      BY <1>3, <1>9
    <2> QED
      BY <1>6, <1>12, <1>15, <2>1
  <1>19. Doom(i, l, r)'
    BY <1>1, <1>8, <1>10, <1>11, <1>12, <1>13, <1>16, <1>17, <1>18 DEF Doom, RuleWith
  <1>20. l \in DOMAIN Queue' /\ r \in rules'
    BY <1>1, <1>6, <1>10, <1>13, LenProperties
  <1> QED
    BY <1>19, <1>20 DEF Doomed

\* All the handler does for the id at hand.
LEMMA HeadClean ==
    ASSUME TypeInv, TypeInv', ChainInv, OwnerInv, Handler \/ HandlerTimesOut, NEW i \in Ids, InHand(i),
           i \notin spoiled', NEW a \in [group : Nat, rule : Nat], Clean(i, a)
    PROVE  Doomed(i)' \/ \E b \in [group : Nat, rule : Nat] : Clean(i, b)'
  <1>1. NoArns \in [group : Nat, rule : Nat] /\ ArnsOf(made) \in [group : Nat, rule : Nat]
    BY NoneFacts DEF NoArns, ArnsOf, TypeInv, DataTypes, Meta
  <1>2. ASSUME NEW n \in 1..Len(stream), TakeBatch(n) PROVE FALSE
    BY <1>2 DEF TakeBatch, TypeInv, HandlerInv, InHand
  <1>3. CASE NothingChanged
    BY <1>3, NothingClean
  <1>4. CASE ModifyRule
    BY <1>4, ModifyClean
  <1>5. CASE SetPriority
    BY <1>5, PriorityClean
  <1>6. CASE DeleteRule
    BY <1>6, DeleteRuleClean
  <1>7. CASE DeleteGroup
    <2> DEFINE none == NoArns
    <2>1. Clean(i, a)' \/ Clean(i, NoArns)'
      BY <1>7, DeleteGroupClean
    <2>2. PICK b \in [group : Nat, rule : Nat] : b = NoArns
      BY <1>1
    <2>3. NoArns' = NoArns
      BY DEF NoArns, NoMeta, ArnsOf
    <2>4. Clean(i, NoArns)' => Clean(i, b)'
      BY <2>2, <2>3
    <2> QED
      BY <2>1, <2>4
  <1>8. CASE CreateGroup
    BY <1>8, CreateGroupClean
  <1>9. CASE CreateRule
    BY <1>9, CreateRuleClean
  <1>10. CASE PutMetadata
    <2> DEFINE new == Record(New.spec, made)
    <2>1. Putting(i, new)
      BY <1>10, PutStarts
    <2>2. PICK b \in [group : Nat, rule : Nat] : b = ArnsOf(made)
      BY <1>1
    <2>3. PICK record : record = new
      OBVIOUS
    <2>4. Putting(i, record)
      BY <2>1, <2>3
    <2> HIDE DEF new
    <2>5. CASE \E k \in EventsOf(Drop(Queue, 1), i) : Changes(Drop(Queue, 1)[k])
      BY <2>4, <2>5, PutDoomed
    <2>6. CASE \A k \in EventsOf(Drop(Queue, 1), i) : ~Changes(Drop(Queue, 1)[k])
      <3>1. Clean(i, b)'
        BY <2>2, <2>4, <2>6, PutQuiet
      <3> QED
        BY <3>1
    <2> QED
      BY <2>5, <2>6
  <1>11. CASE HandlerTimesOut
    BY <1>11, ThrowSpoils DEF HandlerTimesOut
  <1> QED
    BY <1>2, <1>3, <1>4, <1>5, <1>6, <1>7, <1>8, <1>9, <1>10, <1>11 DEF Handler

-----------------------------------------------------------------------------
(* What the users and the monitor do *)

\* A group keeps all but its addresses, and those too unless the monitor has it at hand.
Kept(g, h) ==
    /\ h.arn = g.arn /\ h.id = g.id /\ h.target = g.target
    /\ h = g \/ (Working /\ item.id = g.id /\ item.meta.group = g.arn)

LEMMA OutsideGroups ==
    ASSUME TypeInv, OwnerInv, Outside
    PROVE  /\ \A h \in groups' : \E g \in groups : Kept(g, h)
           /\ \A g \in groups : \E h \in groups' : Kept(g, h)
  <1>1. CASE groups' = groups
    BY <1>1 DEF Kept
  <1>2. CASE Register \/ Deregister
    <2>1. PICK add, drop : groups' \in {groups, Moved(add, drop)}
      BY <1>2, RegistrationGroups
    <2>2. CASE groups' = Moved(add, drop)
      <3>1. Working
        BY <1>2 DEF Register, Deregister, Working
      <3>2. item.id \in Ids /\ item.meta \in Metas(item.id)
        BY <3>1 DEF TypeInv, DataTypes, Metas
      <3>3. \A g \in groups : g.arn = item.meta.group => g.id = item.id
        BY <3>2 DEF OwnerInv, Owns
      <3>4. ASSUME NEW g \in groups,
                   NEW h, h = [arn |-> g.arn, id |-> g.id, target |-> g.target,
                               ips |-> IF g.arn = item.meta.group THEN (g.ips \cup add) \ drop
                                       ELSE g.ips]
            PROVE  Kept(g, h)
        <4>1. h.arn = g.arn /\ h.id = g.id /\ h.target = g.target
          BY <3>4
        <4>2. ASSUME g.arn # item.meta.group PROVE h = g
          BY <3>4, <4>2 DEF TypeInv, AwsTypes
        <4> QED
          BY <3>1, <3>3, <4>1, <4>2 DEF Kept
      <3>5. \A h \in groups' : \E g \in groups : Kept(g, h)
        BY <2>2, <3>4 DEF Moved
      <3>6. ASSUME NEW g \in groups PROVE \E h \in groups' : Kept(g, h)
        <4> DEFINE h == [arn |-> g.arn, id |-> g.id, target |-> g.target,
                         ips |-> IF g.arn = item.meta.group THEN (g.ips \cup add) \ drop ELSE g.ips]
        <4>1. h \in groups'
          BY <2>2 DEF Moved
        <4>2. Kept(g, h)
          BY <3>4
        <4> QED
          BY <4>1, <4>2
      <3> QED
        BY <3>5, <3>6
    <2> QED
      BY <1>1, <2>1, <2>2
  <1>3. UNCHANGED <<handlerVars, aws>> \/ Register \/ Deregister
    BY DEF Outside, Monitor, User, UserInserts, UserEdits, UserDeletes, AddressesMove, Scan, Resolve,
           ResolveFails, Lookup, PutRecord, MonitorTimesOut, vars
  <1> QED
    BY <1>1, <1>2, <1>3 DEF aws

LEMMA OutsideHas ==
    ASSUME TypeInv, OwnerInv, Outside, NEW i
    PROVE  /\ RulesOf(i)' = RulesOf(i)
           /\ GroupsOf(i) = {} => GroupsOf(i)' = {}
           /\ \A arn, target : HasGroup(i, arn, target) => HasGroup(i, arn, target)'
           /\ \A a, condition, priority :
                HasRule(i, a, condition, priority) => HasRule(i, a, condition, priority)'
  <1>1. /\ \A h \in groups' : \E g \in groups : h.arn = g.arn /\ h.id = g.id /\ h.target = g.target
        /\ \A g \in groups : \E h \in groups' : h.arn = g.arn /\ h.id = g.id /\ h.target = g.target
    BY OutsideGroups DEF Kept
  <1>2. rules' = rules
    BY OutsideAws DEF Regrouped
  <1>3. \A g, h \in groups' : g.arn = h.arn => g = h
    BY OutsideUnique DEF OwnerInv, ArnsUnique
  <1>4. RulesOf(i)' = RulesOf(i)
    BY <1>1, <1>2 DEF RulesOf
  <1>5. ASSUME NEW arn, NEW target, HasGroup(i, arn, target)
        PROVE  HasGroup(i, arn, target)'
    <2>1. PICK g \in groups : GroupsOf(i) = {g} /\ g.arn = arn /\ g.target = target
      BY <1>5 DEF HasGroup
    <2>2. g.id = i /\ \A f \in groups : f.id = i => f = g
      BY <2>1 DEF GroupsOf
    <2>3. PICK h \in groups' : h.arn = g.arn /\ h.id = g.id /\ h.target = g.target
      BY <1>1
    <2>4. GroupsOf(i)' = {h}
      BY <1>1, <1>3, <2>2, <2>3 DEF GroupsOf
    <2> QED
      BY <2>1, <2>3, <2>4 DEF HasGroup
  <1>6. GroupsOf(i) = {} => GroupsOf(i)' = {}
    BY <1>1 DEF GroupsOf
  <1> QED
    BY <1>4, <1>5, <1>6 DEF HasRule

LEMMA OutsideServes ==
    ASSUME TypeInv, OwnerInv, Outside, NEW i
    PROVE  \A a, record : Serves(i, a, record) => Serves(i, a, record)'
  <1>1. GroupsOf(i) = {} => GroupsOf(i)' = {}
    BY OutsideHas
  <1>2. \A arn, target : HasGroup(i, arn, target) => HasGroup(i, arn, target)'
    BY OutsideHas
  <1>3. \A a, condition, priority :
            HasRule(i, a, condition, priority) => HasRule(i, a, condition, priority)'
    BY OutsideHas
  <1> QED
    BY <1>1, <1>2, <1>3 DEF Serves, Has

\* The group just created is not yet known to the monitor.
LEMMA OutsideFresh ==
    ASSUME TypeInv, OwnerInv, Outside, NEW i \in Ids, hpc \in {"createRule", "put"}
    PROVE  /\ Fresh(i) => Fresh(i)'
           /\ hpc = "put" /\ FreshRule(i) => FreshRule(i)'
  <1>1. UNCHANGED <<handlerVars, rules>>
    BY OutsideAws DEF Regrouped
  <1>2. made.group # 0 /\ (hpc = "put" => made.rule # 0)
    BY DEF TypeInv, HandlerInv
  <1>3. ~PutMetadata
    <2> SUFFICES ASSUME PutMetadata PROVE FALSE
      OBVIOUS
    <2>1. batch' = batch /\ batch' = Tail(batch) /\ batch # <<>> /\ batch \in Seq(Events)
      BY <1>1 DEF PutMetadata, EventDone, Goto, handlerVars, TypeInv, DataTypes, HandlerInv
    <2>2. Len(Tail(batch)) = Len(batch) - 1 /\ Len(batch) \in Nat
      BY <2>1, HeadTailProperties, LenProperties
    <2> QED
      BY <2>1, <2>2
  <1>4. [Next]_vars
    BY DEF Outside, Next
  <1>5. ASSUME NEW meta, meta \in Metas(i)'
        PROVE  \/ meta = NoMeta
               \/ \E m \in Metas(i) : m.group = meta.group /\ m.rule = meta.rule
    <2>1. Names(i, meta)'
      BY <1>5 DEF Names
    <2> QED
      BY <1>3, <1>4, <2>1, MetasStep
  <1>6. New' = New /\ made' = made
    BY <1>1 DEF handlerVars, New
  <1>7. ASSUME Fresh(i) PROVE Fresh(i)'
    <2> DEFINE g == [arn |-> made.group, id |-> i, target |-> New.spec.target, ips |-> {}]
    <2>1. GroupsOf(i) = {g} /\ \A meta \in Metas(i) : meta.group # made.group
      BY <1>7 DEF Fresh
    <2>2. g.id = i /\ g.arn = made.group
      OBVIOUS
    <2>3. g' = g
      BY <1>6
    <2> HIDE DEF g
    <2>4. g \in groups /\ \A f \in groups : f.id = i => f = g
      BY <2>1 DEF GroupsOf
    <2>5. Working /\ item.id = i => item.meta.group # made.group
      BY <2>1 DEF Metas
    <2>6. \A h : Kept(g, h) => h = g
      BY <2>2, <2>5 DEF Kept
    <2>7. \A h \in groups' : h.id = i => h = g
      BY <2>4, <2>6, OutsideGroups DEF Kept
    <2>8. g \in groups'
      BY <2>4, <2>6, OutsideGroups
    <2>9. GroupsOf(i)' = {g}
      BY <2>2, <2>7, <2>8 DEF GroupsOf
    <2>10. \A meta \in Metas(i)' : meta.group # made.group
      BY <1>2, <1>5, <2>1, NoneFacts
    <2>11. g = [arn |-> made'.group, id |-> i, target |-> New'.spec.target, ips |-> {}]
      BY <1>6 DEF g
    <2> QED
      BY <1>6, <2>9, <2>10, <2>11 DEF Fresh
  <1>8. ASSUME hpc = "put", FreshRule(i) PROVE FreshRule(i)'
    <2>1. RulesOf(i)' = RulesOf(i)
      BY OutsideHas
    <2>2. HasRule(i, made, New.spec.condition, New.spec.priority)'
      BY <1>6, <1>8, <2>1 DEF FreshRule, HasRule
    <2>3. \A meta \in Metas(i)' : meta.rule # made.rule
      BY <1>2, <1>5, <1>8, NoneFacts DEF FreshRule
    <2> QED
      BY <1>6, <2>2, <2>3 DEF FreshRule
  <1> QED
    BY <1>7, <1>8

LEMMA OutsideWork ==
    ASSUME TypeInv, OwnerInv, Outside, NEW i \in Ids, NEW a, InWork(i, a)
    PROVE  /\ InWork(i, a)'
           /\ Unbegun(i)' = Unbegun(i)
  <1>1. UNCHANGED handlerVars
    BY OutsideAws DEF Regrouped
  <1>2. /\ InHand(i)' = InHand(i) /\ Old' = Old /\ New' = New /\ hpc' = hpc
    BY <1>1 DEF handlerVars, InHand, Old, New
  <1>3. /\ RulesOf(i)' = RulesOf(i)
        /\ GroupsOf(i) = {} => GroupsOf(i)' = {}
        /\ \A arn, target : HasGroup(i, arn, target) => HasGroup(i, arn, target)'
        /\ \A condition, priority :
             HasRule(i, a, condition, priority) => HasRule(i, a, condition, priority)'
    BY OutsideHas
  <1>4. \A target, condition, priority :
            Has(i, a, target, condition, priority) => Has(i, a, target, condition, priority)'
    BY <1>3 DEF Has
  <1> SUFFICES ASSUME InHand(i) PROVE InWork(i, a)'
    BY <1>2 DEF InWork, Unbegun
  <1>5. PICK old, new : old = Old /\ new = New
    OBVIOUS
  <1>6. hpc = "priority" => Has(i, a, old.spec.target, new.spec.condition, old.spec.priority)'
    BY <1>4, <1>5 DEF InWork
  <1>7. hpc = "deleteRule" /\ New # None =>
            Has(i, a, old.spec.target, new.spec.condition, new.spec.priority)'
    BY <1>4, <1>5 DEF InWork
  <1>8. hpc = "deleteGroup" => HasGroup(i, a.group, old.spec.target)' /\ RulesOf(i)' = {}
    BY <1>3, <1>5 DEF InWork
  <1>9. hpc = "create" => GroupsOf(i)' = {}
    BY <1>3 DEF InWork
  <1>10. hpc \in {"createRule", "put"} => Fresh(i)'
    BY OutsideFresh DEF InWork
  <1>11. hpc = "put" => FreshRule(i)'
    BY OutsideFresh DEF InWork
  <1>12. hpc = "createRule" => RulesOf(i)' = {}
    BY <1>3 DEF InWork
  <1>13. hpc' = "priority" => Has(i, a, Old.spec.target, New.spec.condition, Old.spec.priority)'
    BY <1>2, <1>5, <1>6 DEF Has, HasGroup, HasRule
  <1>14. hpc' = "deleteRule" /\ New' # None =>
            Has(i, a, Old.spec.target, New.spec.condition, New.spec.priority)'
    BY <1>2, <1>5, <1>7 DEF Has, HasGroup, HasRule, None, NoMeta, Record
  <1>15. hpc' = "deleteGroup" => HasGroup(i, a.group, Old.spec.target)' /\ RulesOf(i)' = {}
    BY <1>2, <1>5, <1>8 DEF HasGroup
  <1> QED
    BY <1>2, <1>9, <1>10, <1>11, <1>12, <1>13, <1>14, <1>15 DEF InWork

\* One's own record is written, and its ARNs are left alone.
LEMMA OwnComes ==
    ASSUME NEW q \in Seq(Events), NEW i \in Ids, NEW a,
           NEW old \in Records \cup {None}, NEW new \in Records \cup {None},
           Tells(q, old, i, a),
           new # None => /\ ArnsOf(new.meta) = ArnsOf(old.meta)
                         /\ old.meta = NoMeta => new.meta = NoMeta
    PROVE  /\ Tells(After(q, i, old, new), new, i, a)
           /\ Currents(After(q, i, old, new), new, i) \subseteq Currents(q, old, i)
           /\ Undeleted(After(q, i, old, new), i, Len(After(q, i, old, new)) + 1) =>
                Undeleted(q, i, Len(q) + 1) /\ (new = None => old = None)
  <1>1. CASE new = old
    BY <1>1 DEF After
  <1>2. CASE new # old
    <2> DEFINE e == [id |-> i, old |-> old, new |-> new]
    <2>1. e \in Events /\ e.id = i /\ e.old = old /\ e.new = new
      BY EventOf
    <2>2. After(q, i, old, new) = Append(q, e)
      BY <1>2 DEF After
    <2> HIDE DEF e
    <2>3. IF Deletion(e) THEN e.new.meta = NoMeta
          ELSE /\ ArnsOf(e.new.meta) = ArnsOf(old.meta)
               /\ old.meta = NoMeta => e.new.meta = NoMeta
      BY <2>1, NoneFacts DEF Deletion
    <2>4. Tells(Append(q, e), e.new, i, a)
      BY <2>1, <2>3, TellsAppend
    <2>5. Currents(Append(q, e), e.new, i) \subseteq Currents(q, old, i)
      BY <2>1, CurrentsAppend
    <2>6. Len(Append(q, e)) + 1 = Len(q) + 2
      BY <2>1, AppendProperties, LenProperties
    <2>7. Undeleted(Append(q, e), i, Len(q) + 2) => Undeleted(q, i, Len(q) + 1) /\ ~Deletion(e)
      BY <2>1, UndeletedAppend
    <2> QED
      BY <2>1, <2>2, <2>4, <2>5, <2>6, <2>7 DEF Deletion
  <1> QED
    BY <1>1, <1>2

\* What a step of theirs leaves of the queue: the same ARNs, the same record before the first event,
\* and unless the last event deletes the record, one with the ARNs it had.
QueueKept(i, a) ==
    /\ Tells(Queue, table[i], i, a)'
    /\ Currents(Queue, table[i], i)' \subseteq Currents(Queue, table[i], i)
    /\ Undeleted(Queue, i, Len(Queue) + 1)' => Undeleted(Queue, i, Len(Queue) + 1)

LEMMA WriteKeeps ==
    ASSUME TypeInv, NEW i \in Ids, NEW j \in Ids, NEW record \in Records \cup {None},
           Write(j, record), batch' = batch, NEW a, Tells(Queue, table[i], i, a),
           i = j /\ record # None => /\ ArnsOf(record.meta) = ArnsOf(table[i].meta)
                                     /\ table[i].meta = NoMeta => record.meta = NoMeta
    PROVE  /\ QueueKept(i, a)
           /\ i # j => table'[i] = table[i]
           /\ i = j => /\ table'[i] = record
                       /\ Undeleted(Queue, i, Len(Queue) + 1)' => (record = None => table[i] = None)
  <1>1. /\ Queue \in Seq(Events) /\ table \in [Ids -> Records \cup {None}]
        /\ table' = [table EXCEPT ![j] = record]
    BY QueueFacts DEF TypeInv, DataTypes, Write
  <1>2. Queue' = After(Queue, j, table[j], record)
    BY QueueWrite DEF TypeInv
  <1> DEFINE old == table[j]
             now == table[i]
             q == Queue
  <1>3. /\ old \in Records \cup {None} /\ q \in Seq(Events) /\ Queue' = After(q, j, old, record)
        /\ Tells(q, now, i, a)
    BY <1>1, <1>2
  <1>4. CASE i # j
    <2>1. table'[i] = table[i]
      BY <1>1, <1>4
    <2> HIDE DEF old, now, q
    <2>2. /\ Tells(After(q, j, old, record), now, i, a)
          /\ Currents(After(q, j, old, record), now, i) = Currents(q, now, i)
          /\ Undeleted(After(q, j, old, record), i, Len(After(q, j, old, record)) + 1) =>
               Undeleted(q, i, Len(q) + 1)
      <3>1. PICK e \in Events : e = [id |-> j, old |-> old, new |-> record]
        BY <1>3, EventOf
      <3>2. e.id # i
        BY <1>4, <3>1
      <3>3. After(q, j, old, record) = IF record = old THEN q ELSE Append(q, e)
        BY <3>1 DEF After
      <3> QED
        BY <1>3, <3>2, <3>3, OthersAppend
    <2> QED
      BY <1>3, <1>4, <2>1, <2>2 DEF now, q, QueueKept
  <1>5. CASE i = j
    <2>1. table'[i] = record /\ now = old
      BY <1>1, <1>5
    <2>2. record # None => /\ ArnsOf(record.meta) = ArnsOf(old.meta)
                           /\ old.meta = NoMeta => record.meta = NoMeta
      BY <1>5
    <2> HIDE DEF old, now, q
    <2>3. Tells(q, old, i, a)
      BY <1>3, <2>1
    <2>4. /\ Tells(After(q, i, old, record), record, i, a)
          /\ Currents(After(q, i, old, record), record, i) \subseteq Currents(q, old, i)
          /\ Undeleted(After(q, i, old, record), i, Len(After(q, i, old, record)) + 1) =>
               Undeleted(q, i, Len(q) + 1) /\ (record = None => old = None)
      BY <1>3, <2>2, <2>3, OwnComes, Z3
    <2> QED
      BY <1>3, <1>5, <2>1, <2>4 DEF now, q, QueueKept
  <1> QED
    BY <1>4, <1>5

LEMMA OutsideClean ==
    ASSUME TypeInv, OwnerInv, Outside, NEW i \in Ids, NEW a, Clean(i, a), QueueKept(i, a),
           Link(i)', Ips(i, a)'
    PROVE  Clean(i, a)'
  <1>1. InWork(i, a)' /\ Unbegun(i)' = Unbegun(i)
    BY OutsideWork DEF Clean
  <1>2. \A record : Serves(i, a, record) => Serves(i, a, record)'
    BY OutsideServes
  <1>3. Waiting(i, a)'
    BY <1>1, <1>2 DEF Waiting, QueueKept, Clean
  <1> QED
    BY <1>1, <1>3 DEF Clean, QueueKept

\* What the monitor has read with the ARNs the record has now, it has as they stand.
LEMMA LinkKept ==
    ASSUME TypeInv, OwnerInv, [Next]_vars, NEW i \in Ids, Link(i),
           table'[i].meta = table[i].meta \/ table'[i].meta = NoMeta
    PROVE  Link(i)'
  <1> DEFINE meta == table'[i].meta
  <1>1. ASSUME NEW m \in Metas(i), m.group = 0 PROVE m = NoMeta
    BY <1>1 DEF OwnerInv
  <1>2. table[i].meta \in Metas(i) /\ \A s \in scanned : s.id = i => s.record.meta \in Metas(i)
    BY DEF Metas
  <1>3. Working /\ item.id = i => item.read.meta \in Metas(i)
    BY DEF Metas
  <1>4. ASSUME NEW m \in Metas(i), m.group = table[i].meta.group => m = table[i].meta,
               m.group = meta.group
        PROVE  m = meta
    BY <1>1, <1>4, NoneFacts
  <1>5. ASSUME NEW s \in scanned, s.id = i, s.record.meta.group = meta.group
        PROVE  s.record.meta = meta
    BY <1>2, <1>4, <1>5 DEF Link
  <1>6. ASSUME NEW s \in scanned', s.id = i, s.record.meta.group = meta.group
        PROVE  s.record.meta = meta
    <2>1. s \in scanned \/ s.record = table[i]
      BY <1>6, MonitorSteps DEF ScannedNow
    <2>2. s.record = table[i] => s.record.meta = meta
      BY <1>2, <1>4, <1>6
    <2> QED
      BY <1>5, <1>6, <2>1, <2>2
  <1>7. ASSUME Working', item'.id = i, item'.read.meta.group = meta.group
        PROVE  item'.read.meta = meta
    <2>1. CASE Working /\ item' = item
      BY <1>3, <1>4, <1>7, <2>1 DEF Link
    <2>2. CASE \E s \in scanned : item'.id = s.id /\ item'.read = s.record
      BY <1>5, <1>7, <2>2
    <2> QED
      BY <1>7, <2>1, <2>2, MonitorSteps DEF ItemNow
  <1> QED
    BY <1>6, <1>7 DEF Link

\* A record newly at hand has had nothing registered yet.
LEMMA OutsideItem ==
    ASSUME TypeInv, Outside, Working'
    PROVE  \/ Working /\ item' = item
           \/ /\ mpc' = "register"
              /\ \E s \in scanned : /\ item'.id = s.id /\ item'.read = s.record
                                    /\ item'.meta.group = s.record.meta.group
  <1>1. CASE UNCHANGED monitorVars
    BY <1>1 DEF Working, monitorVars
  <1>2. ASSUME NEW records, NextRecord(records) PROVE FALSE
    BY <1>2 DEF NextRecord, Working
  <1>3. CASE Register \/ Deregister
    BY <1>2, <1>3 DEF Register, Deregister, ItemDone, Working
  <1>4. ASSUME NEW s \in scanned, NEW ips, Lookup(s, ips)
        PROVE  /\ mpc' = "register" /\ item'.id = s.id /\ item'.read = s.record
               /\ item'.meta.group = s.record.meta.group
    <2>1. mpc' = "register" /\ item' = LookedUp(s, ips)
      BY <1>2, <1>4 DEF Lookup
    <2>2. s.record.meta \in Meta
      BY DEF TypeInv, DataTypes, Records
    <2> QED
      BY <2>1, <2>2, MetaWithIps DEF LookedUp
  <1> QED
    BY <1>1, <1>2, <1>3, <1>4
       DEF Outside, Monitor, User, UserInserts, UserEdits, UserDeletes, AddressesMove, Scan, Resolve,
           ResolveFails, PutRecord, ItemDone, MonitorTimesOut, vars

LEMMA ItemArns ==
    ASSUME TypeInv, Working
    PROVE  item.meta.group = item.read.meta.group /\ item.drop = item.read.meta.ips \ item.meta.ips
  <1>1. item.read.meta \in Meta /\ item.meta = [item.read.meta EXCEPT !.ips = item.meta.ips]
    BY DEF TypeInv, DataTypes, MonitorInv, Records
  <1>2. PICK meta, ips : meta \in Meta /\ meta = item.read.meta /\ ips = item.meta.ips
    BY <1>1
  <1>3. [meta EXCEPT !.ips = ips].group = meta.group
    BY MetaWithIps
  <1>4. item.meta = [meta EXCEPT !.ips = ips]
    BY <1>1, <1>2
  <1> QED
    BY <1>2, <1>3, <1>4 DEF TypeInv, MonitorInv

\* The addresses of the group at hand are those registered so far.
Mine(i, group) == Working /\ item.id = i /\ item.meta.group = group

LEMMA MineIps ==
    ASSUME TypeInv, OwnerInv, Outside, NEW i \in Ids \ spoiled', NEW a, Mine(i, a.group),
           Undeleted(Queue, i, Len(Queue) + 1)' => Undeleted(Queue, i, Len(Queue) + 1),
           PutRecord \/ table'[i].meta = table[i].meta,
           Tells(Queue, table[i], i, a), Ips(i, a), Link(i)
    PROVE  Ips(i, a)'
  <1> SUFFICES ASSUME Undeleted(Queue, i, Len(Queue) + 1)', NEW h \in GroupsOf(i)', h.arn = a.group
               PROVE  h.ips = Registered(i, a.group)'
    BY DEF Ips
  <1>1. Undeleted(Queue, i, Len(Queue) + 1) /\ ArnsOf(table[i].meta) = a
    BY DEF Tells
  <1>2. /\ Working /\ item.id = i /\ item.meta.group = a.group /\ table[i].meta.group = a.group
        /\ mpc \in {"register", "deregister", "put"}
    BY <1>1 DEF Mine, ArnsOf, Working
  <1>3. item \in [id : Ids, read : Records, meta : Meta, drop : SUBSET UNION Addresses]
    BY <1>2 DEF TypeInv, DataTypes
  <1> DEFINE read == item.read.meta.ips
             meta == item.meta.ips
  <1>4. item.drop = read \ meta /\ item.read.meta.group = item.meta.group
    BY <1>2, ItemArns
  <1>5. item.read.meta = table[i].meta
    BY <1>2, <1>4 DEF Link
  <1>6. PICK g \in groups : Kept(g, h)
    BY OutsideGroups DEF GroupsOf
  <1>7. g \in GroupsOf(i) /\ g.arn = a.group /\ h \in groups' /\ h.arn = g.arn
    BY <1>6 DEF Kept, GroupsOf
  <1>8. g.ips = Registered(i, a.group)
    BY <1>1, <1>7 DEF Ips
  <1>9. g.ips = IF mpc = "register" THEN read ELSE IF mpc = "deregister" THEN read \cup meta ELSE meta
    BY <1>2, <1>8 DEF Registered
  <1>10. \A f, k \in groups : f.arn = k.arn => f = k
    BY DEF OwnerInv, ArnsUnique
  <1>11. ASSUME groups' = groups PROVE h = g
    BY <1>7, <1>10, <1>11
  <1>12. \A f \in groups : f \in [arn : 1..arns, id : Ids, target : {s.target : s \in Specs},
                                   ips : SUBSET UNION Addresses]
    BY DEF TypeInv, AwsTypes
  <1>13. g \in GroupWith(item.meta.group)
    BY <1>2, <1>7 DEF GroupWith
  <1> HIDE DEF read, meta
  <1>14. CASE Register
    <2> DEFINE add == meta \ read
    <2>1. mpc = "register" /\ g.ips = read
      BY <1>9, <1>14 DEF Register
    <2>2. mpc' = "deregister" /\ item' = item
      BY <1>13, <1>14 DEF Register
    <2>3. Registered(i, a.group)' = read \cup meta
      BY <1>2, <2>2 DEF Registered, Working, read, meta
    <2>4. CASE add = {}
      <3>1. groups' = groups
        BY <1>14, <2>4 DEF Register, read, meta
      <3> QED
        BY <1>11, <2>1, <2>3, <2>4, <3>1
    <2>5. CASE add # {}
      <3> HIDE DEF add
      <3>1. groups' = {IF f.arn = item.meta.group THEN [f EXCEPT !.ips = @ \cup add] ELSE f :
                         f \in groups}
        BY <1>13, <1>14, <2>5 DEF Register, add, read, meta
      <3>2. PICK f \in groups : h = IF f.arn = item.meta.group THEN [f EXCEPT !.ips = @ \cup add] ELSE f
        BY <1>7, <3>1
      <3>3. h.arn = f.arn
        BY <1>12, <3>2
      <3>4. f = g
        BY <1>7, <1>10, <3>3
      <3>5. h.ips = g.ips \cup add
        BY <1>2, <1>7, <1>12, <3>2, <3>4
      <3> QED
        BY <2>1, <2>3, <3>5 DEF add
    <2> QED
      BY <2>4, <2>5
  <1>15. CASE Deregister
    <2> DEFINE drop == item.drop
    <2>1. mpc = "deregister" /\ g.ips = read \cup meta
      BY <1>9, <1>15 DEF Deregister
    <2>2. mpc' = "put" /\ item' = item
      BY <1>13, <1>15 DEF Deregister
    <2>3. Registered(i, a.group)' = meta
      BY <1>2, <2>2 DEF Registered, Working, meta
    <2>4. CASE drop = {}
      <3>1. groups' = groups
        BY <1>15, <2>4 DEF Deregister
      <3> QED
        BY <1>4, <1>11, <2>1, <2>3, <2>4, <3>1
    <2>5. CASE drop # {}
      <3> HIDE DEF drop
      <3>1. groups' = {IF f.arn = item.meta.group THEN [f EXCEPT !.ips = @ \ drop] ELSE f :
                         f \in groups}
        BY <1>13, <1>15, <2>5 DEF Deregister, drop
      <3>2. PICK f \in groups : h = IF f.arn = item.meta.group THEN [f EXCEPT !.ips = @ \ drop] ELSE f
        BY <1>7, <3>1
      <3>3. h.arn = f.arn
        BY <1>12, <3>2
      <3>4. f = g
        BY <1>7, <1>10, <3>3
      <3>5. h.ips = g.ips \ drop
        BY <1>2, <1>7, <1>12, <3>2, <3>4
      <3> QED
        BY <1>4, <2>1, <2>3, <3>5 DEF drop
    <2> QED
      BY <2>4, <2>5
  <1>16. CASE PutRecord
    <2>1. g.ips = meta /\ groups' = groups /\ ~Working'
      BY <1>9, <1>16 DEF PutRecord, aws, ItemDone, NextRecord, Working
    <2>2. table'[i].meta = item.meta
      BY <1>2, <1>16, RecordOf DEF PutRecord, Write, TypeInv, DataTypes
    <2> QED
      BY <1>11, <2>1, <2>2 DEF Registered, meta
  <1>17. CASE MonitorTimesOut
    <2>1. mpc = "register" /\ groups' = groups /\ ~Working' /\ table' = table
      BY <1>2, <1>17 DEF MonitorTimesOut, aws, NextRecord, Working
    <2> QED
      BY <1>5, <1>9, <1>11, <2>1 DEF Registered, read
  <1>18. CASE UNCHANGED monitorVars /\ groups' = groups
    BY <1>2, <1>8, <1>11, <1>18 DEF Registered, Working, monitorVars
  <1>19. ~Scan /\ \A s \in scanned : ~Resolve(s) /\ ~ResolveFails(s)
    BY <1>2 DEF Scan, Resolve, ResolveFails, Lookup
  <1>20. User \/ UNCHANGED vars => UNCHANGED monitorVars /\ groups' = groups
    BY DEF User, UserInserts, UserEdits, UserDeletes, AddressesMove, vars, aws
  <1> QED
    BY <1>14, <1>15, <1>16, <1>17, <1>18, <1>19, <1>20 DEF Outside, Monitor

LEMMA OutsideIps ==
    ASSUME TypeInv, OwnerInv, Outside, NEW i \in Ids \ spoiled', NEW a,
           Undeleted(Queue, i, Len(Queue) + 1)' => Undeleted(Queue, i, Len(Queue) + 1),
           \/ table'[i].meta = table[i].meta
           \/ PutRecord /\ item.id = i /\ table[i] = item.read,
           Tells(Queue, table[i], i, a), Ips(i, a), Link(i)
    PROVE  Ips(i, a)'
  <1>1. CASE Mine(i, a.group)
    BY <1>1, MineIps
  <1>2. CASE ~Mine(i, a.group)
    <2> SUFFICES ASSUME Undeleted(Queue, i, Len(Queue) + 1)', NEW h \in GroupsOf(i)', h.arn = a.group
                 PROVE  h.ips = Registered(i, a.group)'
      BY DEF Ips
    <2>1. Undeleted(Queue, i, Len(Queue) + 1) /\ ArnsOf(table[i].meta) = a
      BY DEF Tells
    <2>2. table[i].meta.group = a.group
      BY <2>1 DEF ArnsOf
    <2>3. PICK g \in groups : Kept(g, h)
      BY OutsideGroups DEF GroupsOf
    <2>4. g \in GroupsOf(i) /\ g.arn = a.group /\ h = g
      BY <1>2, <2>3 DEF Kept, GroupsOf, Mine
    <2>5. g.ips = table[i].meta.ips
      BY <1>2, <2>1, <2>4 DEF Ips, Registered, Mine
    <2>6. table'[i].meta = table[i].meta
      <3>1. ASSUME PutRecord, item.id = i, table[i] = item.read PROVE FALSE
        <4>1. Working
          BY <3>1 DEF PutRecord, Working
        <4>2. item.meta.group = item.read.meta.group
          BY <4>1, ItemArns
        <4> QED
          BY <1>2, <2>2, <3>1, <4>1, <4>2 DEF Mine
      <3> QED
        BY <3>1
    <2>7. ASSUME Working', item'.id = i, item'.meta.group = a.group
          PROVE  mpc' = "register" /\ item'.read.meta.ips = table[i].meta.ips
      <3>1. mpc' = "register" /\ \E s \in scanned : /\ item'.id = s.id /\ item'.read = s.record
                                                    /\ item'.meta.group = s.record.meta.group
        BY <1>2, <2>7, OutsideItem DEF Mine
      <3> QED
        BY <2>2, <2>7, <3>1 DEF Link
    <2>8. Registered(i, a.group)' = table[i].meta.ips
      BY <2>6, <2>7 DEF Registered
    <2> QED
      BY <2>4, <2>5, <2>8
  <1> QED
    BY <1>1, <1>2

LEMMA StillClean ==
    ASSUME TypeInv, OwnerInv, Outside, UNCHANGED <<table, stream>>, NEW i \in Ids \ spoiled', NEW a,
           Clean(i, a)
    PROVE  Clean(i, a)'
  <1>1. Queue' = Queue
    BY OutsideAws DEF Regrouped, handlerVars, Queue
  <1>2. QueueKept(i, a)
    BY <1>1 DEF QueueKept, Clean
  <1>3. Link(i)'
    BY LinkKept DEF Clean, Outside, Next
  <1>4. Ips(i, a)'
    BY <1>2, OutsideIps DEF Clean, QueueKept
  <1> QED
    BY <1>2, <1>3, <1>4, OutsideClean

LEMMA UserClean ==
    ASSUME TypeInv, OwnerInv, User, NEW i \in Ids \ spoiled', NEW a, Clean(i, a)
    PROVE  Clean(i, a)'
  <1>1. Outside
    BY DEF Outside
  <1>2. ASSUME NEW j \in Ids, NEW record \in Records \cup {None}, UserWrites(j, record)
        PROVE  Clean(i, a)'
    <2>1. Write(j, record) /\ batch' = batch
      BY <1>2 DEF UserWrites, handlerVars
    <2>2. i = j => record.meta = table[i].meta \/ (record = None /\ record.meta = NoMeta)
      BY <1>2, NoneFacts DEF UserWrites
    <2>3. /\ QueueKept(i, a)
          /\ i # j => table'[i] = table[i]
          /\ i = j => /\ table'[i] = record
                      /\ Undeleted(Queue, i, Len(Queue) + 1)' => (record = None => table[i] = None)
      BY <2>1, <2>2, WriteKeeps DEF Clean
    <2>4. Link(i)'
      BY <1>1, <2>2, <2>3, LinkKept DEF Clean, Outside, Next
    <2>5. CASE table'[i].meta = table[i].meta
      <3>1. Ips(i, a)'
        BY <1>1, <2>3, <2>5, OutsideIps DEF Clean, QueueKept
      <3> QED
        BY <1>1, <2>3, <2>4, <3>1, OutsideClean
    <2>6. CASE table'[i].meta # table[i].meta
      <3>1. i = j /\ record = None /\ table[i] # None
        BY <2>2, <2>3, <2>6, NoneFacts
      <3>2. Ips(i, a)'
        BY <2>3, <3>1 DEF Ips
      <3> QED
        BY <1>1, <2>3, <2>4, <3>2, OutsideClean
    <2> QED
      BY <2>5, <2>6
  <1>3. ASSUME NEW j \in Ids, NEW ips \in Addresses, AddressesMove(j, ips)
        PROVE  Clean(i, a)'
    BY <1>1, <1>3, StillClean DEF AddressesMove
  <1> QED
    BY <1>2, <1>3, UserCases

LEMMA PutRecordClean ==
    ASSUME TypeInv, OwnerInv, PutRecord, NEW i \in Ids \ spoiled', NEW a, Clean(i, a)
    PROVE  Clean(i, a)'
  <1>1. Outside /\ Working
    BY DEF Outside, Monitor, PutRecord, Working
  <1>2. /\ item.id \in Ids /\ item.read \in Records /\ item.meta \in Meta
        /\ item.read.spec \in Specs /\ item.read.meta \in Meta
    BY <1>1 DEF TypeInv, DataTypes, Records
  <1> DEFINE j == item.id
             record == Record(item.read.spec, item.meta)
  <1>3. record \in Records /\ record.meta = item.meta
    BY <1>2, RecordOf
  <1>4. Write(j, record) /\ batch' = batch /\ ~Working' /\ scanned' = scanned
    BY DEF PutRecord, handlerVars, ItemDone, NextRecord, Working
  <1>5. i = j => table[i] = item.read
    BY DEF PutRecord
  <1>6. ArnsOf(item.meta) = ArnsOf(item.read.meta) /\ (item.read.meta = NoMeta => item.meta = NoMeta)
    <2>1. item.meta = [item.read.meta EXCEPT !.ips = item.meta.ips]
      BY <1>1 DEF TypeInv, MonitorInv
    <2>2. PICK meta, ips : meta \in Meta /\ meta = item.read.meta /\ ips = item.meta.ips
      BY <1>2
    <2>3. [meta EXCEPT !.ips = ips].group = meta.group /\ [meta EXCEPT !.ips = ips].rule = meta.rule
      BY MetaWithIps
    <2>4. item.meta = [meta EXCEPT !.ips = ips]
      BY <2>1, <2>2
    <2> QED
      BY <1>1, <2>2, <2>3, <2>4 DEF ArnsOf, TypeInv, MonitorInv
  <1> HIDE DEF record
  <1>7. /\ QueueKept(i, a)
        /\ i # j => table'[i] = table[i]
        /\ i = j => table'[i] = record
    <2>1. i = j => /\ ArnsOf(record.meta) = ArnsOf(table[i].meta)
                   /\ table[i].meta = NoMeta => record.meta = NoMeta
      BY <1>3, <1>5, <1>6
    <2>2. Tells(Queue, table[i], i, a)
      BY DEF Clean
    <2> HIDE DEF j
    <2>3. j \in Ids
      BY <1>2 DEF j
    <2> QED
      BY <1>3, <1>4, <2>1, <2>2, <2>3, WriteKeeps
  <1>8. Link(i)'
    <2>1. CASE i # j
      BY <1>1, <1>7, <2>1, LinkKept DEF Clean, Outside, Next
    <2>2. CASE i = j
      <3>1. \A s \in scanned : s.id # i
        BY <1>1, <2>2 DEF TypeInv, MonitorInv
      <3> QED
        BY <1>4, <3>1 DEF Link
    <2> QED
      BY <2>1, <2>2
  <1>9. Ips(i, a)'
    BY <1>1, <1>5, <1>7, OutsideIps DEF Clean, QueueKept
  <1> QED
    BY <1>1, <1>7, <1>8, <1>9, OutsideClean

\* All that the users and the monitor do.
LEMMA OthersClean ==
    ASSUME TypeInv, OwnerInv, Outside, NEW i \in Ids \ spoiled', NEW a, Clean(i, a)
    PROVE  Clean(i, a)'
  <1>1. CASE UNCHANGED <<table, stream>>
    BY <1>1, StillClean
  <1>2. CASE User
    BY <1>2, UserClean
  <1>3. CASE PutRecord
    BY <1>3, PutRecordClean
  <1> QED
    BY <1>1, <1>2, <1>3
       DEF Outside, Monitor, Scan, Resolve, ResolveFails, Lookup, Register, Deregister,
           MonitorTimesOut, vars

-----------------------------------------------------------------------------
(* The invariant, and what it says when both functions rest *)

LEMMA SpoiledGrows ==
    ASSUME TypeInv, [Next]_vars
    PROVE  spoiled \subseteq spoiled'
  BY DEF Next, User, UserInserts, UserEdits, UserDeletes, AddressesMove, Handler, TakeBatch,
         NothingChanged, ModifyRule, SetPriority, DeleteRule, DeleteGroup, DeletionFails, CreateGroup,
         CreateRule, PutMetadata, Throw, HandlerTimesOut, Monitor, Scan, Register, Deregister, PutRecord, Resolve,
         ResolveFails, Lookup, MonitorTimesOut, vars

LEMMA InitChain == Init => ChainInv
  <1> SUFFICES ASSUME Init, NEW i \in Ids PROVE Chain(Queue, table[i], i) /\ LastChange(Queue, table[i], i)
    BY DEF ChainInv
  <1>1. Queue = <<>>
    BY DEF Init, Queue
  <1>2. EventsOf(Queue, i) = {}
    BY <1>1 DEF EventsOf
  <1> QED
    BY <1>2 DEF Chain, LastChange

LEMMA InitClean == Init => CleanInv
  <1> SUFFICES ASSUME Init, NEW i \in Ids PROVE Clean(i, NoArns)
    <2>1. NoArns \in [group : Nat, rule : Nat]
      BY NoneFacts DEF NoArns, ArnsOf
    <2> QED
      BY <2>1 DEF CleanInv
  <1>1. Queue = <<>> /\ table[i] = None /\ groups = {} /\ scanned = {} /\ ~Working /\ batch = <<>>
    BY DEF Init, Queue, Working
  <1>2. EventsOf(Queue, i) = {}
    BY <1>1 DEF EventsOf
  <1>3. Tells(Queue, table[i], i, NoArns)
    BY <1>1, <1>2, NoneFacts DEF Tells, Undeleted, NoArns
  <1>4. Serves(i, NoArns, None)
    BY <1>1 DEF Serves, GroupsOf
  <1>5. Currents(Queue, table[i], i) = {None}
    BY <1>1, <1>2 DEF Currents
  <1>6. Waiting(i, NoArns) /\ InWork(i, NoArns)
    BY <1>1, <1>4, <1>5 DEF Waiting, InWork, InHand
  <1>7. Ips(i, NoArns) /\ Link(i)
    BY <1>1 DEF Ips, Link, GroupsOf
  <1> QED
    BY <1>3, <1>6, <1>7 DEF Clean

LEMMA NextClean ==
    TypeInv /\ TypeInv' /\ ChainInv /\ OwnerInv /\ CleanInv /\ [Next]_vars => CleanInv'
  <1> SUFFICES ASSUME TypeInv, TypeInv', ChainInv, OwnerInv, CleanInv, [Next]_vars,
                      NEW i \in Ids \ spoiled'
               PROVE  Doomed(i)' \/ \E a \in [group : Nat, rule : Nat] : Clean(i, a)'
    BY DEF CleanInv
  <1>1. i \in Ids \ spoiled
    BY SpoiledGrows
  <1>2. CASE Doomed(i)
    BY <1>2, DoomStep
  <1>3. ASSUME NEW a \in [group : Nat, rule : Nat], Clean(i, a)
        PROVE  Doomed(i)' \/ \E b \in [group : Nat, rule : Nat] : Clean(i, b)'
    <2>1. CASE Outside
      <3>1. Clean(i, a)'
        BY <1>3, <2>1, OthersClean
      <3> QED
        BY <3>1
    <2>2. CASE (Handler \/ HandlerTimesOut) /\ InHand(i)
      BY <1>3, <2>2, HeadClean
    <2>3. CASE (Handler \/ HandlerTimesOut) /\ ~InHand(i)
      <3>1. Clean(i, a)'
        BY <1>3, <2>3, CleanElse
      <3> QED
        BY <3>1
    <2> QED
      BY <2>1, <2>2, <2>3 DEF Next, Outside
  <1> QED
    BY <1>1, <1>2, <1>3 DEF CleanInv

LEMMA CleanIsInStep ==
    ASSUME TypeInv, OwnerInv, CleanInv
    PROVE  InStep
  <1> SUFFICES ASSUME hpc = "idle", stream = <<>>, mpc = "idle", NEW i \in Ids \ spoiled
               PROVE  IF table[i] # None THEN Served(i) ELSE \A g \in groups : g.id # i
    BY DEF InStep
  <1>1. batch = <<>> /\ ~Working
    BY DEF TypeInv, HandlerInv, Working
  <1>2. Queue = <<>>
    BY <1>1 DEF Queue
  <1>3. EventsOf(Queue, i) = {} /\ ~Doomed(i)
    BY <1>2 DEF EventsOf, Doomed
  <1>4. PICK a : Clean(i, a)
    BY <1>3 DEF CleanInv
  <1>5. ArnsOf(table[i].meta) = a
    BY <1>3, <1>4 DEF Clean, Tells, Undeleted
  <1>6. Serves(i, a, table[i])
    BY <1>1, <1>3, <1>4 DEF Clean, Waiting, Unbegun, InHand, Currents
  <1>7. CASE table[i] = None
    <2>1. a = NoArns
      BY <1>5, <1>7, NoneFacts DEF NoArns
    <2> QED
      BY <1>6, <1>7, <2>1 DEF Serves, GroupsOf
  <1>8. CASE table[i] # None
    <2> DEFINE meta == table[i].meta
               spec == table[i].spec
    <2>1. Has(i, a, spec.target, spec.condition, spec.priority)
      BY <1>6, <1>8 DEF Serves
    <2>2. meta.group = a.group /\ meta.rule = a.rule
      BY <1>5 DEF ArnsOf
    <2> HIDE DEF meta, spec
    <2>3. PICK g \in groups : GroupsOf(i) = {g} /\ g.arn = a.group /\ g.target = spec.target
      BY <2>1 DEF Has, HasGroup
    <2>4. g.id = i /\ \A f \in groups : f.id = i => f = g
      BY <2>3 DEF GroupsOf
    <2>5. g.ips = meta.ips
      BY <1>1, <1>3, <1>4, <2>3 DEF Clean, Ips, Undeleted, Registered, meta
    <2>6. g = [arn |-> meta.group, id |-> i, target |-> spec.target, ips |-> meta.ips]
      BY <2>2, <2>3, <2>4, <2>5 DEF TypeInv, AwsTypes
    <2>7. {f \in groups : f.id = i} =
            {[arn |-> meta.group, id |-> i, target |-> spec.target, ips |-> meta.ips]}
      BY <2>3, <2>6 DEF GroupsOf
    <2>8. {r \in rules : r.group = meta.group} = RulesOf(i)
      BY <2>2, <2>3, <2>4 DEF RulesOf
    <2>9. RulesOf(i) = {[arn |-> meta.rule, condition |-> spec.condition, priority |-> spec.priority,
                         group |-> meta.group]}
      BY <2>1, <2>2 DEF Has, HasRule
    <2> QED
      BY <1>8, <2>7, <2>8, <2>9 DEF Served, meta, spec
  <1> QED
    BY <1>7, <1>8

\* ARNs are given once, and every record, event and monitored item of an id names a group and a
\* rule of that id, or ones that are gone: no function changes what AWS holds for another record.
THEOREM ArnsAreOwned == Spec => []OwnerInv
  <1>1. Init => TypeInv /\ OwnerInv
    BY InitTypes, InitOwners
  <1>2. TypeInv /\ OwnerInv /\ [Next]_vars => (TypeInv /\ OwnerInv)'
    BY NextTypes, NextOwners
  <1> QED
    BY <1>1, <1>2, PTL DEF Spec

\* When both functions rest, AWS serves every record as it stands, and nothing else, for the ids whose
\* record no writer wrote over unread, whose events were not dropped and for which no deletion
\* failed.  The inductive invariant is TypeInv, ChainInv, OwnerInv and CleanInv.
THEOREM RecordsAreServed == Spec => []InStep
  <1> DEFINE Inv == TypeInv /\ ChainInv /\ OwnerInv /\ CleanInv
  <1>1. Init => Inv
    BY InitTypes, InitChain, InitOwners, InitClean
  <1>2. Inv /\ [Next]_vars => Inv'
    <2> SUFFICES ASSUME Inv, [Next]_vars PROVE Inv'
      OBVIOUS
    <2>1. TypeInv'
      BY NextTypes
    <2>2. ChainInv' /\ OwnerInv'
      BY NextChain, NextOwners
    <2>3. CleanInv'
      BY <2>1, NextClean
    <2> QED
      BY <2>1, <2>2, <2>3
  <1>3. Inv => InStep
    BY CleanIsInStep
  <1> QED
    BY <1>1, <1>2, <1>3, PTL DEF Spec

=============================================================================
