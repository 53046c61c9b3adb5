------------------------- MODULE AccountsTableProofs -------------------------
(***************************************************************************)
(* Proofs about AccountsTable: type correctness, what the table holds      *)
(* between uninterrupted rewrites, what an undisturbed read returns, and   *)
(* that a rewrite which ends lost nothing, for all Chunks, MaxChunks and   *)
(* MaxInterrupts.                                                          *)
(*                                                                         *)
(* That module has one writer because Load Accounts is a step of the main  *)
(* state machine and one execution of it works at a time.  The second part *)
(* proves that, for any sets of executions and invocations.                *)
(***************************************************************************)
EXTENDS AccountsTable, Executions, SequenceTheorems, TLAPS

(***************************************************************************)
(* The inductive invariant.  A rewrite that is under way has removed the   *)
(* items below its index, or put the chunks below its index; as long as no *)
(* rewrite was ever cut short it also knows everything above its index.    *)
(***************************************************************************)

\* Bounds of the two loops.
LoopBounds ==
    /\ writer.pc = "delete" => writer.index <= writer.itemsCount
    /\ writer.pc = "put" => writer.index <= Len(writer.list)
    /\ writer.pc = "count" => writer.index = Len(writer.list)

\* The chunks the put loop has passed are in the table.
PutSoFar ==
    writer.pc \in {"put", "count"} =>
        \A i \in Index : i < writer.index => items[i] = writer.list[i + 1]

\* The part of the table the running step has not reached yet.
Untorn ==
    interrupts = 0 =>
        /\ writer.pc = "idle" => count = Len(stored)
        /\ writer.pc = "delete" => writer.itemsCount = Len(stored)
        /\ \A i \in Index :
             /\ writer.pc = "idle" =>
                  items[i] = IF i < Len(stored) THEN stored[i + 1] ELSE NoItem
             /\ writer.pc = "delete" =>
                  items[i] = IF writer.index <= i /\ i < Len(stored)
                               THEN stored[i + 1] ELSE NoItem
             /\ writer.pc \in {"put", "count"} /\ writer.index <= i =>
                  items[i] = NoItem

\* An undisturbed read has collected a prefix of the last listing.
ReadPrefix ==
    reader.pc = "get" /\ ~reader.overlap /\ interrupts = 0 =>
        /\ writer.pc = "idle"
        /\ reader.index <= Len(stored)
        /\ Len(reader.result) = reader.index
        /\ \A i \in 1..reader.index : reader.result[i] = stored[i]

\* A read only collects as many chunks as it has made successful calls.
ReadLength == reader.pc = "get" => Len(reader.result) = reader.index

IInv == TypeOK /\ LoopBounds /\ PutSoFar /\ Untorn /\ ReadPrefix /\ ReadLength

-----------------------------------------------------------------------------
\* A listing is a sequence of chunks no longer than the bound.
LEMMA ListingIsSeq ==
    ASSUME NEW l \in Listings
    PROVE  l \in Seq(Chunks) /\ Len(l) \in 0..MaxChunks
<1>1. PICK n \in 0..MaxChunks : l \in [1..n -> Chunks]
  BY DEF Listings
<1>2. n \in Nat
  BY <1>1, TableAssumption
<1>3. l \in Seq(Chunks)
  BY <1>1, <1>2
<1>4. Len(l) = n
  BY <1>1, <1>2, <1>3, LenProperties
<1> QED BY <1>1, <1>3, <1>4

\* The listing that is one chunk longer is a listing, if the bound allows.
LEMMA AppendListing ==
    ASSUME NEW l \in Listings, NEW c \in Chunks, Len(l) < MaxChunks
    PROVE  Append(l, c) \in Listings
<1>1. l \in Seq(Chunks) /\ Len(l) \in Nat
  BY ListingIsSeq
<1>2. /\ Append(l, c) \in Seq(Chunks)
      /\ Len(Append(l, c)) = Len(l) + 1
  BY <1>1, AppendProperties
<1>3. Append(l, c) \in [1..(Len(l) + 1) -> Chunks]
  BY <1>2, LenProperties
<1>4. Len(l) + 1 \in 0..MaxChunks
  BY <1>1, TableAssumption
<1> QED BY <1>3, <1>4 DEF Listings

\* The chunk of a listing at a position it has.
LEMMA ChunkOf ==
    ASSUME NEW l \in Listings, NEW i \in 1..Len(l)
    PROVE  l[i] \in Chunks
BY ListingIsSeq, ElementOfSeq

LEMMA InitIInv == Init => IInv
<1> SUFFICES ASSUME Init PROVE IInv
  OBVIOUS
<1>1. <<>> \in Listings
  <2>1. <<>> \in [1..0 -> Chunks]
    OBVIOUS
  <2> QED BY <2>1, TableAssumption DEF Listings
<1>2. TypeOK
  BY <1>1, TableAssumption DEF Init, TypeOK, WriterState, ReaderState
<1>3. Untorn
  BY TableAssumption DEF Init, Untorn, Index
<1> QED BY <1>2, <1>3 DEF Init, IInv, LoopBounds, PutSoFar, ReadPrefix, ReadLength

-----------------------------------------------------------------------------
\* Every step of the writer, of the reader, and every interruption keeps the
\* invariant.
LEMMA NextIInv == IInv /\ [Next]_vars => IInv'
<1> SUFFICES ASSUME IInv, [Next]_vars PROVE IInv'
  OBVIOUS
<1> USE TableAssumption DEF IInv
<1>1. CASE BeginRewrite
  <2>1. PICK list \in Listings : writer' = [pc |-> "delete", list |-> list,
                                            index |-> 0, itemsCount |-> count]
    BY <1>1 DEF BeginRewrite
  <2>2. TypeOK'
    <3>1. writer' \in WriterState
      BY <2>1 DEF TypeOK, WriterState
    <3>2. reader' \in ReaderState
      BY <1>1 DEF BeginRewrite, TypeOK, ReaderState
    <3> QED BY <1>1, <3>1, <3>2 DEF BeginRewrite, TypeOK
  <2>3. Untorn'
    BY <1>1, <2>1 DEF BeginRewrite, TypeOK, Untorn, Index
  <2>4. LoopBounds' /\ PutSoFar'
    BY <2>1 DEF TypeOK, LoopBounds, PutSoFar
  <2>5. ReadPrefix' /\ ReadLength'
    BY <1>1 DEF BeginRewrite, TypeOK, ReaderState, ReadPrefix, ReadLength
  <2> QED BY <2>2, <2>3, <2>4, <2>5
<1>2. CASE DeleteItem
  <2>1. writer.index \in Index /\ writer'.index = writer.index + 1
    BY <1>2 DEF DeleteItem, TypeOK, WriterState, Index
  <2>2. TypeOK'
    BY <1>2, <2>1 DEF DeleteItem, TypeOK, WriterState, Index
  <2>3. Untorn'
    BY <1>2, <2>1 DEF DeleteItem, TypeOK, WriterState, Untorn, Index
  <2>4. LoopBounds' /\ PutSoFar'
    BY <1>2, <2>1 DEF DeleteItem, TypeOK, WriterState, LoopBounds, PutSoFar
  <2>5. ReadPrefix' /\ ReadLength'
    BY <1>2 DEF DeleteItem, TypeOK, WriterState, ReadPrefix, ReadLength
  <2> QED BY <2>2, <2>3, <2>4, <2>5
<1>3. CASE DeletesDone
  <2>1. TypeOK'
    <3>0. 0 \in 0..MaxChunks
      OBVIOUS
    <3>1. writer' \in WriterState
      BY <1>3, <3>0 DEF DeletesDone, TypeOK, WriterState
    <3> QED BY <1>3, <3>1 DEF DeletesDone, TypeOK
  <2>2. Untorn'
    BY <1>3 DEF DeletesDone, TypeOK, WriterState, Untorn, Index
  <2>3. LoopBounds'
    BY <1>3, ListingIsSeq DEF DeletesDone, TypeOK, WriterState, LoopBounds
  <2>4. PutSoFar'
    BY <1>3 DEF DeletesDone, TypeOK, WriterState, PutSoFar, Index
  <2>5. ReadPrefix' /\ ReadLength'
    BY <1>3 DEF DeletesDone, TypeOK, WriterState, ReadPrefix, ReadLength
  <2> QED BY <2>1, <2>2, <2>3, <2>4, <2>5
<1>4. CASE PutItem
  <2>1. /\ writer.list \in Listings
        /\ Len(writer.list) \in 0..MaxChunks
        /\ writer.index \in 0..MaxChunks
        /\ writer.index + 1 \in 1..Len(writer.list)
    BY <1>4, ListingIsSeq DEF PutItem, TypeOK, WriterState
  <2>2. writer.index \in Index /\ writer.list[writer.index + 1] \in Chunks
    BY <2>1, ChunkOf DEF Index
  <2>3. TypeOK'
    <3>1. writer' \in WriterState
      BY <1>4, <2>1 DEF PutItem, TypeOK, WriterState
    <3>2. items' \in [Index -> Chunks \cup {NoItem}]
      BY <1>4, <2>2 DEF PutItem, TypeOK
    <3> QED BY <1>4, <3>1, <3>2 DEF PutItem, TypeOK
  <2>4. PutSoFar'
    BY <1>4, <2>1, <2>2 DEF PutItem, TypeOK, WriterState, PutSoFar, Index
  <2>5. Untorn'
    BY <1>4, <2>1, <2>2 DEF PutItem, TypeOK, WriterState, Untorn, Index
  <2> QED BY <1>4, <2>1, <2>3, <2>4, <2>5
          DEF PutItem, TypeOK, WriterState, LoopBounds, ReadPrefix, ReadLength
<1>5. CASE PutsDone
  <2>1. TypeOK'
    BY <1>5 DEF PutsDone, TypeOK, WriterState
  <2> QED BY <1>5, <2>1
          DEF PutsDone, TypeOK, WriterState, LoopBounds, PutSoFar, Untorn, ReadPrefix,
              ReadLength
<1>6. CASE PutCount
  <2>1. /\ writer.list \in Listings
        /\ Len(writer.list) \in 0..MaxChunks
    BY <1>6, ListingIsSeq DEF PutCount, TypeOK, WriterState
  <2>2. TypeOK'
    BY <1>6, <2>1 DEF PutCount, TypeOK, WriterState
  <2>3. Untorn'
    BY <1>6, <2>1 DEF PutCount, TypeOK, WriterState, LoopBounds, PutSoFar, Untorn, Index
  <2>4. LoopBounds' /\ PutSoFar'
    BY <1>6 DEF PutCount, TypeOK, WriterState, LoopBounds, PutSoFar
  <2>5. ReadPrefix' /\ ReadLength'
    BY <1>6 DEF PutCount, TypeOK, WriterState, ReadPrefix, ReadLength
  <2> QED BY <2>2, <2>3, <2>4, <2>5
<1>7. CASE Interrupt
  <2>1. TypeOK' /\ interrupts' # 0
    BY <1>7 DEF Interrupt, TypeOK, WriterState
  <2>2. LoopBounds' /\ PutSoFar'
    BY <1>7 DEF Interrupt, TypeOK, WriterState, LoopBounds, PutSoFar
  <2>3. Untorn' /\ ReadPrefix' /\ ReadLength'
    BY <1>7, <2>1 DEF Interrupt, Untorn, ReadPrefix, ReadLength
  <2> QED BY <2>1, <2>2, <2>3
<1>8. CASE BeginRead
  <2>1. <<>> \in Listings /\ Len(<<>>) = 0
    <3>1. <<>> \in [1..0 -> Chunks]
      OBVIOUS
    <3> QED BY <3>1 DEF Listings
  <2>2. TypeOK'
    <3>1. reader' \in ReaderState
      BY <1>8, <2>1 DEF BeginRead, ReaderState
    <3> QED BY <1>8, <3>1 DEF BeginRead, TypeOK
  <2>3. Len(stored) \in Nat
    BY ListingIsSeq DEF TypeOK
  <2>4. ReadPrefix' /\ ReadLength'
    <3>1. /\ reader'.index = 0
          /\ reader'.result = <<>>
          /\ reader'.overlap = (writer.pc # "idle")
      BY <1>8 DEF BeginRead
    <3>2. ReadLength'
      BY <2>1, <3>1 DEF ReadLength
    <3>3. ~reader'.overlap => writer.pc = "idle"
      BY <3>1
    <3> QED BY <1>8, <2>1, <2>3, <3>1, <3>2, <3>3 DEF BeginRead, ReadPrefix
  <2> QED BY <1>8, <2>2, <2>4 DEF BeginRead, LoopBounds, PutSoFar, Untorn
<1>9. CASE GetItem
  <2>1. reader.index \in Index /\ items[reader.index] \in Chunks
    BY <1>9 DEF GetItem, ItemAt, TypeOK
  <2>2. /\ reader.result \in Listings
        /\ reader.result \in Seq(Chunks)
        /\ Len(reader.result) = reader.index
        /\ reader.index < MaxChunks
    BY <1>9, <2>1, ListingIsSeq
    DEF GetItem, TypeOK, ReaderState, ReadLength, Index
  <2>3. Append(reader.result, items[reader.index]) \in Listings
    BY <2>1, <2>2, AppendListing
  <2>4. /\ Len(Append(reader.result, items[reader.index])) = reader.index + 1
        /\ \A i \in 1..reader.index :
             Append(reader.result, items[reader.index])[i] = reader.result[i]
        /\ Append(reader.result, items[reader.index])[reader.index + 1]
             = items[reader.index]
    BY <2>1, <2>2, AppendProperties
  <2>5. TypeOK'
    <3>1. reader.index + 1 \in 0..MaxChunks
      BY <2>1 DEF Index
    <3>2. reader' \in ReaderState
      BY <1>9, <2>3, <3>1 DEF GetItem, TypeOK, ReaderState
    <3> QED BY <1>9, <3>2 DEF GetItem, TypeOK
  <2>6. /\ reader'.result = Append(reader.result, items[reader.index])
        /\ reader'.index = reader.index + 1
        /\ reader'.overlap = reader.overlap
        /\ reader'.pc = reader.pc
    BY <1>9 DEF GetItem, TypeOK, ReaderState
  <2>7. ReadLength'
    BY <2>4, <2>6 DEF ReadLength
  <2>8. ReadPrefix'
    <3> SUFFICES ASSUME reader.pc = "get", ~reader.overlap, interrupts = 0
                 PROVE  /\ writer.pc = "idle"
                        /\ reader.index + 1 <= Len(stored)
                        /\ \A i \in 1..(reader.index + 1) :
                             reader'.result[i] = stored[i]
      BY <1>9, <2>6, <2>4 DEF GetItem, ReadPrefix
    <3>1. writer.pc = "idle" /\ Len(stored) \in Nat
      BY ListingIsSeq DEF ReadPrefix, TypeOK
    <3>2. reader.index < Len(stored) /\ items[reader.index] = stored[reader.index + 1]
      BY <2>1, <3>1 DEF Untorn
    <3>3. \A i \in 1..reader.index : reader.result[i] = stored[i]
      BY DEF ReadPrefix
    <3> QED BY <2>1, <2>4, <2>6, <3>1, <3>2, <3>3 DEF Index
  <2> QED BY <1>9, <2>5, <2>7, <2>8 DEF GetItem, LoopBounds, PutSoFar, Untorn
<1>10. CASE GetNothing
  <2>1. TypeOK'
    BY <1>10 DEF GetNothing, TypeOK, ReaderState
  <2> QED BY <1>10, <2>1
          DEF GetNothing, TypeOK, ReaderState, LoopBounds, PutSoFar, Untorn, ReadPrefix,
              ReadLength
<1>11. CASE UNCHANGED vars
  BY <1>11 DEF vars, TypeOK, LoopBounds, PutSoFar, Untorn, ReadPrefix, ReadLength, Index
<1> QED BY <1>1, <1>2, <1>3, <1>4, <1>5, <1>6, <1>7, <1>8, <1>9, <1>10, <1>11
        DEF Next, Rewrite, Read

-----------------------------------------------------------------------------
\* The inductive invariant holds throughout every behaviour.
THEOREM Invariance == Spec => []IInv
<1>1. Init => IInv
  BY InitIInv
<1>2. IInv /\ [Next]_vars => IInv'
  BY NextIInv
<1> QED BY <1>1, <1>2, PTL DEF Spec

\* The variables keep their types: in particular neither loop of the Load
\* Accounts step and no read ever goes beyond the items a listing can use.
THEOREM TypeCorrect == Spec => []TypeOK
<1>1. IInv => TypeOK
  BY DEF IInv
<1> QED BY <1>1, Invariance, PTL

\* Between rewrites of which none was ever cut short, the table holds exactly
\* the last listing, however long the listings before it were.
THEOREM TableHoldsLastListing == Spec => []HoldsLastListing
<1>1. IInv => HoldsLastListing
  BY DEF IInv, HoldsLastListing, Untorn
<1> QED BY <1>1, Invariance, PTL

\* A read that no rewrite overlaps returns the last listing.
THEOREM UndisturbedRead == Spec => ReadsLastListing
<1>1. IInv /\ [Next]_vars =>
        [GetNothing /\ ~reader.overlap /\ interrupts = 0
           => reader.result = stored]_vars
  <2> SUFFICES ASSUME IInv, GetNothing, ~reader.overlap, interrupts = 0
               PROVE  reader.result = stored
    OBVIOUS
  <2>1. /\ reader.index <= Len(stored)
        /\ Len(reader.result) = reader.index
        /\ \A i \in 1..reader.index : reader.result[i] = stored[i]
        /\ writer.pc = "idle"
    BY DEF IInv, GetNothing, ReadPrefix
  <2>2. /\ stored \in Seq(Chunks) /\ Len(stored) \in 0..MaxChunks
        /\ reader.result \in Seq(Chunks)
        /\ reader.index \in 0..MaxChunks
    BY ListingIsSeq DEF IInv, TypeOK, ReaderState
  <2>3. ~(reader.index < Len(stored))
    <3> SUFFICES ASSUME reader.index < Len(stored) PROVE FALSE
      OBVIOUS
    <3>1. reader.index \in Index
      BY <2>2, TableAssumption DEF Index
    <3>2. items[reader.index] = stored[reader.index + 1]
      BY <2>1, <3>1 DEF IInv, Untorn
    <3>3. stored[reader.index + 1] \in Chunks
      BY <2>2, ElementOfSeq
    <3> QED BY <3>1, <3>2, <3>3, TableAssumption DEF GetNothing, ItemAt
  <2>4. Len(reader.result) = Len(stored)
    BY <2>1, <2>2, <2>3
  <2> QED BY <2>1, <2>2, <2>4, SeqEqual
<1> QED BY <1>1, Invariance, PTL DEF Spec, ReadsLastListing

\* A rewrite that runs to its end leaves its whole listing readable, also
\* after any number of interrupted rewrites before it.
THEOREM RewriteLosesNothing == Spec => NothingLost
<1>1. IInv /\ [Next]_vars =>
        [PutCount => \A i \in 1..Len(writer.list) :
                       Visible(i - 1) /\ items[i - 1] = writer.list[i]]_vars
  <2> SUFFICES ASSUME IInv, PutCount, NEW i \in 1..Len(writer.list)
               PROVE  Visible(i - 1) /\ items[i - 1] = writer.list[i]
    OBVIOUS
  <2>1. /\ writer.list \in Listings
        /\ Len(writer.list) \in 0..MaxChunks
        /\ writer.index = Len(writer.list)
    BY ListingIsSeq DEF IInv, TypeOK, WriterState, LoopBounds, PutCount
  <2>2. \A j \in 0..(i - 1) : /\ j \in Index
                              /\ j + 1 \in 1..Len(writer.list)
                              /\ items[j] = writer.list[j + 1]
    <3>1. \A j \in 0..(i - 1) : /\ j \in Index /\ j < writer.index
                                /\ j + 1 \in 1..Len(writer.list)
      BY <2>1, TableAssumption DEF Index
    <3> QED BY <3>1 DEF IInv, PutSoFar, PutCount
  <2>3. \A j \in 0..(i - 1) : items[j] # NoItem
    BY <2>1, <2>2, ChunkOf, TableAssumption
  <2>4. i - 1 \in 0..(i - 1) /\ (i - 1) + 1 = i
    BY <2>1
  <2> QED BY <2>2, <2>3, <2>4 DEF Visible
<1> QED BY <1>1, Invariance, PTL DEF Spec, NothingLost

-----------------------------------------------------------------------------
(***************************************************************************)
(* Why the table has one writer.                                           *)
(*                                                                         *)
(* MutualExclusion is inductive once the types are known: only             *)
(* ListExecutions makes a worker, and Working \subseteq Running lets it    *)
(* find any worker there is.  WorkingStep says so for a step of any actor, *)
(* and both exclusion and the refinement follow from it.                   *)
(***************************************************************************)
LEMMA LockInitTypeOK == LockInit => LockTypeOK
  BY DEF LockInit, LockTypeOK, RunningStates

\* One step of any actor keeps every variable in its type.
LEMMA LockNextTypeOK == LockTypeOK /\ [LockNext]_lockVars => LockTypeOK'
  <1> SUFFICES ASSUME LockTypeOK, [LockNext]_lockVars PROVE LockTypeOK'
    OBVIOUS
  <1> USE DEF LockTypeOK, RunningStates, Running, Working
  <1>1. ASSUME NEW x \in Executions, ExecutionStep(x) PROVE LockTypeOK'
    BY <1>1 DEF ExecutionStep, StartExecution, Start, ListExecutions,
                StopsItself, Ends, OperatorStops
  <1>2. ASSUME NEW m \in Movers, MoverStep(m) PROVE LockTypeOK'
    BY <1>2 DEF MoverStep, MoveSleeps, MoveLists, MoveStarts, Start
  <1>3. CASE UNCHANGED lockVars
    BY <1>3 DEF lockVars
  <1> QED
    BY <1>1, <1>2, <1>3 DEF LockNext

\* Each variable keeps its type in every behaviour.
THEOREM LockTypeCorrect == LockSpec => []LockTypeOK
  <1> QED
    BY LockInitTypeOK, LockNextTypeOK, PTL DEF LockSpec

-----------------------------------------------------------------------------
\* What a step does to the set of working executions.
LEMMA WorkingStep ==
    ASSUME LockTypeOK, MutualExclusion, [LockNext]_lockVars
    PROVE  \/ Working' = Working
           \/ Working = {} /\ \E x \in Executions : Working' = {x}
           \/ \E x \in Working : Working' = Working \ {x}
  <1> USE DEF LockTypeOK, RunningStates, Running, Working
  <1>1. ASSUME NEW x \in Executions, Start(x) PROVE Working' = Working
    BY <1>1 DEF Start
  <1>2. ASSUME NEW x \in Executions, ListExecutions(x)
        PROVE  Working' = Working \/ (Working = {} /\ Working' = {x})
    <2>1. CASE Running \ {x} = {}
      <3>1. Working = {}
        BY <1>2, <2>1 DEF ListExecutions
      <3>2. exec' = [exec EXCEPT ![x] = "working"]
        BY <1>2, <2>1 DEF ListExecutions
      <3>3. Working' = {x}
        BY <3>1, <3>2
      <3> QED
        BY <3>1, <3>3
    <2>2. CASE Running \ {x} # {}
      BY <1>2, <2>2 DEF ListExecutions
    <2> QED
      BY <2>1, <2>2
  <1>3. ASSUME NEW x \in Executions, StopsItself(x) PROVE Working' = Working
    BY <1>3 DEF StopsItself
  <1>4. ASSUME NEW x \in Executions, Ends(x) \/ OperatorStops(x)
        PROVE  \/ Working' = Working
               \/ x \in Working /\ Working' = Working \ {x}
    BY <1>4 DEF Ends, OperatorStops
  <1>5. ASSUME NEW m \in Movers, MoverStep(m) PROVE Working' = Working
    BY <1>5, <1>1 DEF MoverStep, MoveSleeps, MoveLists, MoveStarts
  <1>6. CASE UNCHANGED lockVars
    BY <1>6 DEF lockVars
  <1>7. ASSUME NEW x \in Executions, ExecutionStep(x)
        PROVE  \/ Working' = Working
               \/ Working = {} /\ Working' = {x}
               \/ x \in Working /\ Working' = Working \ {x}
    BY <1>1, <1>2, <1>3, <1>4, <1>7 DEF ExecutionStep, StartExecution
  <1> QED
    BY <1>5, <1>6, <1>7 DEF LockNext

LEMMA LockInitExclusion == LockInit => MutualExclusion
  BY DEF LockInit, MutualExclusion, Working

LEMMA LockNextExclusion ==
    LockTypeOK /\ MutualExclusion /\ [LockNext]_lockVars => MutualExclusion'
  BY WorkingStep DEF MutualExclusion

\* At most one execution works, however many are started and by whom.
THEOREM OneWorks == LockSpec => []MutualExclusion
  <1> QED
    BY LockInitTypeOK, LockNextTypeOK, LockInitExclusion, LockNextExclusion, PTL DEF LockSpec

\* Every behaviour of Executions is one of SingleExecution: a listing that finds
\* nothing is Acquire, an end or a stop of the worker is Release, and all other
\* steps leave the abstract state alone.
THEOREM LockRefines == LockSpec => ImplementsSingleExecution
  <1>1. LockInit => Abstract!Init
    BY DEF LockInit, Abstract!Init, Working
  <1>2. LockTypeOK /\ MutualExclusion /\ [LockNext]_lockVars
          => [Abstract!Next]_Working
    <2> SUFFICES ASSUME LockTypeOK, MutualExclusion, [LockNext]_lockVars
                 PROVE  [Abstract!Next]_Working
      OBVIOUS
    <2>1. \A x \in Working : x \in Executions
      BY DEF Working
    <2> QED
      BY WorkingStep, <2>1 DEF Abstract!Next, Abstract!Acquire, Abstract!Release
  <1> QED
    BY <1>1, <1>2, LockInitTypeOK, LockNextTypeOK, LockInitExclusion, LockNextExclusion, PTL
       DEF LockSpec, ImplementsSingleExecution, Abstract!Spec

=============================================================================
