---------------------------- MODULE AccountsTable ----------------------------
(***************************************************************************)
(* The accounts listing in the DynamoDB parameters table.                  *)
(*                                                                         *)
(* The Load Accounts step of the main state machine replaces the listing   *)
(* item by item: it reads the item `accounts-items-count`, deletes         *)
(* `accounts/0` .. `accounts/count-1`, puts one item per chunk of at most  *)
(* 100 accounts and, last, puts the new count.  DynamoDB makes each of     *)
(* these calls atomic and nothing more.  A Lambda timeout, a DynamoDB      *)
(* error or an operator who stops the execution cuts the step anywhere.    *)
(*                                                                         *)
(* Readers (later steps, and the event Lambdas, which run whenever an      *)
(* event arrives) fetch `accounts/0`, `accounts/1`, ... until one is       *)
(* missing.  They never look at the count.                                 *)
(***************************************************************************)
EXTENDS Integers, Sequences

CONSTANTS
    Chunks,         \* the values an item can hold: serialized account chunks
    NoItem,         \* the result of getItem for a key that is absent
    MaxChunks,      \* bound: chunks in one listing
    MaxInterrupts   \* bound: rewrites that are cut short

ASSUME TableAssumption ==
    /\ MaxChunks \in Nat
    /\ MaxInterrupts \in Nat
    /\ NoItem \notin Chunks

VARIABLES
    items,      \* accounts/0 .. accounts/MaxChunks-1
    count,      \* accounts-items-count; an absent item is read as 0
    writer,     \* the running Load Accounts step
    reader,     \* one call of loadAccounts
    stored,     \* history: the listing of the last rewrite that ran to its end
    interrupts  \* history: the number of rewrites cut short

vars == <<items, count, writer, reader, stored, interrupts>>

Index == 0 .. MaxChunks - 1

\* A listing is the sequence of its chunks.
Listings == UNION {[1..n -> Chunks] : n \in 0..MaxChunks}

WriterState ==
    [pc         : {"idle", "delete", "put", "count"},
     list       : Listings,         \* accountsChunk
     index      : 0..MaxChunks,
     itemsCount : 0..MaxChunks]

ReaderState ==
    [pc      : {"idle", "get"},
     index   : 0..MaxChunks,
     result  : Listings,            \* the accounts pushed so far
     overlap : BOOLEAN]             \* history: a rewrite ran during the call

TypeOK ==
    /\ items \in [Index -> Chunks \cup {NoItem}]
    /\ count \in 0..MaxChunks
    /\ writer \in WriterState
    /\ reader \in ReaderState
    /\ stored \in Listings
    /\ interrupts \in 0..MaxInterrupts

Init ==
    /\ items = [i \in Index |-> NoItem]
    /\ count = 0
    /\ writer = [pc |-> "idle", list |-> <<>>, index |-> 0, itemsCount |-> 0]
    /\ reader = [pc |-> "idle", index |-> 0, result |-> <<>>, overlap |-> FALSE]
    /\ stored = <<>>
    /\ interrupts = 0

-----------------------------------------------------------------------------
(* The Load Accounts step *)

\* The listing is computed and the old count is read.  The mandatory accounts
\* are always part of it, so it has at least one chunk.
BeginRewrite ==
    /\ writer.pc = "idle"
    /\ \E list \in Listings \ {<<>>} :
         writer' = [pc |-> "delete", list |-> list, index |-> 0,
                    itemsCount |-> count]
    /\ reader' = [reader EXCEPT !.overlap = TRUE]
    /\ UNCHANGED <<items, count, stored, interrupts>>

\* Mutant: the loop runs to the count inclusive.
DeleteItemPastCount ==
    /\ writer.pc = "delete"
    /\ writer.index <= writer.itemsCount
    /\ items' = [items EXCEPT ![writer.index] = NoItem]
    /\ writer' = [writer EXCEPT !.index = @ + 1]
    /\ UNCHANGED <<count, reader, stored, interrupts>>

DeleteItem ==
    /\ writer.pc = "delete"
    /\ writer.index < writer.itemsCount
    /\ items' = [items EXCEPT ![writer.index] = NoItem]
    /\ writer' = [writer EXCEPT !.index = @ + 1]
    /\ UNCHANGED <<count, reader, stored, interrupts>>

\* Mutant: the loop ends one item early.
DeletesDoneEarly ==
    /\ writer.pc = "delete"
    /\ writer.index + 1 >= writer.itemsCount
    /\ writer' = [writer EXCEPT !.pc = "put", !.index = 0]
    /\ UNCHANGED <<items, count, reader, stored, interrupts>>

DeletesDone ==
    /\ writer.pc = "delete"
    /\ writer.index = writer.itemsCount
    /\ writer' = [writer EXCEPT !.pc = "put", !.index = 0]
    /\ UNCHANGED <<items, count, reader, stored, interrupts>>

PutItem ==
    /\ writer.pc = "put"
    /\ writer.index < Len(writer.list)
    /\ items' = [items EXCEPT ![writer.index] = writer.list[writer.index + 1]]
    /\ writer' = [writer EXCEPT !.index = @ + 1]
    /\ UNCHANGED <<count, reader, stored, interrupts>>

\* Mutant: the last chunk is not put.
PutsDoneEarly ==
    /\ writer.pc = "put"
    /\ writer.index + 1 = Len(writer.list)
    /\ writer' = [writer EXCEPT !.pc = "count"]
    /\ UNCHANGED <<items, count, reader, stored, interrupts>>

PutsDone ==
    /\ writer.pc = "put"
    /\ writer.index = Len(writer.list)
    /\ writer' = [writer EXCEPT !.pc = "count"]
    /\ UNCHANGED <<items, count, reader, stored, interrupts>>

PutCount ==
    /\ writer.pc = "count"
    /\ count' = Len(writer.list)
    /\ stored' = writer.list
    /\ writer' = [writer EXCEPT !.pc = "idle"]
    /\ UNCHANGED <<items, reader, interrupts>>

\* The step ends between two of its calls; what it wrote stays.
Interrupt ==
    /\ writer.pc # "idle"
    /\ interrupts < MaxInterrupts
    /\ interrupts' = interrupts + 1
    /\ writer' = [writer EXCEPT !.pc = "idle"]
    /\ UNCHANGED <<items, count, reader, stored>>

-----------------------------------------------------------------------------
(* loadAccounts *)

BeginRead ==
    /\ reader.pc = "idle"
    /\ reader' = [pc |-> "get", index |-> 0, result |-> <<>>,
                  overlap |-> writer.pc # "idle"]
    /\ UNCHANGED <<items, count, writer, stored, interrupts>>

\* getItem of a key beyond the bound finds nothing, like any absent key.
ItemAt(i) == IF i \in Index THEN items[i] ELSE NoItem

\* Mutant: each chunk replaces the result instead of extending it.
GetItemReplacing ==
    /\ reader.pc = "get"
    /\ ItemAt(reader.index) # NoItem
    /\ reader' = [reader EXCEPT !.result = <<items[reader.index]>>,
                                !.index = @ + 1]
    /\ UNCHANGED <<items, count, writer, stored, interrupts>>

GetItem ==
    /\ reader.pc = "get"
    /\ ItemAt(reader.index) # NoItem
    /\ reader' = [reader EXCEPT !.result = Append(@, items[reader.index]),
                                !.index = @ + 1]
    /\ UNCHANGED <<items, count, writer, stored, interrupts>>

\* Mutant: the reader trusts the count and waits for a missing item.
GetNothingTrustingCount ==
    /\ reader.pc = "get"
    /\ ItemAt(reader.index) = NoItem
    /\ reader.index >= count
    /\ reader' = [reader EXCEPT !.pc = "idle"]
    /\ UNCHANGED <<items, count, writer, stored, interrupts>>

GetNothing ==
    /\ reader.pc = "get"
    /\ ItemAt(reader.index) = NoItem
    /\ reader' = [reader EXCEPT !.pc = "idle"]
    /\ UNCHANGED <<items, count, writer, stored, interrupts>>

-----------------------------------------------------------------------------
Rewrite == BeginRewrite \/ DeleteItem \/ DeletesDone \/ PutItem \/ PutsDone \/ PutCount
Read == BeginRead \/ GetItem \/ GetNothing

Next == Rewrite \/ Interrupt \/ Read

\* A started step goes on to its next call, and so does a started read.
Fairness ==
    /\ WF_vars(DeleteItem \/ DeletesDone \/ PutItem \/ PutsDone \/ PutCount)
    /\ WF_vars(GetItem \/ GetNothing)

Spec == Init /\ [][Next]_vars
FairSpec == Spec /\ Fairness

-----------------------------------------------------------------------------
(* Properties *)

\* What a reader that starts now and runs alone collects has these indices.
Visible(i) == i \in Index /\ \A j \in 0..i : items[j] # NoItem

\* Between rewrites, and as long as none was ever cut short, the items are
\* exactly the chunks of the last listing, and the count is their number: the
\* delete loop leaves no chunk of a longer, older listing behind.
HoldsLastListing ==
    writer.pc = "idle" /\ interrupts = 0 =>
        /\ count = Len(stored)
        /\ \A i \in Index :
             items[i] = IF i < Len(stored) THEN stored[i + 1] ELSE NoItem

\* A read during which no rewrite ran returns the last listing, in order.
ReadsLastListing ==
    [][GetNothing /\ ~reader.overlap /\ interrupts = 0
         => reader.result = stored]_vars

\* When the step ends without being cut short, every chunk of its listing is
\* there to be read, whatever earlier, interrupted rewrites left in the table.
NothingLost ==
    [][PutCount => \A i \in 1..Len(writer.list) :
                      Visible(i - 1) /\ items[i - 1] = writer.list[i]]_vars

\* A step that ends leaves exactly its listing to be read.
RewriteIsExact ==
    [][PutCount => \A i \in Index : Visible(i) <=> i < Len(writer.list)]_vars

\* A read ends although rewrites go on around it.
ReadEnds == reader.pc = "get" ~> reader.pc = "idle"

=============================================================================
