---------------------------- MODULE ConfigRepoProofs ----------------------------
(***************************************************************************)
(* Proofs about ConfigRepo, for all accounts, edits and bounds: type       *)
(* correctness, that merging takes the sources from one commit, that no    *)
(* writer drops what others committed when the accounts are kept in a      *)
(* loaded file, and that renames reach the sources when they are kept in   *)
(* the root file.                                                          *)
(***************************************************************************)
EXTENDS ConfigRepo, TLAPS

(***************************************************************************)
(* What the entries say of the file they are in.  An entry of the root     *)
(* file names the root file, and one that names a loaded file is in it, so *)
(* that renaming in a loaded file always finds the entry.                  *)
(***************************************************************************)

RootOnly(content) ==
    \A a \in Accounts : content.accts[a] # Absent => content.accts[a].src = "root"

Well(f) ==
    /\ f \in Files
    /\ RootOnly(f.root)
    /\ \A a \in Accounts :
         f.raw.accts[a] # Absent /\ f.raw.accts[a].src = "split" => f.split.accts[a] # Absent

Wellformed ==
    /\ Well(files)
    /\ RootOnly(sm.read.root)
    /\ sm.pc \in {"list", "update"} => Well(sm.read)
    /\ \A a \in Accounts : RootOnly(mover[a].read.root)

TypeInv == TypeOK /\ Wellformed

-----------------------------------------------------------------------------
(* Lemmas on the operators. *)

\* Absent is no entry.
LEMMA AbsentIsNoEntry == Absent \notin Entry
BY RepoAssumption DEF Entry, Names

\* Merging two files gives a file.
LEMMA MergeType ==
    ASSUME NEW r \in Content, NEW s \in Content
    PROVE  /\ Merge(r, s) \in Content
           /\ \A a \in Accounts :
                Merge(r, s).accts[a] =
                  IF s.accts[a] # Absent THEN s.accts[a] ELSE r.accts[a]
BY DEF Merge, Content, Listing

\* Writing back what was read, merged, keeps the entries where they belong.
LEMMA MergedIsWell ==
    ASSUME NEW r \in Files, RootOnly(r.root)
    PROVE  /\ Well(Merged(r))
           /\ Merged(r).root = r.root /\ Merged(r).split = r.split
           /\ Merged(r).raw = Merge(r.root, r.split)
<1>1. r.root \in Content /\ r.split \in Content
  BY DEF Files
<1>2. Merge(r.root, r.split) \in Content
  BY <1>1, MergeType
<1>3. /\ Merged(r) \in Files
      /\ Merged(r).root = r.root /\ Merged(r).split = r.split
      /\ Merged(r).raw = Merge(r.root, r.split)
  BY <1>2 DEF Merged, Files
<1>4. \A a \in Accounts :
        Merged(r).raw.accts[a] # Absent /\ Merged(r).raw.accts[a].src = "split"
          => Merged(r).split.accts[a] # Absent
  BY <1>1, <1>3, MergeType DEF RootOnly
<1> QED
  BY <1>3, <1>4 DEF Well

\* Renaming entries that are there changes their names only.
LEMMA RenameType ==
    ASSUME NEW c \in Content, NEW as \in SUBSET Accounts,
           sm.names \in [Accounts -> Names],
           \A a \in as : c.accts[a] # Absent
    PROVE  /\ Rename(c, as) \in Content
           /\ Rename(c, as).edits = c.edits
           /\ \A a \in Accounts :
                /\ Rename(c, as).accts[a] # Absent <=> c.accts[a] # Absent
                /\ c.accts[a] # Absent => Rename(c, as).accts[a].src = c.accts[a].src
<1> DEFINE accts == [a \in Accounts |->
              IF a \in as THEN [name |-> sm.names[a], src |-> c.accts[a].src] ELSE c.accts[a]]
<1>1. c.accts \in Listing /\ c.edits \in SUBSET Edits
  BY DEF Content
<1>2. Rename(c, as) = [c EXCEPT !.accts = accts]
  BY Zenon DEF Rename
<1>3. ASSUME NEW a \in as
      PROVE  /\ c.accts[a] \in Entry
             /\ [name |-> sm.names[a], src |-> c.accts[a].src] \in Entry
  <2>1. c.accts[a] \in Entry
    BY <1>1 DEF Listing
  <2>2. sm.names[a] \in Names
    OBVIOUS
  <2> QED
    BY <2>1, <2>2 DEF Entry
<1>4. \A a \in Accounts :
        /\ accts[a] \in Entry \cup {Absent}
        /\ accts[a] # Absent <=> c.accts[a] # Absent
        /\ c.accts[a] # Absent => accts[a].src = c.accts[a].src
  BY <1>1, <1>3, AbsentIsNoEntry DEF Listing
<1>5. accts \in Listing
  BY <1>4 DEF Listing
<1> HIDE DEF accts
<1> QED
  BY <1>1, <1>2, <1>4, <1>5 DEF Content

-----------------------------------------------------------------------------
(* Type correctness. *)

\* The initial contents are files.
LEMMA InitialTypes ==
    /\ NoContent \in Content /\ InitialContent \in Content /\ NoFiles \in Files
    /\ \A a \in Accounts : NoContent.accts[a] = Absent
    /\ \A a \in Accounts : InitialContent.accts[a] \in {Absent, [name |-> 0, src |-> Layout]}
    /\ Idle \in ExecutionState /\ NotMoving \in MoverState
<1>1. [name |-> 0, src |-> Layout] \in Entry /\ 0 \in Names /\ 0 \in 0..MaxCommits
  BY RepoAssumption DEF Entry, Names
<1>2. /\ NoContent \in Content /\ InitialContent \in Content
      /\ \A a \in Accounts : NoContent.accts[a] = Absent
      /\ \A a \in Accounts : InitialContent.accts[a] \in {Absent, [name |-> 0, src |-> Layout]}
  BY <1>1 DEF NoContent, InitialContent, Content, Listing
<1>3. NoFiles \in Files
  BY <1>2 DEF NoFiles, Files
<1>4. [a \in Accounts |-> 0] \in [Accounts -> Names]
  BY <1>1
<1> QED
  BY <1>1, <1>2, <1>3, <1>4 DEF Idle, NotMoving, ExecutionState, MoverState

\* The program starts in a state of the right type.
LEMMA TypeInit == Init => TypeInv
<1> SUFFICES ASSUME Init PROVE TypeInv
  OBVIOUS
<1> USE RepoAssumption
<1>1. /\ files.root \in Content /\ files.split \in Content /\ files.raw \in Content
      /\ files \in Files
  BY InitialTypes DEF Init, Files
<1>2. TypeOK
  <2>1. head \in 0..MaxCommits /\ name \in [Accounts -> Names]
        /\ table \in [Accounts -> Names \cup {Absent}] /\ acked \subseteq Edits
        /\ added \subseteq Accounts
    BY DEF Init, Names
  <2>2. sm \in ExecutionState /\ mover \in [Accounts -> MoverState]
    BY InitialTypes DEF Init
  <2> QED
    BY <1>1, <2>1, <2>2 DEF TypeOK
<1>3. RootOnly(NoContent)
  BY InitialTypes DEF RootOnly
<1>4. RootOnly(files.root)
  BY <1>3, InitialTypes DEF Init, RootOnly
<1>5. ASSUME NEW a \in Accounts,
             files.raw.accts[a] # Absent, files.raw.accts[a].src = "split"
      PROVE  files.split.accts[a] # Absent
  <2>1. files.raw = InitialContent /\ (Layout = "split" => files.split = InitialContent)
    BY DEF Init
  <2>2. InitialContent.accts[a] = [name |-> 0, src |-> Layout]
    BY <1>5, <2>1, InitialTypes
  <2>3. Layout = "split"
    BY <1>5, <2>1, <2>2
  <2> QED
    BY <1>5, <2>1, <2>3
<1>6. sm.pc = "idle" /\ sm.read.root = NoContent
      /\ \A a \in Accounts : mover[a].read.root = NoContent
  BY DEF Init, Idle, NotMoving, NoFiles
<1> QED
  BY <1>1, <1>2, <1>3, <1>4, <1>5, <1>6 DEF TypeInv, Wellformed, Well

\* The steps of an execution keep the types.
LEMMA ExecutionTypes == TypeInv /\ ExecutionStep => TypeInv'
<1> SUFFICES ASSUME TypeInv, ExecutionStep PROVE TypeInv'
  OBVIOUS
<1> USE RepoAssumption
<1>t. /\ files \in Files /\ sm \in ExecutionState /\ sm.read \in Files
      /\ head \in 0..MaxCommits /\ sm.parent \in 0..MaxCommits
      /\ sm.names \in [Accounts -> Names] /\ name \in [Accounts -> Names]
  BY DEF TypeInv, TypeOK, ExecutionState
<1>i. ASSUME sm' = Idle PROVE sm' \in ExecutionState /\ RootOnly(sm'.read.root) /\ sm'.pc = "idle"
  BY <1>i, InitialTypes DEF Idle, NoFiles, RootOnly
\* Steps that leave the repository and the other actors alone.
<1>l. ASSUME UNCHANGED <<files, head, mover, acked, added, name>>,
             table' \in [Accounts -> Names \cup {Absent}],
             sm' \in ExecutionState, RootOnly(sm'.read.root),
             sm'.pc \in {"list", "update"} => Well(sm'.read)
      PROVE  TypeInv'
  BY <1>l DEF TypeInv, TypeOK, Wellformed, Well, RootOnly
\* Steps that commit.
<1>c. ASSUME NEW p, NEW new, Well(new), Commit(p, new),
             UNCHANGED <<name, table, mover, acked, added>>,
             sm' \in ExecutionState, RootOnly(sm'.read.root),
             sm'.pc \in {"list", "update"} => Well(sm'.read)
      PROVE  TypeInv'
  <2>1. head' \in 0..MaxCommits /\ files' = new
    BY <1>c, <1>t DEF Commit
  <2> QED
    BY <1>c, <2>1 DEF TypeInv, TypeOK, Wellformed, Well, RootOnly
<1>1. CASE Begin
  BY <1>1, <1>l, <1>t DEF Begin, TypeInv, TypeOK, Wellformed, ExecutionState
<1>2. CASE ReadRoot
  <2>1. files.root \in Content /\ RootOnly(files.root)
    BY <1>t DEF Files, TypeInv, Wellformed, Well
  <2>2. sm' = [sm EXCEPT !.pc = "readSplit", !.read = [sm.read EXCEPT !.root = files.root]]
    BY <1>2, <1>t DEF ReadRoot, ExecutionState, Files
  <2>3. [sm.read EXCEPT !.root = files.root] \in Files
        /\ [sm.read EXCEPT !.root = files.root].root = files.root
    BY <1>t, <2>1 DEF Files
  <2>4. sm' \in ExecutionState /\ sm'.read.root = files.root /\ sm'.pc = "readSplit"
    BY <1>t, <2>2, <2>3 DEF ExecutionState
  <2> QED
    BY <1>2, <1>l, <2>1, <2>4 DEF ReadRoot, TypeInv, TypeOK, RootOnly
<1>3. CASE ReadSplit
  <2>1. files.split \in Content
    BY <1>t DEF Files
  <2>2. sm' = [sm EXCEPT !.pc = "commit", !.read = [sm.read EXCEPT !.split = files.split]]
    BY <1>3, <1>t DEF ReadSplit, ExecutionState, Files
  <2>3. [sm.read EXCEPT !.split = files.split] \in Files
        /\ [sm.read EXCEPT !.split = files.split].root = sm.read.root
    BY <1>t, <2>1 DEF Files
  <2>4. sm' \in ExecutionState /\ sm'.read.root = sm.read.root /\ sm'.pc = "commit"
    BY <1>t, <2>2, <2>3 DEF ExecutionState
  <2> QED
    BY <1>3, <1>l, <2>4 DEF ReadSplit, TypeInv, TypeOK, Wellformed, RootOnly
<1>4. CASE CommitConfig
  <2>1. Well(Merged(sm.read))
    BY <1>t, MergedIsWell DEF TypeInv, Wellformed
  <2>2. files' = Merged(sm.read) /\ head' \in 0..MaxCommits
    BY <1>4, <1>t DEF CommitConfig, Commit
  <2>3. sm' \in ExecutionState /\ sm'.read = Merged(sm.read)
    BY <1>4, <1>t, <2>1, <2>2 DEF CommitConfig, ExecutionState, Well
  <2> QED
    BY <1>4, <1>c, <2>1, <2>3 DEF CommitConfig, Well
<1>5. CASE ListAccounts
  <2>1. sm' \in ExecutionState /\ sm'.read = sm.read /\ sm.pc = "list"
    BY <1>5, <1>t DEF ListAccounts, ExecutionState
  <2>2. Well(sm.read)
    BY <2>1 DEF TypeInv, Wellformed
  <2> QED
    BY <1>5, <1>l, <2>1, <2>2 DEF ListAccounts, TypeInv, TypeOK, Well
<1>6. CASE UpdateConfig
  <2> DEFINE root == Rename(sm.read.root, RenamedIn("root"))
  <2> DEFINE raw == Rename(sm.read.raw, Renamed)
  <2> DEFINE split == Rename(sm.read.split, RenamedIn("split"))
  <2>1. Well(sm.read) /\ Misplaced = {}
    BY <1>6 DEF UpdateConfig, TypeInv, Wellformed
  <2>2. /\ sm.read.root \in Content /\ sm.read.split \in Content /\ sm.read.raw \in Content
    BY <1>t DEF Files
  <2>3. /\ \A a \in RenamedIn("root") : sm.read.root.accts[a] # Absent
        /\ \A a \in RenamedIn("split") : sm.read.split.accts[a] # Absent
        /\ \A a \in Renamed : sm.read.raw.accts[a] # Absent
        /\ RenamedIn("root") \in SUBSET Accounts /\ RenamedIn("split") \in SUBSET Accounts
        /\ Renamed \in SUBSET Accounts
    BY <2>1 DEF Misplaced, RenamedIn, Renamed, Well
  <2>4. /\ root \in Content /\ RootOnly(root)
    BY <1>t, <2>1, <2>2, <2>3, RenameType DEF Well, RootOnly
  <2>5. /\ split \in Content
        /\ \A a \in Accounts : split.accts[a] # Absent <=> sm.read.split.accts[a] # Absent
    BY <1>t, <2>2, <2>3, RenameType
  <2>6. /\ raw \in Content
        /\ \A a \in Accounts :
             raw.accts[a] # Absent /\ raw.accts[a].src = "split" => sm.read.split.accts[a] # Absent
    BY <1>t, <2>1, <2>2, <2>3, RenameType DEF Well
  <2> HIDE DEF root, raw, split
  <2>7. PICK late \in BOOLEAN :
          Commit(sm.parent, [root  |-> root,
                             split |-> IF late THEN sm.read.split ELSE split,
                             raw   |-> raw])
    BY <1>6 DEF UpdateConfig, root, raw, split
  <2> DEFINE new == [root |-> root, split |-> IF late THEN sm.read.split ELSE split, raw |-> raw]
  <2>8. Well(new)
    BY <2>2, <2>4, <2>5, <2>6 DEF Well, Files
  <2>9. files' = new /\ head' \in 0..MaxCommits /\ Commit(sm.parent, new)
    BY <2>7, <1>t DEF Commit
  <2> HIDE DEF new
  <2>10. [a \in Accounts |-> 0] \in [Accounts -> Names]
    BY DEF Names
  <2>11. sm' \in ExecutionState /\ sm'.read = new /\ sm'.pc = "loadOrg"
    BY <1>6, <1>t, <2>8, <2>9, <2>10 DEF UpdateConfig, ExecutionState, Well
  <2> QED
    BY <1>6, <1>c, <2>8, <2>9, <2>11 DEF UpdateConfig, Well
<1>7. CASE UpdateCrashes
  <2>1. Well(sm.read) /\ sm' = Idle
    BY <1>7 DEF UpdateCrashes, TypeInv, Wellformed
  <2>2. CASE UNCHANGED <<files, head>>
    BY <1>7, <1>i, <1>l, <2>1, <2>2 DEF UpdateCrashes, TypeInv, TypeOK
  <2>3. ASSUME NEW done \in SUBSET (RenamedIn("root") \ Misplaced),
               Commit(sm.parent, [sm.read EXCEPT !.root = Rename(@, done),
                                                 !.raw = Rename(@, Renamed)])
        PROVE  TypeInv'
    <3> DEFINE root == Rename(sm.read.root, done)
    <3> DEFINE raw == Rename(sm.read.raw, Renamed)
    <3>1. /\ sm.read.root \in Content /\ sm.read.split \in Content /\ sm.read.raw \in Content
      BY <1>t DEF Files
    <3>2. /\ \A a \in done : sm.read.root.accts[a] # Absent
          /\ \A a \in Renamed : sm.read.raw.accts[a] # Absent
          /\ done \in SUBSET Accounts /\ Renamed \in SUBSET Accounts
      BY <2>3 DEF Misplaced, RenamedIn, Renamed
    <3>3. /\ root \in Content /\ RootOnly(root)
      BY <1>t, <2>1, <3>1, <3>2, RenameType DEF Well, RootOnly
    <3>4. /\ raw \in Content
          /\ \A a \in Accounts :
             raw.accts[a] # Absent /\ raw.accts[a].src = "split" => sm.read.split.accts[a] # Absent
      BY <1>t, <2>1, <3>1, <3>2, RenameType DEF Well
    <3>5. Commit(sm.parent, [sm.read EXCEPT !.root = root, !.raw = raw])
      BY <2>3
    <3> HIDE DEF root, raw
    <3> DEFINE new == [sm.read EXCEPT !.root = root, !.raw = raw]
    <3>6. Well(new)
      BY <1>t, <3>1, <3>3, <3>4 DEF Well, Files
    <3> QED
      BY <1>7, <1>c, <1>i, <2>1, <3>5, <3>6 DEF UpdateCrashes
  <2> QED
    BY <1>7, <2>2, <2>3 DEF UpdateCrashes
<1>8. CASE CommitRefused
  BY <1>8, <1>i, <1>l DEF CommitRefused, TypeInv, TypeOK
<1>9. CASE LoadOrganizationConfiguration
  <2>1. sm' \in ExecutionState /\ sm'.read = sm.read /\ sm'.pc = "loadAccounts"
    BY <1>9, <1>t DEF LoadOrganizationConfiguration, ExecutionState
  <2> QED
    BY <1>9, <1>l, <2>1 DEF LoadOrganizationConfiguration, TypeInv, TypeOK, Wellformed
<1>10. CASE LoadAccounts
  <2>1. table' \in [Accounts -> Names \cup {Absent}]
    BY <1>10, <1>t DEF LoadAccounts
  <2> QED
    BY <1>10, <1>i, <1>l, <2>1 DEF LoadAccounts
<1>11. CASE ExecutionFails
  BY <1>11, <1>i, <1>l DEF ExecutionFails, TypeInv, TypeOK
<1> QED
  BY <1>1, <1>2, <1>3, <1>4, <1>5, <1>6, <1>7, <1>8, <1>9, <1>10, <1>11 DEF ExecutionStep

\* The steps of the MoveAccount Lambda keep the types.
LEMMA MoverTypes ==
    ASSUME TypeInv, NEW a \in Accounts, UserMovesAccount(a) \/ MoveStep(a)
    PROVE  TypeInv'
<1> USE RepoAssumption
<1>t. /\ files \in Files /\ mover \in [Accounts -> MoverState] /\ mover[a] \in MoverState
      /\ mover[a].read \in Files /\ mover[a].parent \in 0..MaxCommits
      /\ mover[a].name \in Names /\ head \in 0..MaxCommits /\ name \in [Accounts -> Names]
      /\ files.root \in Content /\ files.split \in Content /\ files.raw \in Content
      /\ RootOnly(files.root) /\ RootOnly(mover[a].read.root)
  BY DEF TypeInv, TypeOK, Wellformed, Well, MoverState, Files
<1>n. NotMoving \in MoverState /\ RootOnly(NotMoving.read.root) /\ RootOnly(NoFiles.root)
  BY InitialTypes DEF NotMoving, NoFiles, RootOnly
\* Steps that only read.
<1>l. ASSUME NEW m \in MoverState, mover' = [mover EXCEPT ![a] = m], RootOnly(m.read.root),
             UNCHANGED <<files, head, name, table, sm, acked, added>>
      PROVE  TypeInv'
  BY <1>l, <1>t DEF TypeInv, TypeOK, Wellformed, Well, RootOnly
\* Steps that commit.
<1>c. ASSUME NEW m \in MoverState, mover' = [mover EXCEPT ![a] = m], RootOnly(m.read.root),
             Well(files'), head' \in 0..MaxCommits, added' \subseteq Accounts,
             UNCHANGED <<name, table, sm, acked>>
      PROVE  TypeInv'
  BY <1>c, <1>t DEF TypeInv, TypeOK, Wellformed, Well, RootOnly
<1>1. CASE UserMovesAccount(a)
  <2> DEFINE m == [mover[a] EXCEPT !.pc = "readRoot", !.name = name[a]]
  <2>1. m \in MoverState /\ m.read.root = mover[a].read.root
    BY <1>t DEF MoverState
  <2>2. mover' = [mover EXCEPT ![a] = m]
    BY <1>1 DEF UserMovesAccount
  <2> HIDE DEF m
  <2> QED
    BY <1>1, <1>l, <1>t, <2>1, <2>2 DEF UserMovesAccount
<1>2. CASE MoveReadsRoot(a)
  <2> DEFINE r == [mover[a].read EXCEPT !.root = files.root]
  <2> DEFINE m == [mover[a] EXCEPT !.pc = "readRaw", !.read = r]
  <2>1. r \in Files /\ r.root = files.root
    BY <1>t DEF Files
  <2>2. mover' = [mover EXCEPT ![a] = m]
    BY <1>2 DEF MoveReadsRoot
  <2> HIDE DEF r
  <2>3. m \in MoverState /\ m.read.root = files.root
    BY <1>t, <2>1 DEF MoverState
  <2> HIDE DEF m
  <2> QED
    BY <1>2, <1>l, <1>t, <2>2, <2>3 DEF MoveReadsRoot
<1>3. CASE MoveReadsRaw(a)
  <2> DEFINE r == [mover[a].read EXCEPT !.raw = files.raw]
  <2> DEFINE m == [mover[a] EXCEPT !.pc = "commit", !.parent = head, !.read = r]
  <2>1. r \in Files /\ r.root = mover[a].read.root
    BY <1>t DEF Files
  <2>2. mover' = [mover EXCEPT ![a] = m]
    BY <1>3 DEF MoveReadsRaw
  <2> HIDE DEF r
  <2>3. m \in MoverState /\ m.read.root = mover[a].read.root
    BY <1>t, <2>1 DEF MoverState
  <2> HIDE DEF m
  <2> QED
    BY <1>3, <1>l, <1>t, <2>2, <2>3 DEF MoveReadsRaw
<1>4. CASE MoveCommits(a)
  <2> DEFINE new == [TargetContent(a) EXCEPT !.accts = [@ EXCEPT ![a] = NewEntry(a)]]
  <2>1. TargetContent(a) \in Content
    BY <1>t DEF TargetContent, Files
  <2>2. TargetFile(a) \in Sources
    <3>1. mover[a].read.raw.accts[a] \in Entry \cup {Absent}
      BY <1>t DEF Files, Content, Listing
    <3> QED
      BY <3>1 DEF TargetFile, Entry
  <2>3. NewEntry(a) \in Entry
        /\ (TargetFile(a) = "root" => NewEntry(a).src = "root")
    <3>1. CASE mover[a].read.raw.accts[a] = Absent
      BY <1>t, <3>1 DEF NewEntry, Entry, Sources
    <3>2. CASE mover[a].read.raw.accts[a] # Absent
      <4>1. TargetContent(a).accts[a] \in Entry
        BY <1>4, <2>1, <3>2 DEF MoveCommits, EntryFound, Content, Listing
      <4>2. NewEntry(a) = [name |-> mover[a].name, src |-> TargetContent(a).accts[a].src]
        BY <3>2 DEF NewEntry
      <4>3. TargetFile(a) = "root" => TargetContent(a).accts[a].src = "root"
        BY <1>t, <4>1, AbsentIsNoEntry DEF TargetContent, RootOnly
      <4> QED
        BY <1>t, <4>1, <4>2, <4>3 DEF Entry
    <3> QED
      BY <3>1, <3>2
  <2>4. /\ new \in Content
        /\ \A b \in Accounts : new.accts[b] =
             IF b = a THEN NewEntry(a) ELSE TargetContent(a).accts[b]
    BY <2>1, <2>3 DEF Content, Listing
  <2>5. Commit(mover[a].parent, [files EXCEPT ![TargetFile(a)] = new])
    BY <1>4 DEF MoveCommits
  <2> HIDE DEF new
  <2>6. ASSUME TargetFile(a) = "root" PROVE Well(files')
    <3>1. files' = [files EXCEPT !.root = new]
      BY <2>5, <2>6 DEF Commit
    <3>2. RootOnly(new)
      BY <1>t, <2>3, <2>4, <2>6 DEF RootOnly, TargetContent
    <3> QED
      BY <1>t, <2>4, <3>1, <3>2 DEF TypeInv, Wellformed, Well, Files
  <2>7. ASSUME TargetFile(a) = "split" PROVE Well(files')
    <3>1. files' = [files EXCEPT !.split = new]
      BY <2>5, <2>7 DEF Commit
    <3>2. \A b \in Accounts : files.split.accts[b] # Absent => new.accts[b] # Absent
      BY <2>3, <2>4, <2>7, AbsentIsNoEntry DEF TargetContent
    <3> QED
      BY <1>t, <2>4, <3>1, <3>2 DEF TypeInv, Wellformed, Well, Files
  <2>8. Well(files')
    BY <2>2, <2>6, <2>7 DEF Sources, Well
  <2>9. head' \in 0..MaxCommits
    BY <1>t, <2>5 DEF Commit
  <2> DEFINE m == [mover[a] EXCEPT !.pc = "mergeRoot", !.parent = head', !.read = NoFiles]
  <2>10. m \in MoverState /\ m.read = NoFiles
    BY <1>t, <2>9, InitialTypes DEF MoverState
  <2>11. mover' = [mover EXCEPT ![a] = m]
    BY <1>4 DEF MoveCommits
  <2> HIDE DEF m
  <2>12. added' \subseteq Accounts /\ UNCHANGED <<name, table, sm, acked>>
    BY <1>4 DEF MoveCommits, TypeInv, TypeOK
  <2> QED
    BY <1>n, <1>c, <2>8, <2>9, <2>10, <2>11, <2>12
<1>5. CASE MoveMergesRoot(a)
  <2> DEFINE r == [mover[a].read EXCEPT !.root = files.root]
  <2> DEFINE m == [mover[a] EXCEPT !.pc = "mergeSplit", !.read = r]
  <2>1. r \in Files /\ r.root = files.root
    BY <1>t DEF Files
  <2>2. mover' = [mover EXCEPT ![a] = m]
    BY <1>5 DEF MoveMergesRoot
  <2> HIDE DEF r
  <2>3. m \in MoverState /\ m.read.root = files.root
    BY <1>t, <2>1 DEF MoverState
  <2> HIDE DEF m
  <2> QED
    BY <1>5, <1>l, <1>t, <2>2, <2>3 DEF MoveMergesRoot
<1>6. CASE MoveMergesSplit(a)
  <2> DEFINE r == [mover[a].read EXCEPT !.split = files.split]
  <2> DEFINE m == [mover[a] EXCEPT !.pc = "commitRaw", !.read = r]
  <2>1. r \in Files /\ r.root = mover[a].read.root
    BY <1>t DEF Files
  <2>2. mover' = [mover EXCEPT ![a] = m]
    BY <1>6 DEF MoveMergesSplit
  <2> HIDE DEF r
  <2>3. m \in MoverState /\ m.read.root = mover[a].read.root
    BY <1>t, <2>1 DEF MoverState
  <2> HIDE DEF m
  <2> QED
    BY <1>6, <1>l, <1>t, <2>2, <2>3 DEF MoveMergesSplit
<1>7. CASE MoveCommitsRaw(a)
  <2>1. Well(Merged(mover[a].read))
    BY <1>t, MergedIsWell
  <2>2. files' = Merged(mover[a].read) /\ head' \in 0..MaxCommits
    BY <1>7, <1>t DEF MoveCommitsRaw, Commit
  <2>3. Well(files')
    BY <2>1, <2>2
  <2>4. added' \subseteq Accounts
    BY <1>7 DEF MoveCommitsRaw, TypeInv, TypeOK
  <2> QED
    BY <1>7, <1>c, <1>n, <2>2, <2>3, <2>4 DEF MoveCommitsRaw
<1>8. CASE MoveFails(a)
  BY <1>8, <1>l, <1>n DEF MoveFails
<1> QED
  BY <1>1, <1>2, <1>3, <1>4, <1>5, <1>6, <1>7, <1>8 DEF MoveStep

\* What users do keeps the types.
LEMMA UserTypes ==
    /\ \A e \in Edits : TypeInv /\ UserEdits(e) => TypeInv'
    /\ \A a \in Accounts : TypeInv /\ UserRenamesAccount(a) => TypeInv'
<1> USE RepoAssumption
<1>1. ASSUME TypeInv, NEW e \in Edits, UserEdits(e) PROVE TypeInv'
  <2> DEFINE f == EditFile[e]
  <2> DEFINE new == [files[f] EXCEPT !.edits = @ \cup {e}]
  <2>1. f \in Sources /\ files \in Files /\ Well(files) /\ head \in 0..MaxCommits
    BY <1>1 DEF TypeInv, TypeOK, Wellformed
  <2>2. files[f] \in Content
    BY <2>1 DEF Sources, Files
  <2>3. new \in Content /\ new.accts = files[f].accts
    BY <2>2 DEF Content
  <2>4. files' = [files EXCEPT ![f] = new] /\ head' \in 0..MaxCommits
    <3>1. Commit(head, [files EXCEPT ![f].edits = @ \cup {e}])
      BY <1>1 DEF UserEdits
    <3> QED
      BY <2>1, <3>1 DEF Commit, Sources, Files
  <2> HIDE DEF new
  <2>5. /\ files' \in Files
        /\ files'.root.accts = files.root.accts /\ files'.split.accts = files.split.accts
        /\ files'.raw = files.raw
    BY <2>1, <2>3, <2>4 DEF Sources, Files
  <2>6. Well(files')
    BY <2>1, <2>5 DEF Well, RootOnly
  <2> QED
    BY <1>1, <2>4, <2>6 DEF UserEdits, TypeInv, TypeOK, Wellformed, Well, RootOnly
<1>2. ASSUME TypeInv, NEW a \in Accounts, UserRenamesAccount(a) PROVE TypeInv'
  <2>1. name' \in [Accounts -> Names]
    BY <1>2 DEF UserRenamesAccount, TypeInv, TypeOK, Names
  <2> QED
    BY <1>2, <2>1 DEF UserRenamesAccount, TypeInv, TypeOK, Wellformed, Well, RootOnly
<1> QED
  BY <1>1, <1>2

\* Every step keeps the types.
LEMMA TypeNext == TypeInv /\ [Next]_vars => TypeInv'
<1>1. ASSUME TypeInv, UNCHANGED vars PROVE TypeInv'
  BY <1>1 DEF vars, TypeInv, TypeOK, Wellformed, Well, RootOnly
<1> QED
  BY <1>1, ExecutionTypes, MoverTypes, UserTypes DEF Next

\* Whatever the writers do, the files, what the writers have read of them and
\* the names stay well-formed.
THEOREM TypeCorrect == Spec => []TypeOK
<1>1. TypeInv => TypeOK
  BY DEF TypeInv
<1> QED
  BY <1>1, TypeInit, TypeNext, PTL DEF Spec

-----------------------------------------------------------------------------
(* Merging takes the sources from one commit. *)

\* While the commit that an actor works from is the head of the branch, what it
\* has read since is what the branch holds.
ExecutionReads ==
    /\ sm.parent <= head
    /\ head = sm.parent =>
         /\ sm.pc \in {"readSplit", "commit"} => sm.read.root = files.root
         /\ sm.pc = "commit" => sm.read.split = files.split
         /\ sm.pc \in {"list", "update"} => sm.read = files

MoverReads(a) ==
    /\ mover[a].parent <= head
    /\ head = mover[a].parent =>
         /\ mover[a].pc \in {"mergeSplit", "commitRaw"} => mover[a].read.root = files.root
         /\ mover[a].pc = "commitRaw" => mover[a].read.split = files.split

ReadsInv == TypeInv /\ ExecutionReads /\ \A a \in Accounts : MoverReads(a)

\* The head names the contents: it only advances, and they change only with it.
LEMMA HeadMoves ==
    ASSUME TypeInv, [Next]_vars
    PROVE  /\ head \in Nat /\ head' \in Nat
           /\ head <= head'
           /\ head' = head => files' = files
<1> USE RepoAssumption
<1>1. head \in 0..MaxCommits
  BY DEF TypeInv, TypeOK
<1>2. ASSUME NEW p, NEW new, Commit(p, new)
      PROVE  head' \in Nat /\ head <= head' /\ (head' = head => files' = files)
  BY <1>1, <1>2 DEF Commit
<1>3. ASSUME UNCHANGED <<files, head>>
      PROVE  head' \in Nat /\ head <= head' /\ (head' = head => files' = files)
  BY <1>1, <1>3
<1>4. CASE UNCHANGED vars
  BY <1>1, <1>3, <1>4 DEF vars
<1>5. CASE ExecutionStep
  <2>1. UNCHANGED <<files, head>> \/ \E p, new : Commit(p, new)
    <3>1. CASE CommitConfig
      BY <3>1 DEF CommitConfig
    <3>2. CASE UpdateConfig
      BY <3>2 DEF UpdateConfig
    <3>3. CASE UpdateCrashes
      BY <3>3 DEF UpdateCrashes
    <3> QED
      BY <1>5, <3>1, <3>2, <3>3 DEF ExecutionStep, Begin, ReadRoot, ReadSplit, ListAccounts,
         CommitRefused, LoadOrganizationConfiguration, LoadAccounts, ExecutionFails
  <2> QED
    BY <1>1, <1>2, <1>3, <2>1
<1>6. ASSUME NEW a \in Accounts,
             UserMovesAccount(a) \/ MoveStep(a) \/ UserRenamesAccount(a)
      PROVE  head' \in Nat /\ head <= head' /\ (head' = head => files' = files)
  <2>1. UNCHANGED <<files, head>> \/ \E p, new : Commit(p, new)
    <3>1. CASE MoveCommits(a)
      BY <3>1 DEF MoveCommits
    <3>2. CASE MoveCommitsRaw(a)
      BY <3>2 DEF MoveCommitsRaw
    <3> QED
      BY <1>6, <3>1, <3>2 DEF MoveStep, UserMovesAccount, UserRenamesAccount, MoveReadsRoot,
         MoveReadsRaw, MoveMergesRoot, MoveMergesSplit, MoveFails
  <2> QED
    BY <1>1, <1>2, <1>3, <2>1
<1>7. ASSUME NEW e \in Edits, UserEdits(e)
      PROVE  head' \in Nat /\ head <= head' /\ (head' = head => files' = files)
  BY <1>2, <1>7 DEF UserEdits
<1> QED
  BY <1>1, <1>4, <1>5, <1>6, <1>7 DEF Next

\* What an execution has read stays current or its parent is outdated.
LEMMA ExecutionReadsNext == ReadsInv /\ [Next]_vars => ExecutionReads'
<1> SUFFICES ASSUME ReadsInv, [Next]_vars PROVE ExecutionReads'
  OBVIOUS
<1>t. /\ head \in Nat /\ head' \in Nat /\ head <= head' /\ (head' = head => files' = files)
      /\ sm \in ExecutionState /\ sm' \in ExecutionState
      /\ sm.parent \in Nat /\ sm.read \in Files /\ files \in Files
  BY HeadMoves, TypeNext DEF ReadsInv, TypeInv, TypeOK, ExecutionState
<1>i. ASSUME sm' = Idle PROVE ExecutionReads'
  BY <1>i, <1>t DEF Idle, ExecutionReads
<1>u. ASSUME UNCHANGED sm PROVE ExecutionReads'
  BY <1>u, <1>t DEF ReadsInv, ExecutionReads
<1>1. CASE Begin
  <2>1. sm'.pc = "readRoot" /\ sm'.parent = head /\ head' = head
    BY <1>1, <1>t DEF Begin, ExecutionState
  <2> QED
    BY <1>t, <2>1 DEF ExecutionReads
<1>2. CASE ReadRoot
  <2>1. /\ sm'.pc = "readSplit" /\ sm'.parent = sm.parent /\ sm'.read.root = files.root
        /\ UNCHANGED <<files, head>>
    BY <1>2, <1>t DEF ReadRoot, ExecutionState, Files
  <2> QED
    BY <1>t, <2>1 DEF ReadsInv, ExecutionReads
<1>3. CASE ReadSplit
  <2>1. /\ sm'.pc = "commit" /\ sm'.parent = sm.parent /\ sm'.read.root = sm.read.root
        /\ sm'.read.split = files.split /\ sm.pc = "readSplit" /\ UNCHANGED <<files, head>>
    BY <1>3, <1>t DEF ReadSplit, ExecutionState, Files
  <2> QED
    BY <1>t, <2>1 DEF ReadsInv, ExecutionReads
<1>4. CASE CommitConfig
  <2>1. sm'.pc = "list" /\ sm'.parent = head' /\ sm'.read = files'
    BY <1>4, <1>t DEF CommitConfig, ExecutionState
  <2> QED
    BY <1>t, <2>1 DEF ExecutionReads
<1>5. CASE ListAccounts
  <2>1. /\ sm'.pc = "update" /\ sm'.parent = sm.parent /\ sm'.read = sm.read
        /\ sm.pc = "list" /\ UNCHANGED <<files, head>>
    BY <1>5, <1>t DEF ListAccounts, ExecutionState
  <2> QED
    BY <1>t, <2>1 DEF ReadsInv, ExecutionReads
<1>6. CASE UpdateConfig
  <2>1. sm'.pc = "loadOrg" /\ sm'.parent = head'
    BY <1>6, <1>t DEF UpdateConfig, ExecutionState
  <2> QED
    BY <1>t, <2>1 DEF ExecutionReads
<1>7. CASE UpdateCrashes \/ CommitRefused \/ LoadAccounts \/ ExecutionFails
  BY <1>7, <1>i DEF UpdateCrashes, CommitRefused, LoadAccounts, ExecutionFails
<1>8. CASE LoadOrganizationConfiguration
  <2>1. sm'.pc = "loadAccounts" /\ sm'.parent = sm.parent /\ UNCHANGED <<files, head>>
    BY <1>8, <1>t DEF LoadOrganizationConfiguration, ExecutionState
  <2> QED
    BY <1>t, <2>1 DEF ReadsInv, ExecutionReads
<1>9. ASSUME NEW a \in Accounts, UserMovesAccount(a) \/ MoveStep(a) \/ UserRenamesAccount(a)
      PROVE  ExecutionReads'
  BY <1>9, <1>u DEF UserMovesAccount, MoveStep, UserRenamesAccount, MoveReadsRoot, MoveReadsRaw,
     MoveCommits, MoveMergesRoot, MoveMergesSplit, MoveCommitsRaw, MoveFails
<1>10. ASSUME NEW e \in Edits, UserEdits(e) PROVE ExecutionReads'
  BY <1>10, <1>u DEF UserEdits
<1>11. CASE UNCHANGED vars
  BY <1>11, <1>u DEF vars
<1> QED
  BY <1>1, <1>2, <1>3, <1>4, <1>5, <1>6, <1>7, <1>8, <1>9, <1>10, <1>11 DEF Next, ExecutionStep

\* The same of the MoveAccount Lambda.
LEMMA MoverReadsNext ==
    ASSUME ReadsInv, [Next]_vars, NEW a \in Accounts
    PROVE  MoverReads(a)'
<1>t. /\ head \in Nat /\ head' \in Nat /\ head <= head' /\ (head' = head => files' = files)
      /\ mover \in [Accounts -> MoverState] /\ mover' \in [Accounts -> MoverState]
      /\ mover[a] \in MoverState /\ mover[a].parent \in Nat /\ mover[a].read \in Files
  BY HeadMoves, TypeNext DEF ReadsInv, TypeInv, TypeOK, MoverState
<1>r. MoverReads(a)
  BY DEF ReadsInv
<1>u. ASSUME mover'[a] = mover[a] PROVE MoverReads(a)'
  BY <1>u, <1>t, <1>r DEF MoverReads
<1>i. ASSUME mover'[a] = NotMoving PROVE MoverReads(a)'
  BY <1>i, <1>t DEF MoverReads, NotMoving
<1>1. CASE UserMovesAccount(a)
  <2>1. /\ mover'[a].pc = "readRoot" /\ mover'[a].parent = mover[a].parent /\ head' = head
    BY <1>1, <1>t DEF UserMovesAccount, MoverState
  <2> QED
    BY <1>t, <1>r, <2>1 DEF MoverReads
<1>2. CASE MoveReadsRoot(a)
  <2>1. mover'[a].pc = "readRaw" /\ mover'[a].parent = mover[a].parent /\ head' = head
    BY <1>2, <1>t DEF MoveReadsRoot, MoverState
  <2> QED
    BY <1>t, <1>r, <2>1 DEF MoverReads
<1>3. CASE MoveReadsRaw(a)
  <2>1. mover'[a].pc = "commit" /\ mover'[a].parent = head /\ head' = head
    BY <1>3, <1>t DEF MoveReadsRaw, MoverState
  <2> QED
    BY <1>t, <2>1 DEF MoverReads
<1>4. CASE MoveCommits(a)
  <2>1. mover'[a].pc = "mergeRoot" /\ mover'[a].parent = head'
    BY <1>4, <1>t DEF MoveCommits, MoverState
  <2> QED
    BY <1>t, <2>1 DEF MoverReads
<1>5. CASE MoveMergesRoot(a)
  <2>1. /\ mover'[a].pc = "mergeSplit" /\ mover'[a].parent = mover[a].parent
        /\ mover'[a].read.root = files.root /\ UNCHANGED <<files, head>>
    BY <1>5, <1>t DEF MoveMergesRoot, MoverState, Files
  <2> QED
    BY <1>t, <1>r, <2>1 DEF MoverReads
<1>6. CASE MoveMergesSplit(a)
  <2>1. /\ mover'[a].pc = "commitRaw" /\ mover'[a].parent = mover[a].parent
        /\ mover[a].pc = "mergeSplit" /\ mover'[a].read.root = mover[a].read.root
        /\ mover'[a].read.split = files.split /\ UNCHANGED <<files, head>>
    BY <1>6, <1>t DEF MoveMergesSplit, At, MoverState, Files
  <2> QED
    BY <1>t, <1>r, <2>1 DEF MoverReads
<1>7. CASE MoveCommitsRaw(a) \/ MoveFails(a)
  <2>1. mover'[a] = NotMoving
    BY <1>7, <1>t DEF MoveCommitsRaw, MoveFails
  <2> QED
    BY <2>1, <1>i
<1>8. ASSUME NEW b \in Accounts, b # a,
             UserMovesAccount(b) \/ MoveStep(b) \/ UserRenamesAccount(b)
      PROVE  MoverReads(a)'
  <2>1. mover'[a] = mover[a]
    BY <1>8, <1>t DEF UserMovesAccount, MoveStep, UserRenamesAccount, MoveReadsRoot, MoveReadsRaw,
       MoveCommits, MoveMergesRoot, MoveMergesSplit, MoveCommitsRaw, MoveFails
  <2> QED
    BY <2>1, <1>u
<1>9. CASE UserRenamesAccount(a) \/ (\E e \in Edits : UserEdits(e)) \/ UNCHANGED vars
  BY <1>9, <1>u DEF UserRenamesAccount, UserEdits, vars
<1>10. CASE ExecutionStep
  <2>1. mover' = mover
    BY <1>10 DEF ExecutionStep, Begin, ReadRoot, ReadSplit, CommitConfig, ListAccounts,
       UpdateConfig, UpdateCrashes, CommitRefused, LoadOrganizationConfiguration, LoadAccounts,
       ExecutionFails
  <2> QED
    BY <2>1, <1>u
<1> QED
  BY <1>1, <1>2, <1>3, <1>4, <1>5, <1>6, <1>7, <1>8, <1>9, <1>10 DEF Next, MoveStep

\* The invariant holds in every reachable state.
LEMMA ReadsCorrect == Spec => []ReadsInv
<1>1. Init => ReadsInv
  <2> SUFFICES ASSUME Init PROVE ReadsInv
    OBVIOUS
  <2>1. head = 0 /\ sm = Idle /\ \A a \in Accounts : mover[a] = NotMoving
    BY DEF Init
  <2>2. ExecutionReads
    BY <2>1 DEF ExecutionReads, Idle
  <2>3. ASSUME NEW a \in Accounts PROVE MoverReads(a)
    <3>1. mover[a].pc = "idle" /\ mover[a].parent = 0
      BY <2>1 DEF NotMoving
    <3> QED
      BY <2>1, <3>1 DEF MoverReads
  <2> QED
    BY <2>2, <2>3, TypeInit DEF ReadsInv
<1>2. ReadsInv /\ [Next]_vars => ReadsInv'
  BY TypeNext, ExecutionReadsNext, MoverReadsNext DEF ReadsInv
<1> QED
  BY <1>1, <1>2, PTL DEF Spec

\* A commit of merged files has the branch's sources, unchanged, and the raw file
\* they give, although they are read one by one.
THEOREM MergeCorrect == Spec => MergeIsConsistent
<1> DEFINE Consistent ==
       /\ files'.raw = Merge(files.root, files.split)
       /\ files'.root = files.root /\ files'.split = files.split
<1>1. ASSUME ReadsInv, CommitConfig PROVE Consistent
  <2>1. /\ head = sm.parent /\ sm.pc = "commit" /\ files' = Merged(sm.read)
    BY <1>1 DEF CommitConfig, Commit
  <2>2. sm.read.root = files.root /\ sm.read.split = files.split
    BY <1>1, <2>1 DEF ReadsInv, ExecutionReads
  <2>3. sm.read \in Files /\ RootOnly(sm.read.root)
    BY <1>1 DEF ReadsInv, TypeInv, TypeOK, Wellformed, ExecutionState
  <2> QED
    BY <2>1, <2>2, <2>3, MergedIsWell
<1>2. ASSUME ReadsInv, NEW a \in Accounts, MoveCommitsRaw(a) PROVE Consistent
  <2>1. /\ head = mover[a].parent /\ mover[a].pc = "commitRaw"
        /\ files' = Merged(mover[a].read)
    BY <1>2 DEF MoveCommitsRaw, At, Commit
  <2>2. mover[a].read.root = files.root /\ mover[a].read.split = files.split
    BY <1>2, <2>1 DEF ReadsInv, MoverReads
  <2>3. mover[a].read \in Files /\ RootOnly(mover[a].read.root)
    BY <1>2 DEF ReadsInv, TypeInv, TypeOK, Wellformed, MoverState
  <2> QED
    BY <2>1, <2>2, <2>3, MergedIsWell
<1>3. ReadsInv => (CommitConfig \/ (\E a \in Accounts : MoveCommitsRaw(a)) => Consistent)
  BY <1>1, <1>2
<1> QED
  BY <1>3, ReadsCorrect, PTL DEF MergeIsConsistent

-----------------------------------------------------------------------------
(* Nothing is dropped when a loaded file holds the accounts. *)

NoAccounts(content) == \A a \in Accounts : content.accts[a] = Absent

\* With the accounts in a loaded file, the root file and what was read of it have
\* none: the MoveAccount Lambda never writes the root file it read too early.
SplitInv ==
    /\ ReadsInv
    /\ NoAccounts(files.root) /\ NoAccounts(sm.read.root)
    /\ \A a \in Accounts : NoAccounts(mover[a].read.root)
    /\ EditsKept
    /\ \A a \in added : files.split.accts[a] # Absent

\* Two files that hold the same edits and the same accounts.
SameIn(c, d) ==
    /\ c.edits = d.edits
    /\ \A a \in Accounts : c.accts[a] = Absent <=> d.accts[a] = Absent

\* An execution changes neither which edits nor which accounts the sources hold.
LEMMA ExecutionKeeps ==
    ASSUME ReadsInv, ExecutionStep
    PROVE  SameIn(files'.root, files.root) /\ SameIn(files'.split, files.split)
<1>t. sm.names \in [Accounts -> Names] /\ sm.read \in Files
      /\ sm.read.root \in Content /\ sm.read.split \in Content
  BY DEF ReadsInv, TypeInv, TypeOK, ExecutionState, Files
<1>r. sm.pc = "update" => Well(sm.read)
  BY DEF ReadsInv, TypeInv, Wellformed
<1>1. CASE CommitConfig
  <2>1. /\ head = sm.parent /\ sm.pc = "commit" /\ files' = Merged(sm.read)
    BY <1>1 DEF CommitConfig, Commit
  <2>2. sm.read.root = files.root /\ sm.read.split = files.split
    BY <2>1 DEF ReadsInv, ExecutionReads
  <2>3. RootOnly(sm.read.root)
    BY DEF ReadsInv, TypeInv, Wellformed
  <2> QED
    BY <1>t, <2>1, <2>2, <2>3, MergedIsWell DEF SameIn
<1>2. CASE UpdateConfig
  <2>1. sm.pc = "update" /\ Misplaced = {}
    BY <1>2 DEF UpdateConfig
  <2>2. /\ \A a \in RenamedIn("root") : sm.read.root.accts[a] # Absent
        /\ \A a \in RenamedIn("split") : sm.read.split.accts[a] # Absent
        /\ RenamedIn("root") \in SUBSET Accounts /\ RenamedIn("split") \in SUBSET Accounts
    BY <1>r, <2>1 DEF Misplaced, RenamedIn, Renamed, Well
  <2>3. /\ SameIn(Rename(sm.read.root, RenamedIn("root")), sm.read.root)
        /\ SameIn(Rename(sm.read.split, RenamedIn("split")), sm.read.split)
    BY <1>t, <2>2, RenameType DEF SameIn
  <2>4. PICK late \in BOOLEAN :
          Commit(sm.parent,
                 [root  |-> Rename(sm.read.root, RenamedIn("root")),
                  split |-> IF late THEN sm.read.split
                            ELSE Rename(sm.read.split, RenamedIn("split")),
                  raw   |-> Rename(sm.read.raw, Renamed)])
    BY <1>2 DEF UpdateConfig
  <2>5. /\ head = sm.parent
        /\ files'.root = Rename(sm.read.root, RenamedIn("root"))
        /\ files'.split \in {sm.read.split, Rename(sm.read.split, RenamedIn("split"))}
    BY <2>4 DEF Commit
  <2>6. sm.read = files
    BY <2>1, <2>5 DEF ReadsInv, ExecutionReads
  <2> QED
    BY <2>3, <2>5, <2>6 DEF SameIn
<1>3. CASE UpdateCrashes
  <2>1. CASE UNCHANGED <<files, head>>
    BY <2>1 DEF SameIn
  <2>2. ASSUME NEW done \in SUBSET (RenamedIn("root") \ Misplaced),
               Commit(sm.parent, [sm.read EXCEPT !.root = Rename(@, done),
                                                 !.raw = Rename(@, Renamed)])
        PROVE  SameIn(files'.root, files.root) /\ SameIn(files'.split, files.split)
    <3>1. /\ \A a \in done : sm.read.root.accts[a] # Absent
          /\ done \in SUBSET Accounts
      BY <2>2 DEF Misplaced, RenamedIn, Renamed
    <3>2. SameIn(Rename(sm.read.root, done), sm.read.root)
      BY <1>t, <3>1, RenameType DEF SameIn
    <3>3. head = sm.parent /\ files'.root = Rename(sm.read.root, done)
          /\ files'.split = sm.read.split
      BY <1>t, <2>2 DEF Commit, Files
    <3>4. sm.read = files
      BY <1>3, <3>3 DEF UpdateCrashes, ReadsInv, ExecutionReads
    <3> QED
      BY <3>2, <3>3, <3>4 DEF SameIn
  <2> QED
    BY <1>3, <2>1, <2>2 DEF UpdateCrashes
<1>4. CASE UNCHANGED files
  BY <1>4 DEF SameIn
<1> QED
  BY <1>1, <1>2, <1>3, <1>4 DEF ExecutionStep, Begin, ReadRoot, ReadSplit, ListAccounts,
     CommitRefused, LoadOrganizationConfiguration, LoadAccounts, ExecutionFails

\* Nor does the MoveAccount Lambda, but for the account it adds.
LEMMA MoverKeeps ==
    ASSUME Layout = "split", SplitInv, NEW a \in Accounts, UserMovesAccount(a) \/ MoveStep(a)
    PROVE  /\ files'.root = files.root
           /\ files'.split.edits = files.split.edits
           /\ \A b \in Accounts :
                files.split.accts[b] # Absent => files'.split.accts[b] # Absent
           /\ added' # added => files'.split.accts[a] # Absent /\ added' = added \cup {a}
<1>t. /\ mover[a].read \in Files /\ files \in Files /\ mover[a].name \in Names
      /\ files.split \in Content /\ mover[a].read.root \in Content
      /\ NoAccounts(mover[a].read.root) /\ RootOnly(mover[a].read.root)
      /\ mover[a].read.raw.accts[a] \in Entry \cup {Absent}
  BY DEF SplitInv, ReadsInv, TypeInv, TypeOK, Wellformed, MoverState, Files, Content, Listing
<1>1. CASE MoveCommits(a)
  <2>1. TargetFile(a) = "split"
    <3>1. ASSUME TargetFile(a) = "root" PROVE FALSE
      <4>1. mover[a].read.raw.accts[a] # Absent
        BY <3>1 DEF TargetFile
      <4>2. TargetContent(a) = mover[a].read.root
        BY <3>1 DEF TargetContent
      <4> QED
        BY <1>1, <1>t, <4>1, <4>2 DEF MoveCommits, EntryFound, NoAccounts
    <3>2. TargetFile(a) \in Sources
      BY <1>t DEF TargetFile, Entry, Sources
    <3> QED
      BY <3>1, <3>2 DEF Sources
  <2>2. TargetContent(a) = files.split
    BY <2>1 DEF TargetContent
  <2>3. NewEntry(a) # Absent
    <3>1. CASE mover[a].read.raw.accts[a] = Absent
      <4>1. NewEntry(a) \in Entry
        BY <1>t, <3>1 DEF NewEntry, Entry, Sources
      <4> QED
        BY <4>1, AbsentIsNoEntry
    <3>2. CASE mover[a].read.raw.accts[a] # Absent
      <4>1. files.split.accts[a] \in Entry
        BY <1>1, <1>t, <2>2, <3>2 DEF MoveCommits, EntryFound, Content, Listing
      <4>2. NewEntry(a) = [name |-> mover[a].name, src |-> files.split.accts[a].src]
        BY <2>2, <3>2 DEF NewEntry
      <4>3. NewEntry(a) \in Entry
        BY <1>t, <4>1, <4>2 DEF Entry
      <4> QED
        BY <4>3, AbsentIsNoEntry
    <3> QED
      BY <3>1, <3>2
  <2>4. files' = [files EXCEPT !.split = [files.split EXCEPT !.accts = [@ EXCEPT ![a] = NewEntry(a)]]]
    BY <1>1, <2>1, <2>2 DEF MoveCommits, Commit
  <2>5. /\ files'.root = files.root /\ files'.split.edits = files.split.edits
        /\ files'.split.accts = [files.split.accts EXCEPT ![a] = NewEntry(a)]
    BY <1>t, <2>4 DEF Files, Content
  <2>6. added' = added \cup {a}
    BY <1>1 DEF MoveCommits
  <2> QED
    BY <1>t, <2>3, <2>5, <2>6 DEF Content, Listing
<1>2. CASE MoveCommitsRaw(a)
  <2>1. files'.root = files.root /\ files'.split = files.split /\ added' = added
    <3>1. /\ head = mover[a].parent /\ mover[a].pc = "commitRaw"
          /\ files' = Merged(mover[a].read)
      BY <1>2 DEF MoveCommitsRaw, At, Commit
    <3>2. mover[a].read.root = files.root /\ mover[a].read.split = files.split
      BY <3>1 DEF SplitInv, ReadsInv, MoverReads
    <3> QED
      BY <1>2, <1>t, <3>1, <3>2, MergedIsWell DEF MoveCommitsRaw
  <2> QED
    BY <2>1
<1>3. CASE UNCHANGED <<files, added>>
  BY <1>3
<1> QED
  BY <1>1, <1>2, <1>3 DEF MoveStep, UserMovesAccount, MoveReadsRoot, MoveReadsRaw,
     MoveMergesRoot, MoveMergesSplit, MoveFails

\* Where the accounts are not, no actor reads any.
LEMMA NoAccountsNext ==
    ASSUME SplitInv, [Next]_vars, NoAccounts(files'.root)
    PROVE  /\ NoAccounts(sm'.read.root)
           /\ \A a \in Accounts : NoAccounts(mover'[a].read.root)
<1>t. /\ sm \in ExecutionState /\ sm.read \in Files /\ mover \in [Accounts -> MoverState]
      /\ NoAccounts(files.root) /\ NoAccounts(sm.read.root)
      /\ \A a \in Accounts : mover[a].read \in Files /\ NoAccounts(mover[a].read.root)
  BY DEF SplitInv, ReadsInv, TypeInv, TypeOK, ExecutionState, MoverState
<1>n. /\ NoAccounts(NoFiles.root)
      /\ Idle.read = NoFiles /\ NotMoving.read = NoFiles
  BY InitialTypes DEF NoFiles, NoAccounts, Idle, NotMoving
<1>1. sm'.read.root \in {sm.read.root, files.root, files'.root, NoFiles.root}
  <2>1. CASE ReadRoot
    BY <1>t, <2>1 DEF ReadRoot, ExecutionState, Files
  <2>2. CASE ReadSplit
    BY <1>t, <2>2 DEF ReadSplit, ExecutionState, Files
  <2>3. CASE CommitConfig \/ UpdateConfig
    BY <1>t, <2>3 DEF CommitConfig, UpdateConfig, ExecutionState
  <2>4. CASE Begin \/ ListAccounts \/ LoadOrganizationConfiguration
    BY <1>t, <2>4 DEF Begin, ListAccounts, LoadOrganizationConfiguration, ExecutionState
  <2>5. CASE UpdateCrashes \/ CommitRefused \/ LoadAccounts \/ ExecutionFails
    <3>1. sm' = Idle
      BY <2>5 DEF UpdateCrashes, CommitRefused, LoadAccounts, ExecutionFails
    <3> QED
      BY <1>n, <3>1
  <2>6. CASE UNCHANGED sm
    BY <2>6
  <2> QED
    BY <2>1, <2>2, <2>3, <2>4, <2>5, <2>6 DEF Next, vars, ExecutionStep, UserMovesAccount, MoveStep,
       UserRenamesAccount, MoveReadsRoot, MoveReadsRaw, MoveCommits, MoveMergesRoot,
       MoveMergesSplit, MoveCommitsRaw, MoveFails, UserEdits
<1>2. ASSUME NEW a \in Accounts
      PROVE  mover'[a].read.root \in {mover[a].read.root, files.root, NoFiles.root}
  <2>t. /\ mover \in [Accounts -> MoverState] /\ mover[a] \in MoverState
        /\ mover[a].read \in Files
    BY <1>t
  <2>1. CASE MoveReadsRoot(a) \/ MoveMergesRoot(a)
    <3>1. CASE MoveReadsRoot(a)
      BY <2>t, <3>1 DEF MoveReadsRoot, MoverState, Files
    <3>2. CASE MoveMergesRoot(a)
      BY <2>t, <3>2 DEF MoveMergesRoot, MoverState, Files
    <3> QED
      BY <2>1, <3>1, <3>2
  <2>2. CASE MoveReadsRaw(a) \/ MoveMergesSplit(a)
    <3>1. CASE MoveReadsRaw(a)
      BY <2>t, <3>1 DEF MoveReadsRaw, MoverState, Files
    <3>2. CASE MoveMergesSplit(a)
      BY <2>t, <3>2 DEF MoveMergesSplit, MoverState, Files
    <3> QED
      BY <2>2, <3>1, <3>2
  <2>3. CASE MoveCommits(a)
    BY <1>t, <2>3 DEF MoveCommits, MoverState
  <2>4. CASE MoveCommitsRaw(a) \/ MoveFails(a)
    BY <1>t, <2>4 DEF MoveCommitsRaw, MoveFails, NotMoving
  <2>5. CASE UserMovesAccount(a)
    BY <1>t, <2>5 DEF UserMovesAccount, MoverState
  <2>6. CASE mover'[a] = mover[a]
    BY <2>6
  <2>7. ASSUME NEW b \in Accounts, b # a, UserMovesAccount(b) \/ MoveStep(b)
        PROVE  mover'[a] = mover[a]
    BY <1>t, <2>7 DEF UserMovesAccount, MoveStep, MoveReadsRoot, MoveReadsRaw, MoveCommits,
       MoveMergesRoot, MoveMergesSplit, MoveCommitsRaw, MoveFails
  <2>8. CASE ExecutionStep
    BY <2>6, <2>8 DEF ExecutionStep, Begin, ReadRoot, ReadSplit, CommitConfig, ListAccounts,
       UpdateConfig, UpdateCrashes, CommitRefused, LoadOrganizationConfiguration, LoadAccounts,
       ExecutionFails
  <2> QED
    BY <2>1, <2>2, <2>3, <2>4, <2>5, <2>6, <2>7, <2>8 DEF Next, vars, MoveStep,
       UserRenamesAccount, UserEdits
<1> QED
  BY <1>t, <1>n, <1>1, <1>2

\* The invariant holds in every reachable state.
LEMMA SplitCorrect ==
    ASSUME Layout = "split"
    PROVE  Spec => []SplitInv
<1> USE RepoAssumption
<1>1. Init => SplitInv
  <2> SUFFICES ASSUME Init PROVE SplitInv
    OBVIOUS
  <2>1. /\ files.root = NoContent /\ sm.read.root = NoContent
        /\ \A a \in Accounts : mover[a].read.root = NoContent
    BY DEF Init, Idle, NotMoving, NoFiles
  <2>2. NoAccounts(NoContent)
    BY InitialTypes DEF NoAccounts
  <2>3. acked = {} /\ added = {} /\ ReadsInv
    <3>1. ExecutionReads
      BY DEF Init, Idle, ExecutionReads
    <3>2. ASSUME NEW a \in Accounts PROVE MoverReads(a)
      <4>1. mover[a].pc = "idle" /\ mover[a].parent = 0 /\ head = 0
        BY DEF Init, NotMoving
      <4> QED
        BY <4>1 DEF MoverReads
    <3> QED
      BY <3>1, <3>2, TypeInit DEF Init, ReadsInv
  <2> QED
    BY <2>1, <2>2, <2>3 DEF SplitInv, EditsKept
<1>2. SplitInv /\ [Next]_vars => SplitInv'
  <2> SUFFICES ASSUME SplitInv, [Next]_vars PROVE SplitInv'
    OBVIOUS
  <2>1. ReadsInv'
    BY TypeNext, ExecutionReadsNext, MoverReadsNext DEF SplitInv, ReadsInv
  <2>t. files \in Files /\ acked \subseteq Edits /\ added \subseteq Accounts
        /\ files.root \in Content /\ files.split \in Content
    BY DEF SplitInv, ReadsInv, TypeInv, TypeOK, Files
  <2>2. /\ NoAccounts(files'.root)
        /\ EditsKept'
        /\ \A a \in added' : files'.split.accts[a] # Absent
    <3>1. CASE ExecutionStep
      <4>1. UNCHANGED <<acked, added>>
        BY <3>1 DEF ExecutionStep, Begin, ReadRoot, ReadSplit, CommitConfig, ListAccounts,
           UpdateConfig, UpdateCrashes, CommitRefused, LoadOrganizationConfiguration,
           LoadAccounts, ExecutionFails
      <4>2. SameIn(files'.root, files.root) /\ SameIn(files'.split, files.split)
        BY <3>1, ExecutionKeeps DEF SplitInv
      <4>3. \A f \in Sources : files'[f].edits = files[f].edits
        BY <4>2 DEF SameIn, Sources
      <4> QED
        BY <2>t, <4>1, <4>2, <4>3 DEF SplitInv, NoAccounts, SameIn, EditsKept
    <3>2. ASSUME NEW a \in Accounts, UserMovesAccount(a) \/ MoveStep(a)
          PROVE  /\ NoAccounts(files'.root)
                 /\ EditsKept'
                 /\ \A b \in added' : files'.split.accts[b] # Absent
      <4>1. acked' = acked
        BY <3>2 DEF UserMovesAccount, MoveStep, MoveReadsRoot, MoveReadsRaw, MoveCommits,
           MoveMergesRoot, MoveMergesSplit, MoveCommitsRaw, MoveFails
      <4>2. /\ files'.root = files.root
            /\ files'.split.edits = files.split.edits
            /\ \A b \in Accounts :
                 files.split.accts[b] # Absent => files'.split.accts[b] # Absent
            /\ added' # added => files'.split.accts[a] # Absent /\ added' = added \cup {a}
        BY <3>2, MoverKeeps
      <4>3. \A f \in Sources : files'[f].edits = files[f].edits
        BY <4>2 DEF Sources
      <4> QED
        BY <2>t, <4>1, <4>2, <4>3 DEF SplitInv, EditsKept
    <3>3. ASSUME NEW e \in Edits, UserEdits(e)
          PROVE  /\ NoAccounts(files'.root)
                 /\ EditsKept'
                 /\ \A b \in added' : files'.split.accts[b] # Absent
      <4>1. /\ files' = [files EXCEPT ![EditFile[e]].edits = @ \cup {e}]
            /\ acked' = acked \cup {e} /\ added' = added
        BY <3>3 DEF UserEdits, Commit
      <4>2. EditFile[e] \in Sources
        OBVIOUS
      <4>3. CASE EditFile[e] = "root"
        <5>1. files' = [files EXCEPT !.root = [files.root EXCEPT !.edits = @ \cup {e}]]
          BY <4>1, <4>3
        <5>2. /\ files'.root.edits = files.root.edits \cup {e}
              /\ files'.root.accts = files.root.accts /\ files'.split = files.split
          BY <2>t, <5>1 DEF Files, Content
        <5> QED
          BY <2>t, <4>1, <4>3, <5>2 DEF SplitInv, EditsKept, NoAccounts, Sources
      <4>4. CASE EditFile[e] = "split"
        <5>1. files' = [files EXCEPT !.split = [files.split EXCEPT !.edits = @ \cup {e}]]
          BY <4>1, <4>4
        <5>2. /\ files'.split.edits = files.split.edits \cup {e}
              /\ files'.split.accts = files.split.accts /\ files'.root = files.root
          BY <2>t, <5>1 DEF Files, Content
        <5> QED
          BY <2>t, <4>1, <4>4, <5>2 DEF SplitInv, EditsKept, NoAccounts, Sources
      <4> QED
        BY <4>2, <4>3, <4>4 DEF Sources
    <3>4. CASE UNCHANGED vars \/ (\E a \in Accounts : UserRenamesAccount(a))
      BY <3>4 DEF vars, UserRenamesAccount, SplitInv, NoAccounts, EditsKept
    <3> QED
      BY <3>1, <3>2, <3>3, <3>4 DEF Next
  <2>3. /\ NoAccounts(sm'.read.root)
        /\ \A a \in Accounts : NoAccounts(mover'[a].read.root)
    BY <2>2, NoAccountsNext
  <2> QED
    BY <2>1, <2>2, <2>3 DEF SplitInv, NoAccounts
<1> QED
  BY <1>1, <1>2, PTL DEF Spec

\* With the accounts in a loaded file, no interleaving of the writers undoes what
\* a user committed to either file.
THEOREM UserEditsKept ==
    ASSUME Layout = "split"
    PROVE  Spec => []EditsKept
<1>1. SplitInv => EditsKept
  BY DEF SplitInv
<1> QED
  BY <1>1, SplitCorrect, PTL

\* Nor does any drop an account that the MoveAccount Lambda committed.
THEOREM MovedAccountsKept ==
    ASSUME Layout = "split"
    PROVE  Spec => []AccountsKept
<1>1. ASSUME SplitInv PROVE AccountsKept
  <2>1. files.root \in Content /\ files.split \in Content /\ added \subseteq Accounts
    BY <1>1 DEF SplitInv, ReadsInv, TypeInv, TypeOK, Files
  <2> QED
    BY <1>1, <2>1, MergeType DEF SplitInv, AccountsKept
<1> QED
  BY <1>1, SplitCorrect, PTL

-----------------------------------------------------------------------------
(* Renames reach the sources when the root file holds the accounts. *)

\* Files of which the loaded one has no accounts and the merged one says so.
InOneFile(f) == NoAccounts(f.split) /\ RootOnly(f.raw)

\* With the accounts in the root file, neither the branch nor any copy of it has one
\* elsewhere, and what ouValidation works from is merged.
RootInv ==
    /\ TypeInv
    /\ InOneFile(files) /\ InOneFile(sm.read)
    /\ \A a \in Accounts : InOneFile(mover[a].read)
    /\ sm.pc \in {"list", "update"} => sm.read.raw.accts = sm.read.root.accts

\* Merging with a file without accounts takes those of the other one.
LEMMA MergedInOneFile ==
    ASSUME NEW r \in Files, RootOnly(r.root), NoAccounts(r.split)
    PROVE  InOneFile(Merged(r)) /\ Merged(r).raw.accts = Merged(r).root.accts
<1>1. r.root \in Content /\ r.split \in Content
  BY DEF Files
<1>2. /\ Merged(r).root = r.root /\ Merged(r).split = r.split
      /\ Merged(r).raw = Merge(r.root, r.split)
  BY MergedIsWell
<1>3. Merge(r.root, r.split) \in Content
      /\ \A a \in Accounts : Merge(r.root, r.split).accts[a] = r.root.accts[a]
  BY <1>1, MergeType DEF NoAccounts
<1>4. Merge(r.root, r.split).accts = r.root.accts
  BY <1>1, <1>3 DEF Content, Listing
<1> QED
  BY <1>2, <1>4 DEF InOneFile, RootOnly

\* What ouValidation writes: no account is looked for in the wrong file, the loaded file
\* stays as it is, and the root file has the new names.
LEMMA RenamesInOneFile ==
    ASSUME RootInv, sm.pc = "update"
    PROVE  /\ RenamedIn("root") = Renamed /\ RenamedIn("split") = {} /\ Misplaced = {}
           /\ Rename(sm.read.root, Renamed) \in Content
           /\ NoAccounts(Rename(sm.read.split, {}))
           /\ RootOnly(Rename(sm.read.raw, Renamed))
           /\ \A a \in Renamed : Rename(sm.read.root, Renamed).accts[a].name = sm.names[a]
<1>1. /\ sm.read \in Files /\ sm.names \in [Accounts -> Names]
      /\ sm.read.root \in Content /\ sm.read.split \in Content /\ sm.read.raw \in Content
      /\ NoAccounts(sm.read.split) /\ RootOnly(sm.read.raw)
      /\ sm.read.raw.accts = sm.read.root.accts
  BY DEF RootInv, TypeInv, TypeOK, ExecutionState, Files, InOneFile
<1>2. Renamed \in SUBSET Accounts /\ \A a \in Renamed : sm.read.raw.accts[a] # Absent
  BY DEF Renamed
<1>3. RenamedIn("root") = Renamed /\ RenamedIn("split") = {}
  BY <1>1, <1>2 DEF RenamedIn, RootOnly
<1>4. Misplaced = {}
  BY <1>1, <1>2, <1>3 DEF Misplaced
<1>5. /\ Rename(sm.read.root, Renamed) \in Content
      /\ RootOnly(Rename(sm.read.raw, Renamed))
  BY <1>1, <1>2, RenameType DEF RootOnly
<1>6. NoAccounts(Rename(sm.read.split, {}))
  <2>1. {} \in SUBSET Accounts /\ \A a \in {} : sm.read.split.accts[a] # Absent
    OBVIOUS
  <2>2. \A a \in Accounts : Rename(sm.read.split, {}).accts[a] # Absent
                              <=> sm.read.split.accts[a] # Absent
    BY <1>1, <2>1, RenameType
  <2> QED
    BY <1>1, <2>2 DEF NoAccounts
<1>7. \A a \in Renamed : Rename(sm.read.root, Renamed).accts[a].name = sm.names[a]
  <2> DEFINE accts == [a \in Accounts |->
                IF a \in Renamed THEN [name |-> sm.names[a], src |-> sm.read.root.accts[a].src]
                                 ELSE sm.read.root.accts[a]]
  <2>1. Rename(sm.read.root, Renamed) = [sm.read.root EXCEPT !.accts = accts]
    BY Zenon DEF Rename
  <2>2. \A a \in Renamed : accts[a].name = sm.names[a]
    BY <1>2
  <2> HIDE DEF accts
  <2> QED
    BY <1>1, <2>1, <2>2 DEF Content
<1> QED
  BY <1>3, <1>4, <1>5, <1>6, <1>7

\* The steps of an execution leave the accounts in the root file.
LEMMA ExecutionInOneFile ==
    ASSUME RootInv, ExecutionStep
    PROVE  /\ InOneFile(files') /\ InOneFile(sm'.read) /\ mover' = mover
           /\ sm'.pc \in {"list", "update"} => sm'.read.raw.accts = sm'.read.root.accts
<1>t. /\ sm \in ExecutionState /\ sm.read \in Files /\ files \in Files
      /\ RootOnly(sm.read.root)
      /\ InOneFile(files) /\ InOneFile(sm.read)
      /\ NoAccounts(sm.read.split)
  BY DEF RootInv, TypeInv, TypeOK, Wellformed, ExecutionState, InOneFile
<1>i. Idle.pc = "idle" /\ InOneFile(Idle.read)
  BY InitialTypes DEF Idle, NoFiles, InOneFile, NoAccounts, RootOnly
<1>1. CASE CommitConfig
  <2>1. files' = Merged(sm.read)
    BY <1>1 DEF CommitConfig, Commit
  <2>2. sm'.read = files' /\ mover' = mover
    BY <1>1, <1>t DEF CommitConfig, ExecutionState
  <2>3. InOneFile(Merged(sm.read)) /\ Merged(sm.read).raw.accts = Merged(sm.read).root.accts
    BY <1>t, MergedInOneFile
  <2> QED
    BY <2>1, <2>2, <2>3
<1>2. CASE UpdateConfig
  <2>1. sm.pc = "update"
    BY <1>2 DEF UpdateConfig
  <2>2. PICK late \in BOOLEAN :
          Commit(sm.parent,
                 [root  |-> Rename(sm.read.root, RenamedIn("root")),
                  split |-> IF late THEN sm.read.split
                            ELSE Rename(sm.read.split, RenamedIn("split")),
                  raw   |-> Rename(sm.read.raw, Renamed)])
    BY <1>2 DEF UpdateConfig
  <2>3. /\ files'.split \in {sm.read.split, Rename(sm.read.split, {})}
        /\ files'.raw = Rename(sm.read.raw, Renamed)
    BY <2>1, <2>2, RenamesInOneFile DEF Commit
  <2>4. InOneFile(files')
    BY <1>t, <2>1, <2>3, RenamesInOneFile DEF InOneFile
  <2>5. sm'.read = files' /\ sm'.pc = "loadOrg" /\ mover' = mover
    BY <1>2, <1>t DEF UpdateConfig, ExecutionState
  <2> QED
    BY <2>4, <2>5
<1>3. CASE UpdateCrashes
  BY <1>3, RenamesInOneFile DEF UpdateCrashes
<1>4. CASE ReadRoot \/ ReadSplit
  <2>1. /\ files' = files /\ mover' = mover /\ sm'.pc \in {"readSplit", "commit"}
        /\ sm'.read.raw = sm.read.raw
        /\ sm'.read.split \in {sm.read.split, files.split}
    <3>1. CASE ReadRoot
      BY <1>t, <3>1 DEF ReadRoot, ExecutionState, Files
    <3>2. CASE ReadSplit
      BY <1>t, <3>2 DEF ReadSplit, ExecutionState, Files
    <3> QED
      BY <1>4, <3>1, <3>2
  <2> QED
    BY <1>t, <2>1 DEF InOneFile
<1>5. CASE Begin \/ ListAccounts \/ LoadOrganizationConfiguration
  <2>1. /\ files' = files /\ mover' = mover /\ sm'.read = sm.read
        /\ sm'.pc \in {"list", "update"} => sm.pc = "list"
    BY <1>5, <1>t DEF Begin, ListAccounts, LoadOrganizationConfiguration, ExecutionState
  <2> QED
    BY <1>t, <2>1 DEF RootInv
<1>6. CASE CommitRefused \/ LoadAccounts \/ ExecutionFails
  <2>1. files' = files /\ mover' = mover /\ sm' = Idle
    BY <1>6 DEF CommitRefused, LoadAccounts, ExecutionFails
  <2> QED
    BY <1>t, <1>i, <2>1
<1> QED
  BY <1>1, <1>2, <1>3, <1>4, <1>5, <1>6 DEF ExecutionStep

\* And so do those of the MoveAccount Lambda, which finds no account in another file.
LEMMA MoverInOneFile ==
    ASSUME Layout = "root", RootInv, NEW a \in Accounts, UserMovesAccount(a) \/ MoveStep(a)
    PROVE  /\ InOneFile(files') /\ sm' = sm
           /\ \A b \in Accounts : InOneFile(mover'[b].read)
<1>t. /\ mover \in [Accounts -> MoverState] /\ mover[a] \in MoverState
      /\ mover[a].read \in Files /\ files \in Files /\ files.root \in Content
      /\ RootOnly(mover[a].read.root) /\ InOneFile(files)
      /\ \A b \in Accounts : InOneFile(mover[b].read)
      /\ NoAccounts(mover[a].read.split)
  BY DEF RootInv, TypeInv, TypeOK, Wellformed, MoverState, InOneFile, Files
<1>n. InOneFile(NoFiles) /\ NotMoving.read = NoFiles
  BY InitialTypes DEF NotMoving, NoFiles, InOneFile, NoAccounts, RootOnly
<1>1. ASSUME InOneFile(files'), sm' = sm, InOneFile(mover'[a].read),
             \A b \in Accounts : b # a => mover'[b] = mover[b]
      PROVE  /\ InOneFile(files') /\ sm' = sm
             /\ \A b \in Accounts : InOneFile(mover'[b].read)
  BY <1>t, <1>1
<1>2. CASE MoveCommits(a)
  <2>1. TargetFile(a) = "root"
    BY <1>t DEF TargetFile, InOneFile, RootOnly
  <2>2. files' = [files EXCEPT !.root = [TargetContent(a) EXCEPT !.accts[a] = NewEntry(a)]]
    BY <1>2, <2>1 DEF MoveCommits, Commit
  <2>3. files'.split = files.split /\ files'.raw = files.raw
    BY <1>t, <2>2 DEF Files
  <2>4. /\ mover'[a].read = NoFiles /\ sm' = sm
        /\ \A b \in Accounts : b # a => mover'[b] = mover[b]
    BY <1>2, <1>t DEF MoveCommits, MoverState
  <2> QED
    BY <1>1, <1>n, <1>t, <2>3, <2>4 DEF InOneFile
<1>3. CASE MoveCommitsRaw(a)
  <2>1. files' = Merged(mover[a].read)
    BY <1>3 DEF MoveCommitsRaw, Commit
  <2>2. InOneFile(files')
    BY <1>t, <2>1, MergedInOneFile
  <2>3. /\ mover'[a] = NotMoving /\ sm' = sm
        /\ \A b \in Accounts : b # a => mover'[b] = mover[b]
    BY <1>3, <1>t DEF MoveCommitsRaw
  <2> QED
    BY <1>1, <1>n, <2>2, <2>3
<1>4. CASE MoveFails(a)
  <2>1. /\ mover'[a] = NotMoving /\ sm' = sm /\ files' = files
        /\ \A b \in Accounts : b # a => mover'[b] = mover[b]
    BY <1>4, <1>t DEF MoveFails
  <2> QED
    BY <1>1, <1>n, <1>t, <2>1
<1>5. CASE MoveReadsRoot(a) \/ MoveMergesRoot(a) \/ MoveMergesSplit(a)
  <2>1. /\ mover'[a].read.raw = mover[a].read.raw
        /\ mover'[a].read.split \in {mover[a].read.split, files.split}
    <3>1. CASE MoveReadsRoot(a)
      BY <1>t, <3>1 DEF MoveReadsRoot, MoverState, Files
    <3>2. CASE MoveMergesRoot(a)
      BY <1>t, <3>2 DEF MoveMergesRoot, MoverState, Files
    <3>3. CASE MoveMergesSplit(a)
      BY <1>t, <3>3 DEF MoveMergesSplit, MoverState, Files
    <3> QED
      BY <1>5, <3>1, <3>2, <3>3
  <2>2. /\ sm' = sm /\ files' = files
        /\ \A b \in Accounts : b # a => mover'[b] = mover[b]
    BY <1>5, <1>t DEF MoveReadsRoot, MoveMergesRoot, MoveMergesSplit
  <2> QED
    BY <1>1, <1>t, <2>1, <2>2 DEF InOneFile
<1>6. CASE MoveReadsRaw(a)
  <2>1. mover'[a].read.raw = files.raw /\ mover'[a].read.split = mover[a].read.split
    BY <1>6, <1>t DEF MoveReadsRaw, MoverState, Files
  <2>2. /\ sm' = sm /\ files' = files
        /\ \A b \in Accounts : b # a => mover'[b] = mover[b]
    BY <1>6, <1>t DEF MoveReadsRaw
  <2> QED
    BY <1>1, <1>t, <2>1, <2>2 DEF InOneFile
<1>7. CASE UserMovesAccount(a)
  <2>1. /\ mover'[a].read = mover[a].read /\ sm' = sm /\ files' = files
        /\ \A b \in Accounts : b # a => mover'[b] = mover[b]
    BY <1>7, <1>t DEF UserMovesAccount, MoverState
  <2> QED
    BY <1>1, <1>t, <2>1
<1> QED
  BY <1>2, <1>3, <1>4, <1>5, <1>6, <1>7 DEF MoveStep

\* The invariant holds in every reachable state.
LEMMA RootCorrect ==
    ASSUME Layout = "root"
    PROVE  Spec => []RootInv
<1>1. Init => RootInv
  <2> SUFFICES ASSUME Init PROVE RootInv
    OBVIOUS
  <2>1. /\ files.split = NoContent /\ files.raw = InitialContent
        /\ sm.read = NoFiles /\ sm.pc = "idle"
        /\ \A a \in Accounts : mover[a].read = NoFiles
    BY DEF Init, Idle, NotMoving
  <2>2. InOneFile(NoFiles) /\ NoAccounts(NoContent)
    BY InitialTypes DEF NoFiles, InOneFile, NoAccounts, RootOnly
  <2>3. RootOnly(InitialContent)
    BY InitialTypes DEF RootOnly
  <2> QED
    BY <2>1, <2>2, <2>3, TypeInit DEF RootInv, InOneFile
<1>2. RootInv /\ [Next]_vars => RootInv'
  <2> SUFFICES ASSUME RootInv, [Next]_vars PROVE RootInv'
    OBVIOUS
  <2>1. TypeInv'
    BY TypeNext DEF RootInv
  <2>2. CASE ExecutionStep
    <3>1. /\ InOneFile(files') /\ InOneFile(sm'.read) /\ mover' = mover
          /\ sm'.pc \in {"list", "update"} => sm'.read.raw.accts = sm'.read.root.accts
      BY <2>2, ExecutionInOneFile
    <3> QED
      BY <2>1, <3>1 DEF RootInv, InOneFile, NoAccounts, RootOnly
  <2>3. ASSUME NEW a \in Accounts, UserMovesAccount(a) \/ MoveStep(a)
        PROVE  RootInv'
    <3>1. /\ InOneFile(files') /\ sm' = sm
          /\ \A b \in Accounts : InOneFile(mover'[b].read)
      BY <2>3, MoverInOneFile
    <3> QED
      BY <2>1, <3>1 DEF RootInv, InOneFile, NoAccounts, RootOnly
  <2>4. ASSUME NEW e \in Edits, UserEdits(e)
        PROVE  RootInv'
    <3>1. /\ files' = [files EXCEPT ![EditFile[e]].edits = @ \cup {e}]
          /\ UNCHANGED <<sm, mover>> /\ files \in Files
          /\ files.root \in Content /\ files.split \in Content
          /\ EditFile[e] \in Sources
      BY <2>4, RepoAssumption DEF UserEdits, Commit, RootInv, TypeInv, TypeOK, Files
    <3>2. files'.raw = files.raw /\ files'.split.accts = files.split.accts
      <4>1. CASE EditFile[e] = "root"
        <5>1. files' = [files EXCEPT !.root = [files.root EXCEPT !.edits = @ \cup {e}]]
          BY <3>1, <4>1
        <5> QED
          BY <3>1, <5>1 DEF Files
      <4>2. CASE EditFile[e] = "split"
        <5>1. files' = [files EXCEPT !.split = [files.split EXCEPT !.edits = @ \cup {e}]]
          BY <3>1, <4>2
        <5> QED
          BY <3>1, <5>1 DEF Files, Content
      <4> QED
        BY <3>1, <4>1, <4>2 DEF Sources
    <3> QED
      BY <2>1, <3>1, <3>2 DEF RootInv, InOneFile, NoAccounts, RootOnly
  <2>5. CASE UNCHANGED vars \/ (\E a \in Accounts : UserRenamesAccount(a))
    BY <2>1, <2>5 DEF vars, UserRenamesAccount, RootInv, InOneFile, NoAccounts, RootOnly
  <2> QED
    BY <2>2, <2>3, <2>4, <2>5 DEF Next
<1> QED
  BY <1>1, <1>2, PTL DEF Spec

\* With the accounts in the root file, every name that ouValidation found changed is in
\* the sources when it ends, however users, renames and the Lambda interleave with it.
THEOREM RenamesReach ==
    ASSUME Layout = "root"
    PROVE  Spec => RenamesReachSources
<1> DEFINE Reach == UpdateConfig => \A a \in Renamed :
                       Merge(files'.root, files'.split).accts[a].name = sm.names[a]
<1>1. RootInv /\ RootInv' => Reach
  <2> SUFFICES ASSUME RootInv, RootInv', UpdateConfig, NEW a \in Renamed
               PROVE  Merge(files'.root, files'.split).accts[a].name = sm.names[a]
    OBVIOUS
  <2>1. sm.pc = "update" /\ a \in Accounts
    BY DEF UpdateConfig, Renamed
  <2>2. files'.root = Rename(sm.read.root, Renamed)
    BY <2>1, RenamesInOneFile DEF UpdateConfig, Commit
  <2>3. /\ files'.root \in Content /\ files'.split \in Content
        /\ files'.split.accts[a] = Absent
    BY <2>1 DEF RootInv, TypeInv, TypeOK, Files, InOneFile, NoAccounts
  <2>4. Merge(files'.root, files'.split).accts[a] = files'.root.accts[a]
    BY <2>1, <2>3, MergeType
  <2> QED
    BY <2>1, <2>2, <2>4, RenamesInOneFile
<1> QED
  BY <1>1, RootCorrect, PTL DEF RenamesReachSources

\* Nor does it ever look for a renamed account in the wrong file.
THEOREM EntriesAreFound ==
    ASSUME Layout = "root"
    PROVE  Spec => EntriesFound
<1>1. RootInv => ~ UpdateCrashes
  BY RenamesInOneFile DEF UpdateCrashes
<1> QED
  BY <1>1, RootCorrect, PTL DEF EntriesFound

=============================================================================
