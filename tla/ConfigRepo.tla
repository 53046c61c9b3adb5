------------------------------ MODULE ConfigRepo ------------------------------
(***************************************************************************)
(* The configuration repository (CodeCommit) and its writers.              *)
(*                                                                         *)
(* The configuration is a root file that may load further files.  The      *)
(* accelerator works on `raw/config.json`, the merge of all of them, which *)
(* it keeps in the same branch.  CodeCommit makes a commit atomic and      *)
(* refuses one whose parent is not the head of the branch.                 *)
(*                                                                         *)
(* Four kinds of writers do not know of each other:                        *)
(*   - users, who edit root and loaded files;                              *)
(*   - getOrCreateConfig, which merges the sources and commits the result; *)
(*   - ouValidation, which writes into root, loaded and raw files what was *)
(*     renamed in AWS Organizations since the last execution;              *)
(*   - the MoveAccount event Lambda, which adds the account to the         *)
(*     sources, then merges them, with one commit each.                    *)
(*                                                                         *)
(* An account's entry is its name and its `src-filename`; what else users  *)
(* configure is a set of edits.  One loaded file stands for all of them.   *)
(* Renamed OUs take the same way as renamed accounts and are left out, and *)
(* so are e-mail changes, suspended and removed accounts, and a loaded     *)
(* file that grows beyond 2000 lines.                                      *)
(***************************************************************************)
EXTENDS Naturals

CONSTANTS
    Accounts,    \* accounts of the organization
    Initial,     \* those the installation manages already
    Edits,       \* edits users may commit
    EditFile,    \* the file an edit is made in
    Layout,      \* the file that holds the accounts: "root" or "split"
    Absent,      \* no entry
    MaxRenames,  \* bound: renames per account
    MaxCommits   \* bound: commits

Sources == {"root", "split"}

ASSUME RepoAssumption ==
    /\ Initial \subseteq Accounts
    /\ EditFile \in [Edits -> Sources]
    /\ Layout \in Sources
    /\ MaxRenames \in Nat
    /\ MaxCommits \in Nat
    /\ Absent \notin [name : 0..MaxRenames, src : Sources]

Names == 0..MaxRenames
Entry == [name : Names, src : Sources]
Listing == [Accounts -> Entry \cup {Absent}]
Content == [edits : SUBSET Edits, accts : Listing]
Files == [root : Content, split : Content, raw : Content]

VARIABLES
    files,   \* the head of the branch
    head,    \* its commit
    name,    \* AWS Organizations: the name of each account
    table,   \* the parameters table: the name each account was listed with
    sm,      \* the execution of the main state machine
    mover,   \* the MoveAccount Lambda, per account
    acked,   \* history: edits users committed
    added    \* history: accounts the MoveAccount Lambda committed

vars == <<files, head, name, table, sm, mover, acked, added>>

\* `parent` is the commit an actor works from, `read` what it has read.
ExecutionState ==
    [pc : {"idle", "readRoot", "readSplit", "commit", "list", "update", "loadOrg", "loadAccounts"},
     parent : 0..MaxCommits, read : Files, names : [Accounts -> Names]]

MoverState ==
    [pc : {"idle", "readRoot", "readRaw", "commit", "mergeRoot", "mergeSplit", "commitRaw"},
     parent : 0..MaxCommits, read : Files, name : Names]

TypeOK ==
    /\ files \in Files
    /\ head \in 0..MaxCommits
    /\ name \in [Accounts -> Names]
    /\ table \in [Accounts -> Names \cup {Absent}]
    /\ sm \in ExecutionState
    /\ mover \in [Accounts -> MoverState]
    /\ acked \subseteq Edits
    /\ added \subseteq Accounts

\* RawConfig.load: what is loaded overrides what is there.
Merge(root, split) ==
    [edits |-> root.edits \cup split.edits,
     accts |-> [a \in Accounts |->
                  IF split.accts[a] # Absent THEN split.accts[a] ELSE root.accts[a]]]

NoContent == [edits |-> {}, accts |-> [a \in Accounts |-> Absent]]
NoFiles == [root |-> NoContent, split |-> NoContent, raw |-> NoContent]

InitialContent ==
    [edits |-> {},
     accts |-> [a \in Accounts |->
                  IF a \in Initial THEN [name |-> 0, src |-> Layout] ELSE Absent]]

Idle == [pc |-> "idle", parent |-> 0, read |-> NoFiles, names |-> [a \in Accounts |-> 0]]
NotMoving == [pc |-> "idle", parent |-> 0, read |-> NoFiles, name |-> 0]

Init ==
    /\ files = [root  |-> IF Layout = "root" THEN InitialContent ELSE NoContent,
                split |-> IF Layout = "split" THEN InitialContent ELSE NoContent,
                raw   |-> InitialContent]
    /\ head = 0
    /\ name = [a \in Accounts |-> 0]
    /\ table = [a \in Accounts |-> IF a \in Initial THEN 0 ELSE Absent]
    /\ sm = Idle
    /\ mover = [a \in Accounts |-> NotMoving]
    /\ acked = {}
    /\ added = {}

\* Mutant: the parent is not the head any more, and the commit succeeds.
CommitUnchecked(parent, new) ==
    /\ parent <= head
    /\ files' = new
    /\ IF new = files THEN head' = head
                      ELSE head < MaxCommits /\ head' = head + 1

\* CodeCommit: a commit on `parent` succeeds only while that is the head.  One
\* that changes nothing is refused with NoChangeException, which every caller
\* takes for success.
Commit(parent, new) ==
    /\ head = parent
    /\ files' = new
    /\ IF new = files THEN head' = head
                      ELSE head < MaxCommits /\ head' = head + 1

-----------------------------------------------------------------------------
(* getOrCreateConfig *)

Begin ==
    /\ sm.pc = "idle"
    /\ sm' = [sm EXCEPT !.pc = "readRoot", !.parent = head]
    /\ UNCHANGED <<files, head, name, table, mover, acked, added>>

\* prepare reads file by file, each at the head of the branch at that time.
ReadRoot ==
    /\ sm.pc = "readRoot"
    /\ sm' = [sm EXCEPT !.pc = "readSplit", !.read.root = files.root]
    /\ UNCHANGED <<files, head, name, table, mover, acked, added>>

ReadSplit ==
    /\ sm.pc = "readSplit"
    /\ sm' = [sm EXCEPT !.pc = "commit", !.read.split = files.split]
    /\ UNCHANGED <<files, head, name, table, mover, acked, added>>

\* Every file that was read is part of the commit.
Merged(read) == [read EXCEPT !.raw = Merge(read.root, read.split)]

\* Mutant: the commit names the head of the branch as its parent.
CommitConfigOnHead ==
    /\ sm.pc = "commit"
    /\ Commit(head, Merged(sm.read))
    /\ sm' = [sm EXCEPT !.pc = "list", !.parent = head', !.read = files']
    /\ UNCHANGED <<name, table, mover, acked, added>>

CommitConfig ==
    /\ sm.pc = "commit"
    /\ Commit(sm.parent, Merged(sm.read))
    /\ sm' = [sm EXCEPT !.pc = "list", !.parent = head', !.read = files']
    /\ UNCHANGED <<name, table, mover, acked, added>>

-----------------------------------------------------------------------------
(* ouValidation, loadOrganizationConfiguration and loadAccounts *)

\* The files are those of the commit above; the accounts are listed now.
ListAccounts ==
    /\ sm.pc = "list"
    /\ sm' = [sm EXCEPT !.pc = "update", !.names = name]
    /\ UNCHANGED <<files, head, name, table, mover, acked, added>>

\* Accounts whose name is not the one they were listed with.
Renamed == {a \in Accounts : /\ table[a] \notin {Absent, sm.names[a]}
                             /\ sm.read.raw.accts[a] # Absent}

RenamedIn(file) == {a \in Renamed : sm.read.raw.accts[a].src = file}

Rename(content, as) ==
    [content EXCEPT !.accts = [a \in Accounts |->
        IF a \in as THEN [name |-> sm.names[a], src |-> @[a].src] ELSE @[a]]]

\* Accounts that the root file is wrongly said to hold.
Misplaced == {a \in RenamedIn("root") : sm.read.root.accts[a] = Absent}

\* Mutant: the root file is committed as it was read.
UpdateConfigRawOnly ==
    /\ sm.pc = "update"
    /\ Commit(sm.parent, [sm.read EXCEPT !.raw = Rename(@, Renamed)])
    /\ sm' = [sm EXCEPT !.pc = "loadOrg", !.parent = head', !.read = files']
    /\ UNCHANGED <<name, table, mover, acked, added>>

\* The root file is updated before the commit.  The callbacks that update loaded
\* files are not awaited: they read their file first, so their changes are part
\* of the commit only if the call is still being put together when they end.
UpdateConfig ==
    /\ sm.pc = "update"
    /\ Misplaced = {}
    /\ \E late \in BOOLEAN :
         Commit(sm.parent,
                [root  |-> Rename(sm.read.root, RenamedIn("root")),
                 split |-> IF late THEN sm.read.split
                           ELSE Rename(sm.read.split, RenamedIn("split")),
                 raw   |-> Rename(sm.read.raw, Renamed)])
    /\ sm' = [sm EXCEPT !.pc = "loadOrg", !.parent = head', !.read = files',
                        !.names = [a \in Accounts |-> 0]]
    /\ UNCHANGED <<name, table, mover, acked, added>>

\* The callback for the root file throws at the first entry it does not find.
\* Nobody handles the rejection, and the Lambda's process ends, with the commit
\* on its way or not.
UpdateCrashes ==
    /\ sm.pc = "update"
    /\ Misplaced # {}
    /\ \/ UNCHANGED <<files, head>>
       \/ \E done \in SUBSET (RenamedIn("root") \ Misplaced) :
            Commit(sm.parent, [sm.read EXCEPT !.root = Rename(@, done),
                                              !.raw = Rename(@, Renamed)])
    /\ sm' = Idle
    /\ UNCHANGED <<name, table, mover, acked, added>>

\* ParentCommitIdOutdatedException ends the execution.
CommitRefused ==
    /\ sm.pc \in {"commit", "update"}
    /\ head # sm.parent
    /\ sm' = Idle
    /\ UNCHANGED <<files, head, name, table, mover, acked, added>>

\* The configuration must have the accounts' names.
NamesMatch ==
    \A a \in Accounts : sm.read.raw.accts[a] # Absent => sm.read.raw.accts[a].name = name[a]

LoadOrganizationConfiguration ==
    /\ sm.pc = "loadOrg"
    /\ NamesMatch
    /\ sm' = [sm EXCEPT !.pc = "loadAccounts"]
    /\ UNCHANGED <<files, head, name, table, mover, acked, added>>

\* The listing has the names the accounts have now.  What follows does not
\* write to the repository.
LoadAccounts ==
    /\ sm.pc = "loadAccounts"
    /\ table' = [a \in Accounts |-> IF sm.read.raw.accts[a] # Absent THEN name[a] ELSE Absent]
    /\ sm' = Idle
    /\ UNCHANGED <<files, head, name, mover, acked, added>>

\* A step fails or the execution is stopped.
ExecutionFails ==
    /\ sm.pc # "idle"
    /\ sm' = Idle
    /\ UNCHANGED <<files, head, name, table, mover, acked, added>>

-----------------------------------------------------------------------------
(* The MoveAccount event Lambda *)

At(a, step) == mover[a].pc = step

\* A user moves an account into an OU, or between OUs of one top-level OU.
UserMovesAccount(a) ==
    /\ At(a, "idle")
    /\ mover' = [mover EXCEPT ![a] = [@ EXCEPT !.pc = "readRoot", !.name = name[a]]]
    /\ UNCHANGED <<files, head, name, table, sm, acked, added>>

\* updateConfig reads the root file, ...
MoveReadsRoot(a) ==
    /\ At(a, "readRoot")
    /\ mover' = [mover EXCEPT ![a] = [@ EXCEPT !.pc = "readRaw", !.read.root = files.root]]
    /\ UNCHANGED <<files, head, name, table, sm, acked, added>>

\* ... then the raw file, whose commit becomes the parent.
MoveReadsRaw(a) ==
    /\ At(a, "readRaw")
    /\ mover' = [mover EXCEPT ![a] = [@ EXCEPT !.pc = "commit", !.parent = head,
                                               !.read.raw = files.raw]]
    /\ UNCHANGED <<files, head, name, table, sm, acked, added>>

\* Mutant: new accounts always go in a loaded file.
TargetFileSplit(a) ==
    LET entry == mover[a].read.raw.accts[a]
    IN  IF entry = Absent THEN "split" ELSE entry.src

\* The entry in the raw file names the file to change; a new account goes where
\* the layout says.  A loaded file is read after the raw file.
TargetFile(a) ==
    LET entry == mover[a].read.raw.accts[a]
    IN  IF entry = Absent THEN Layout ELSE entry.src

TargetContent(a) == IF TargetFile(a) = "root" THEN mover[a].read.root ELSE files.split

\* Mutant: a new entry does not get the account's name.
NewEntryNameless(a) ==
    IF mover[a].read.raw.accts[a] = Absent
      THEN [src |-> "root"]
      ELSE [name |-> mover[a].name, src |-> TargetContent(a).accts[a].src]

\* The entry of a new account has the root file as its src-filename, whichever
\* file it is put in.
NewEntry(a) ==
    IF mover[a].read.raw.accts[a] = Absent
      THEN [name |-> mover[a].name, src |-> "root"]
      ELSE [name |-> mover[a].name, src |-> TargetContent(a).accts[a].src]

\* An account that is known but not in its file is an error (MoveFails).
EntryFound(a) == mover[a].read.raw.accts[a] = Absent \/ TargetContent(a).accts[a] # Absent

MoveCommits(a) ==
    /\ At(a, "commit")
    /\ EntryFound(a)
    /\ Commit(mover[a].parent,
              [files EXCEPT ![TargetFile(a)] =
                 [TargetContent(a) EXCEPT !.accts[a] = NewEntry(a)]])
    /\ mover' = [mover EXCEPT ![a] = [@ EXCEPT !.pc = "mergeRoot", !.parent = head',
                                               !.read = NoFiles]]
    /\ added' = added \cup {a}
    /\ UNCHANGED <<name, table, sm, acked>>

MoveMergesRoot(a) ==
    /\ At(a, "mergeRoot")
    /\ mover' = [mover EXCEPT ![a] = [@ EXCEPT !.pc = "mergeSplit", !.read.root = files.root]]
    /\ UNCHANGED <<files, head, name, table, sm, acked, added>>

MoveMergesSplit(a) ==
    /\ At(a, "mergeSplit")
    /\ mover' = [mover EXCEPT ![a] = [@ EXCEPT !.pc = "commitRaw", !.read.split = files.split]]
    /\ UNCHANGED <<files, head, name, table, sm, acked, added>>

\* Mutant: the commit names the head of the branch as its parent.
MoveCommitsRawOnHead(a) ==
    /\ At(a, "commitRaw")
    /\ Commit(head, Merged(mover[a].read))
    /\ mover' = [mover EXCEPT ![a] = NotMoving]
    /\ UNCHANGED <<name, table, sm, acked, added>>

\* Then an execution is started; see Executions.
MoveCommitsRaw(a) ==
    /\ At(a, "commitRaw")
    /\ Commit(mover[a].parent, Merged(mover[a].read))
    /\ mover' = [mover EXCEPT ![a] = NotMoving]
    /\ UNCHANGED <<name, table, sm, acked, added>>

\* A call fails.  Lambda invokes the handler twice more, from its start: the same
\* as another UserMovesAccount.
MoveFails(a) ==
    /\ ~At(a, "idle")
    /\ mover' = [mover EXCEPT ![a] = NotMoving]
    /\ UNCHANGED <<files, head, name, table, sm, acked, added>>

-----------------------------------------------------------------------------
(* Users *)

UserEdits(e) ==
    /\ e \notin acked
    /\ Commit(head, [files EXCEPT ![EditFile[e]].edits = @ \cup {e}])
    /\ acked' = acked \cup {e}
    /\ UNCHANGED <<name, table, sm, mover, added>>

UserRenamesAccount(a) ==
    /\ name[a] < MaxRenames
    /\ name' = [name EXCEPT ![a] = @ + 1]
    /\ UNCHANGED <<files, head, table, sm, mover, acked, added>>

-----------------------------------------------------------------------------
ExecutionStep ==
    \/ Begin \/ ReadRoot \/ ReadSplit \/ CommitConfig
    \/ ListAccounts \/ UpdateConfig \/ UpdateCrashes \/ CommitRefused
    \/ LoadOrganizationConfiguration \/ LoadAccounts \/ ExecutionFails

MoveStep(a) ==
    \/ MoveReadsRoot(a) \/ MoveReadsRaw(a) \/ MoveCommits(a)
    \/ MoveMergesRoot(a) \/ MoveMergesSplit(a) \/ MoveCommitsRaw(a) \/ MoveFails(a)

Next ==
    \/ ExecutionStep
    \/ \E a \in Accounts : UserMovesAccount(a) \/ MoveStep(a) \/ UserRenamesAccount(a)
    \/ \E e \in Edits : UserEdits(e)

Spec == Init /\ [][Next]_vars

-----------------------------------------------------------------------------
(* Properties *)

\* Merging takes the sources from one commit, however the reads were spread over
\* other commits, and writing them back changes none of them.
MergeIsConsistent ==
    [][CommitConfig \/ (\E a \in Accounts : MoveCommitsRaw(a))
         => /\ files'.raw = Merge(files.root, files.split)
            /\ files'.root = files.root /\ files'.split = files.split]_vars

\* No writer undoes what a user committed to the sources.
EditsKept == \A e \in acked : e \in files[EditFile[e]].edits

\* Nor does one drop an account that the MoveAccount Lambda has committed.
AccountsKept == \A a \in added : Merge(files.root, files.split).accts[a] # Absent

\* When ouValidation ends, the sources have every name that it found changed.
RenamesReachSources ==
    [][UpdateConfig => \A a \in Renamed :
          Merge(files'.root, files'.split).accts[a].name = sm.names[a]]_vars

\* Between executions, a listed account whose name is not the one in the sources
\* is one that the next ouValidation finds renamed.
RenameIsFound ==
    sm.pc = "idle" =>
        \A a \in Accounts :
            LET entry == Merge(files.root, files.split).accts[a]
            IN  table[a] # Absent /\ entry # Absent /\ entry.name # name[a] => table[a] # name[a]

\* ouValidation finds every renamed account in its file.
EntriesFound == [][~UpdateCrashes]_vars

=============================================================================
