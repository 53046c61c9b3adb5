-------------------------- MODULE AccountOnboarding --------------------------
(***************************************************************************)
(* How an AWS account enters the organization: quarantined on creation,    *)
(* guardrailed by an execution of the main state machine, released by the  *)
(* last step of that execution.                                            *)
(*                                                                         *)
(* Actors:                                                                 *)
(*   - the main state machine (at most one execution at a time), whose     *)
(*     steps are separate Lambda calls and sub state machines;             *)
(*   - the CreateAccount event state machine and the MoveAccount event     *)
(*     Lambda, which react to what users do in AWS Organizations;          *)
(*   - users of AWS Organizations and the operator of the accelerator.     *)
(*                                                                         *)
(* They share the accounts and attachments kept by AWS Organizations, the  *)
(* configuration repository, the accounts listing in the parameters table  *)
(* and the secret with the commit of the last successful execution.        *)
(*                                                                         *)
(* The baseline is ORGANIZATIONS.  OUs that are ignored, suspended         *)
(* accounts and accounts leaving the organization are left out.            *)
(***************************************************************************)
EXTENDS Naturals, FiniteSets

CONSTANTS
    Accounts,   \* every account that may come to exist
    Mandatory,  \* those under mandatory-account-configs
    OUs,        \* organizational units of the configuration
    OuOf,       \* the OU an account belongs in
    OwnScps,    \* accounts whose configuration has the `scps` key
    Inputs,     \* the inputs the operator may start an execution with
    MaxRuns     \* bound: executions started

Scopes == {"FULL", "NEW-ACCOUNTS", "GLOBAL-OPTIONS", "ACCOUNT", "OU"}

\* targetAccounts and targetOus in one field; "NEW" and "ALL" are members.
\* override is overrideComparison.
Input == [scope    : Scopes,
          targets  : SUBSET (Accounts \cup OUs \cup {"NEW", "ALL"}),
          override : BOOLEAN]

NewAccounts == [scope |-> "NEW-ACCOUNTS", targets |-> {}, override |-> FALSE]

ASSUME OnboardingAssumption ==
    /\ Mandatory \subseteq Accounts
    /\ OwnScps \subseteq Accounts
    /\ OuOf \in [Accounts -> OUs]
    /\ OUs \cap {"none", "root"} = {}
    /\ Accounts \cap {"NEW", "ALL"} = {}
    /\ OUs \cap {"NEW", "ALL"} = {}
    /\ Inputs \subseteq Input
    /\ MaxRuns \in Nat

VARIABLES
    \* AWS Organizations
    loc,        \* the parent of each account; "none" before it exists
    qno,        \* accounts with the Quarantine-New-Object SCP attached
    request,    \* the accelerator's last CreateAccount request for each account
    \* what the accelerator keeps
    config,     \* accounts in the configuration at the head of the branch
    table,      \* accounts in the parameters table
    committed,  \* accounts in the configuration of the stored commit
    \* actors
    sm,         \* the execution of the main state machine
    created,    \* CreateAccount event state machine, per account
    moved,      \* MoveAccount event Lambda, per account
    runs,       \* executions started so far
    \* history
    guarded,    \* accounts every deployment phase was applied to
    vended,     \* accounts the main state machine asked AWS to create
    cut,        \* accounts an execution gave up on: cut short or creation skipped
    waived      \* new accounts left out of a scope that overrideComparison admitted

organization == <<loc, qno, request>>
stores == <<config, table, committed>>
history == <<guarded, vended, cut, waived>>
vars == <<organization, stores, sm, created, moved, runs, history>>

Steps ==
    {"idle", "compare", "listRoot", "listTargets", "attach", "loadOrg", "create", "verify",
     "move", "addScp", "loadAccounts", "applyScps", "deploy", "storeCommit", "detachList", "detach"}

Execution ==
    [pc      : Steps,
     input   : Input,
     cfg     : SUBSET Accounts,  \* the configuration at the execution's commit
     todo    : SUBSET Accounts,  \* a list read earlier, being worked off
     listed  : SUBSET Accounts,  \* history: the accounts OU validation listed
     current : SUBSET Accounts,  \* the account being created, if any
     inScope : SUBSET Accounts]  \* output of Load Accounts

Idle == [pc |-> "idle", input |-> NewAccounts, cfg |-> {}, todo |-> {}, listed |-> {},
         current |-> {}, inScope |-> {}]

TypeOK ==
    /\ loc \in [Accounts -> OUs \cup {"none", "root"}]
    /\ qno \subseteq Accounts
    /\ request \in [Accounts -> {"none", "inProgress", "failed"}]
    /\ config \subseteq Accounts
    /\ table \subseteq Accounts
    /\ committed \subseteq Accounts
    /\ sm \in Execution
    /\ created \in [Accounts -> {"none", "pending", "done"}]
    /\ moved \in [Accounts -> {"none", "commit", "start"}]
    /\ runs \in 0..MaxRuns
    /\ guarded \subseteq Accounts
    /\ vended \subseteq Accounts
    /\ cut \subseteq Accounts
    /\ waived \subseteq Accounts

\* An installation that works: the mandatory accounts are deployed.
Init ==
    /\ loc = [a \in Accounts |-> IF a \in Mandatory THEN OuOf[a] ELSE "none"]
    /\ qno = {}
    /\ request = [a \in Accounts |-> "none"]
    /\ config = Mandatory
    /\ table = Mandatory
    /\ committed = Mandatory
    /\ sm = Idle
    /\ created = [a \in Accounts |-> "none"]
    /\ moved = [a \in Accounts |-> "none"]
    /\ runs = 0
    /\ guarded = Mandatory
    /\ vended = {}
    /\ cut = {}
    /\ waived = {}

Exists(a) == loc[a] # "none"

-----------------------------------------------------------------------------
(* The main state machine: from its start to the accounts listing *)

At(step) == sm.pc = step

\* getOrCreateConfig ends an execution that is not alone; see Executions.
StartRun(input) ==
    /\ At("idle")
    /\ runs < MaxRuns
    /\ runs' = runs + 1
    /\ sm' = [Idle EXCEPT !.pc = "compare", !.input = input, !.cfg = config]

\* scopeValidation, for the only difference this model has between two
\* configurations: accounts that were added.
ScopeAllows(input, added) ==
    \/ added = {}
    \/ input.scope \in {"FULL", "NEW-ACCOUNTS"}
    \/ input.scope = "ACCOUNT" /\ input.targets \cap {"NEW", "ALL"} # {}

\* With overrideComparison nothing is compared.  (Nor is it before a first commit
\* is stored, which Init is past.)
CompareConfigurations ==
    /\ At("compare")
    /\ sm.input.override \/ ScopeAllows(sm.input, sm.cfg \ committed)
    /\ sm' = [sm EXCEPT !.pc = "listRoot"]
    /\ UNCHANGED <<organization, stores, created, moved, runs, history>>

\* ouValidation lists the accounts under the root, ...
OuListRoot ==
    /\ At("listRoot")
    /\ LET root == {a \in Accounts : loc[a] = "root"}
       IN  sm' = [sm EXCEPT !.pc = "listTargets", !.todo = root, !.listed = root]
    /\ UNCHANGED <<organization, stores, created, moved, runs, history>>

\* ... later the targets of the quarantine SCP, ...
OuListTargets ==
    /\ At("listTargets")
    /\ sm' = [sm EXCEPT !.pc = "attach", !.todo = @ \ qno]
    /\ UNCHANGED <<organization, stores, created, moved, runs, history>>

\* ... and attaches the SCP to the listed accounts that lacked it then.  If an
\* account has it by now, AWS answers DuplicatePolicyAttachmentException, which
\* nothing catches: the execution fails (RunFails).
OuAttach ==
    /\ At("attach")
    /\ \E a \in sm.todo :
         /\ a \notin qno
         /\ qno' = qno \cup {a}
         /\ sm' = [sm EXCEPT !.todo = @ \ {a}]
    /\ UNCHANGED <<loc, request, stores, created, moved, runs, history>>

\* Mutant: the loop ends at the first duplicate.
OuValidationDoneEarly ==
    /\ At("attach")
    /\ sm.todo = {} \/ sm.todo \cap qno # {}
    /\ sm' = [sm EXCEPT !.pc = "loadOrg", !.listed = {}]
    /\ UNCHANGED <<organization, stores, created, moved, runs, history>>

OuValidationDone ==
    /\ At("attach")
    /\ sm.todo = {}
    /\ sm' = [sm EXCEPT !.pc = "loadOrg", !.listed = {}]
    /\ UNCHANGED <<organization, stores, created, moved, runs, history>>

\* The checks of Load Organization Configuration on accounts: a configured
\* account that exists is in its OU, one that does not exist was never listed
\* in the table, and no OU holds more accounts than the configuration gives it.
ConfigurationErrors ==
    \/ \E a \in sm.cfg : Exists(a) /\ loc[a] # OuOf[a]
    \/ \E a \in sm.cfg : ~Exists(a) /\ a \in table
    \/ \E ou \in OUs : Cardinality({a \in Accounts : loc[a] = ou})
                        > Cardinality({a \in sm.cfg : OuOf[a] = ou})

LoadOrganizationConfiguration ==
    /\ At("loadOrg")
    /\ ~ConfigurationErrors
    /\ sm' = [sm EXCEPT !.pc = "create", !.todo = {a \in sm.cfg : ~Exists(a)}]
    /\ UNCHANGED <<organization, stores, created, moved, runs, history>>

\* The sub state machine of one account: ask AWS to create it, ...
CreateAccount ==
    /\ At("create")
    /\ \E a \in sm.todo :
         /\ ~Exists(a) /\ request[a] # "inProgress"
         /\ request' = [request EXCEPT ![a] = "inProgress"]
         /\ vended' = vended \cup {a}
         /\ sm' = [sm EXCEPT !.pc = "verify", !.current = {a}, !.todo = @ \ {a}]
    /\ UNCHANGED <<loc, qno, stores, created, moved, runs, guarded, cut, waived>>

\* (EMAIL_ALREADY_EXISTS, because a user created it or the request of an earlier
\* execution did or will: the account is skipped.  So is one that is not
\* mandatory if AWS's answer has no status.)
SkipCreation ==
    /\ At("create")
    /\ \E a \in sm.todo :
         /\ Exists(a) \/ request[a] = "inProgress" \/ a \notin Mandatory
         /\ sm' = [sm EXCEPT !.todo = @ \ {a}]
         /\ cut' = IF Exists(a) THEN cut ELSE cut \cup {a}
    /\ UNCHANGED <<organization, stores, created, moved, runs, guarded, vended, waived>>

\* ... poll the request until AWS is done with it, ...
VerifyCreation ==
    /\ At("verify")
    /\ \A a \in sm.current : request[a] = "none"
    /\ sm' = [sm EXCEPT !.pc = "move"]
    /\ UNCHANGED <<organization, stores, created, moved, runs, history>>

\* Mutant: the account's OU was not found among the organizational units.
MoveToNoOu ==
    /\ At("move")
    /\ \E a \in sm.current : loc[a] = "root" /\ loc' = [loc EXCEPT ![a] = "undefined"]
    /\ sm' = [sm EXCEPT !.pc = "addScp"]
    /\ UNCHANGED <<qno, request, stores, created, moved, runs, history>>

\* ... move from the root to its OU, which fails if it is not there, ...
MoveToOu ==
    /\ At("move")
    /\ \E a \in sm.current :
         /\ loc[a] = "root"
         /\ loc' = [loc EXCEPT ![a] = OuOf[a]]
    /\ sm' = [sm EXCEPT !.pc = "addScp"]
    /\ UNCHANGED <<qno, request, stores, created, moved, runs, history>>

\* Mutant: the sub state machine ends after the move.
MoveThenDone ==
    /\ At("addScp")
    /\ sm' = [sm EXCEPT !.pc = "create", !.current = {}]
    /\ UNCHANGED <<organization, stores, created, moved, runs, history>>

\* ... and attach the quarantine SCP.  A duplicate is not caught here either.
AddQuarantineScp ==
    /\ At("addScp")
    /\ sm.current \cap qno = {}
    /\ qno' = qno \cup sm.current
    /\ sm' = [sm EXCEPT !.pc = "create", !.current = {}]
    /\ UNCHANGED <<loc, request, stores, created, moved, runs, history>>

CreateAccountsDone ==
    /\ At("create")
    /\ sm.todo = {}
    /\ sm' = [sm EXCEPT !.pc = "loadAccounts"]
    /\ UNCHANGED <<organization, stores, created, moved, runs, history>>

\* The accounts of the configuration that exist.
Listing == {a \in sm.cfg : Exists(a)}

\* Which of them the deployment covers.  An account is new if the previous
\* listing lacks it.  The code also accepts an account of the configuration step
\* with the same id, but that step returns accounts without an id only.
Covers(input, a) ==
    \/ a \in Mandatory
    \/ input.scope \in {"FULL", "GLOBAL-OPTIONS"}
    \/ input.scope = "NEW-ACCOUNTS" /\ a \notin table
    \/ input.scope = "ACCOUNT" /\ \/ "NEW" \in input.targets /\ a \notin table
                                  \/ {"ALL", a} \cap input.targets # {}
    \/ input.scope = "OU" /\ {"ALL", OuOf[a]} \cap input.targets # {}

\* Mutant: the new listing is stored before the old one is compared with.
LoadAccountsStoringFirst ==
    /\ At("loadAccounts")
    /\ table' = Listing
    /\ sm' = [sm EXCEPT !.pc = "applyScps",
                        !.inScope = {a \in Listing : a \in Mandatory \/ sm.input.scope = "FULL"}]
    /\ UNCHANGED <<organization, config, committed, created, moved, runs, history>>

LoadAccounts ==
    /\ At("loadAccounts")
    /\ Mandatory \cap sm.cfg \subseteq Listing
    /\ table' = Listing
    /\ sm' = [sm EXCEPT !.pc = "applyScps",
                        !.inScope = {a \in Listing : Covers(sm.input, a)}]
    /\ waived' = IF sm.input.override
                 THEN waived \cup {a \in Listing \ table : ~Covers(sm.input, a)}
                 ELSE waived
    /\ UNCHANGED <<organization, config, committed, created, moved, runs, guarded, vended, cut>>

-----------------------------------------------------------------------------
(* The main state machine: deployment and release *)

\* Add SCPs to Organization: an account whose configuration lists its SCPs gets
\* exactly those, so the quarantine SCP is detached with every other one.
AddScps ==
    /\ At("applyScps")
    /\ qno' = qno \ (table \cap OwnScps)
    /\ sm' = [sm EXCEPT !.pc = "deploy"]
    /\ UNCHANGED <<loc, request, stores, created, moved, runs, history>>

\* The deployment phases act on the accounts in scope.
DeployPhases ==
    /\ At("deploy")
    /\ guarded' = guarded \cup sm.inScope
    /\ sm' = [sm EXCEPT !.pc = "storeCommit"]
    /\ UNCHANGED <<organization, stores, created, moved, runs, vended, cut, waived>>

StoreCommitId ==
    /\ At("storeCommit")
    /\ committed' = sm.cfg
    /\ sm' = [sm EXCEPT !.pc = "detachList"]
    /\ UNCHANGED <<organization, config, table, created, moved, runs, history>>

\* Mutant: the accounts of the organization instead of those of the listing.
DetachListOfOrganization ==
    /\ At("detachList")
    /\ sm' = [sm EXCEPT !.pc = "detach", !.todo = {a \in Accounts : Exists(a)}]
    /\ UNCHANGED <<organization, stores, created, moved, runs, history>>

\* Detach Quarantine SCP reads the listing, then detaches account by account.
DetachList ==
    /\ At("detachList")
    /\ sm' = [sm EXCEPT !.pc = "detach", !.todo = table]
    /\ UNCHANGED <<organization, stores, created, moved, runs, history>>

\* PolicyNotAttachedException is caught.
DetachQuarantine ==
    /\ At("detach")
    /\ \E a \in sm.todo :
         /\ qno' = qno \ {a}
         /\ sm' = [sm EXCEPT !.todo = @ \ {a}]
    /\ UNCHANGED <<loc, request, stores, created, moved, runs, history>>

RunSucceeds ==
    /\ At("detach")
    /\ sm.todo = {}
    /\ sm' = Idle
    /\ UNCHANGED <<organization, stores, created, moved, runs, history>>

\* Accounts that an execution leaves behind half-way if it ends now.
Unfinished ==
    sm.current \cup
    CASE At("loadAccounts") -> Listing \ guarded
      [] sm.pc \in {"applyScps", "deploy"} -> sm.inScope \ guarded
      [] OTHER -> {}

\* Any step may fail, or the execution may be stopped: the Parallel's catch
\* notifies and fails.  Load Accounts may have rewritten part of the listing.
RunFails ==
    /\ ~At("idle")
    /\ IF At("loadAccounts")
         THEN \E kept \in SUBSET (table \cup Listing) : table' = kept
         ELSE UNCHANGED table
    /\ cut' = cut \cup Unfinished
    /\ sm' = Idle
    /\ UNCHANGED <<organization, config, committed, created, moved, runs, guarded, vended, waived>>

\* A request AWS refused has the state FAILED, which is none of those that the
\* sub state machine's choices name: the execution fails with it.
CreationFailed ==
    /\ \E a \in sm.current : At("verify") /\ request[a] = "failed"
    /\ sm' = Idle
    /\ cut' = cut \cup sm.current
    /\ UNCHANGED <<organization, stores, created, moved, runs, guarded, vended, waived>>

-----------------------------------------------------------------------------
(* AWS Organizations, users, the operator and the event handlers *)

AwsCreates(a) ==
    /\ request[a] = "inProgress"
    /\ request' = [request EXCEPT ![a] = "none"]
    /\ loc' = [loc EXCEPT ![a] = "root"]
    /\ UNCHANGED <<qno, stores, sm, created, moved, runs, history>>

\* (for instance ACCOUNT_LIMIT_EXCEEDED)
AwsRefuses(a) ==
    /\ request[a] = "inProgress"
    /\ request' = [request EXCEPT ![a] = "failed"]
    /\ UNCHANGED <<loc, qno, stores, sm, created, moved, runs, history>>

UserCreatesAccount(a) ==
    /\ ~Exists(a) /\ request[a] # "inProgress"
    /\ loc' = [loc EXCEPT ![a] = "root"]
    /\ created' = [created EXCEPT ![a] = "pending"]
    /\ UNCHANGED <<qno, request, stores, sm, moved, runs, history>>

\* CreateAccountEventTrigger: the duplicate is tolerated here.
EventAttachesScp(a) ==
    /\ created[a] = "pending"
    /\ qno' = qno \cup {a}
    /\ created' = [created EXCEPT ![a] = "done"]
    /\ UNCHANGED <<loc, request, stores, sm, moved, runs, history>>

UserMovesAccount(a) ==
    /\ loc[a] = "root"
    /\ loc' = [loc EXCEPT ![a] = OuOf[a]]
    /\ moved' = [moved EXCEPT ![a] = "commit"]
    /\ UNCHANGED <<qno, request, stores, sm, created, runs, history>>

\* The MoveAccount Lambda adds the account to the configuration, sleeps, ...
MoveEventCommits(a) ==
    /\ moved[a] = "commit"
    /\ config' = config \cup {a}
    /\ moved' = [moved EXCEPT ![a] = "start"]
    /\ UNCHANGED <<organization, table, committed, sm, created, runs, history>>

\* (its commit may be refused, and the Lambda then ends)
MoveEventFails(a) ==
    /\ moved[a] = "commit"
    /\ moved' = [moved EXCEPT ![a] = "none"]
    /\ UNCHANGED <<organization, stores, sm, created, runs, history>>

\* ... and starts an execution with scope NEW-ACCOUNTS unless one is running.
MoveEventStarts(a) ==
    /\ moved[a] = "start"
    /\ moved' = [moved EXCEPT ![a] = "none"]
    /\ StartRun(NewAccounts) \/ (~At("idle") /\ UNCHANGED <<sm, runs>>)
    /\ UNCHANGED <<organization, stores, created, history>>

OperatorAddsAccount(a) ==
    /\ a \notin config
    /\ config' = config \cup {a}
    /\ UNCHANGED <<organization, table, committed, sm, created, moved, runs, history>>

OperatorStarts ==
    /\ \E input \in Inputs : StartRun(input)
    /\ UNCHANGED <<organization, stores, created, moved, history>>

-----------------------------------------------------------------------------
OnboardStep ==
    \/ CompareConfigurations \/ OuListRoot \/ OuListTargets \/ OuAttach \/ OuValidationDone
    \/ LoadOrganizationConfiguration \/ CreateAccount \/ SkipCreation \/ VerifyCreation
    \/ MoveToOu \/ AddQuarantineScp \/ CreateAccountsDone \/ LoadAccounts

DeployStep ==
    \/ AddScps \/ DeployPhases \/ StoreCommitId \/ DetachList \/ DetachQuarantine \/ RunSucceeds

EventStep(a) ==
    EventAttachesScp(a) \/ MoveEventCommits(a) \/ MoveEventFails(a) \/ MoveEventStarts(a)

AwsStep(a) == AwsCreates(a) \/ AwsRefuses(a)

UserStep(a) == UserCreatesAccount(a) \/ UserMovesAccount(a) \/ OperatorAddsAccount(a)

Next ==
    \/ OnboardStep \/ DeployStep \/ CreationFailed \/ RunFails
    \/ OperatorStarts
    \/ \E a \in Accounts : AwsStep(a) \/ EventStep(a) \/ UserStep(a)

Spec == Init /\ [][Next]_vars

-----------------------------------------------------------------------------
(* Properties *)

\* The account's creation has come to the point where the SCP was attached.
Onboarded(a) == a \in vended \ sm.current \/ created[a] = "done"

\* A new account stays behind the quarantine SCP until the deployment phases
\* covered it.  Exempt are accounts whose configuration lists their SCPs, those
\* some execution gave up on, and those the operator left out by overriding the
\* comparison: the rest is safe whatever scopes the executions have and whatever
\* users do meanwhile.
QuarantinedUntilGuarded ==
    \A a \in Accounts \ (OwnScps \cup cut \cup waived) :
        Onboarded(a) => a \in qno \cup guarded

\* When OU validation is done, every account it listed is behind the quarantine
\* SCP, whoever attached it, unless a user moved it out of the root meanwhile.
RootIsQuarantined ==
    [][OuValidationDone => \A a \in sm.listed : loc[a] = "root" => a \in qno]_vars

\* An execution that succeeds leaves every account of the listing guarded, unless
\* some execution gave up on it or the operator overrode the comparison that
\* rejects a scope without it: no scope that was compared forgets one.
SuccessMeansGuarded == [][RunSucceeds => table \ (cut \cup waived) \subseteq guarded]_vars

\* Nothing but an execution that did everything up to there releases an account,
\* and the listing it releases from was written by that execution.
ReleaseFollowsDeployment ==
    [][\A a \in Accounts \ OwnScps :
          a \in qno /\ a \notin qno' => sm.pc = "detach" /\ a \in sm.cfg /\ committed = sm.cfg]_vars

\* The claims of the repository's documents that the code does not keep.

\* what-we-do-where.md, line 13: a Deny All SCP is applied to any newly created
\* account until it is successfully guardrailed.
DenyAllUntilGuardrailed ==
    [][\A a \in Accounts : a \in qno /\ a \notin qno' => a \in guarded']_vars

\* system-overview.md, line 207: an account that the state machine created but,
\* for whatever reason, has not processed yet cannot be used.  (The account the
\* running execution is just creating is left out.)
UnprocessedIsBlocked ==
    \A a \in vended \ sm.current : Exists(a) => a \in qno \cup guarded

=============================================================================
