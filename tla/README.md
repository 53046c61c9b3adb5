# Verification of the AWS Secure Environment Accelerator

The Accelerator builds and maintains a multi-account AWS organization from a
configuration in a Git repository. A state machine in AWS Step Functions applies the
configuration; Lambda functions react to what users do in AWS Organizations between and
during its executions. This directory holds TLA+ models of the parts of it that keep state
and meet each other, the TLC runs that check them and TLAPS proofs about them.

    tlc -workers 2 -config MCAccountOnboarding.cfg MCAccountOnboarding
    tlapm AccountOnboardingProofs.tla

Paths below are relative to `src/src` of the repository, the documents' to
`mkdocs/docs`. `PROJECT.json` names the lines behind each definition.

## 1. The system

### 1.1 Parts and what they keep

| Part | Where | State | Operations |
|------|-------|-------|------------|
| Main state machine | `core/cdk/src/initial-setup.ts` | position and data of each execution | some fifty steps, each a Lambda call or a sub state machine, in one Parallel with a catch |
| Start of an execution | `core/runtime/src/get-or-create-config.ts`, `installer/cdk/assets/start-execution.js` | the executions known to Step Functions | list, stop itself, merge the configuration |
| Configuration repository | `get-or-create-config.ts`, `ou-validation.ts`, `lib/common/src/util/common.ts` (`RawConfig`) | root file, loaded files, `raw/config.json`, head of the branch | read a file, commit on a parent |
| Comparison of configurations | `compare-configurations-step.ts`, `lib/common-config/src/compare` | none | reject an execution whose scope does not admit a change |
| OU validation | `ou-validation.ts` | OUs, policy attachments | write renames into the configuration, create OUs, quarantine what is under the root |
| Organization checks | `configuration/load-organizations-config.ts` | none | compare accounts, OUs and names with the configuration |
| Account creation | `create-organization-account/*`, `core/cdk/src/tasks/create-organization-account-task.ts` | CreateAccount requests of AWS | create, poll, move, quarantine |
| Accounts listing | `load-accounts-step.ts`, `utils/load-accounts.ts` | items of a DynamoDB table and their count | rewrite, read |
| Service control policies | `add-scp-step.ts`, `lib/common/src/scp/index.ts`, `detach-quarantine-scp.ts` | policies and their targets | attach, detach, release new accounts |
| Deployment | `deployments/cdk` | CloudFormation stacks, outputs table | six phases over the accounts in scope |
| Last successful commit | `store-commit-id-step.ts` | a secret, CIDR tables and their backups | store |
| CIDR pools | `get-baseline-step.ts` | assigned VPC and subnet ranges | assign the next free range |
| Outputs in SSM | `save-outputs-to-ssm/*` | numbers of resources in parameter names | allocate, reuse, publish, delete |
| CreateAccount event | `deployments/runtime/.../create-account/*` | an execution of a small state machine | wait for the account, quarantine it |
| MoveAccount event | `deployments/runtime/.../move-account-organization.ts` | one invocation | add the account to the configuration, start an execution |
| Other events | `policy-changes.ts`, `create-organization.ts`, `remove-account-from-organization.ts` | one invocation each | revert, quarantine, mark as deleted |
| ALB targets | `deployments/runtime/src/alb-to-alb-target/*` | records and their stream, target groups and rules | create, modify, delete; resolve, register, deregister |
| Sub state machines | `core/cdk/src/tasks/*` | executions that start something in AWS and poll | start, wait, verify |

### 1.2 How they interact

Nothing calls anything directly except Step Functions, which calls the steps in order. All
else goes through shared state that any of them may find changed:

 * **AWS Organizations** (accounts, their parents and names, policies and targets) is
   changed by the main state machine, the event handlers and users;
 * **the repository** is written by `getOrCreateConfig`, `ouValidation`, the MoveAccount and
   RemoveAccount handlers and users. A commit names its parent and is refused if that is not
   the head of the branch;
 * **the parameters table** is rewritten by Load Accounts, item by item, and read by later
   steps, by later executions and by event handlers at any time;
 * **the secret** with the last successful commit is written late in an execution and read by
   the next one;
 * **the CIDR tables** are written by `getBaseline`, completed by `storeCommitId`, compared
   with what is deployed by `compareConfigurations`, and edited by users;
 * **the outputs table** keeps the record of published numbers, which every execution reads,
   works from and replaces;
 * **EventBridge** hands changes of policies to a Lambda, and hands them in again if it fails;
 * **Step Functions** itself is used as the lock: an execution lists the running ones.

### 1.3 What is hard, and what correct means

| Part | Hard | Correct |
|------|------|---------|
| Onboarding | users, event handlers and executions act on the same account; any step may fail; lists are read and worked off later; the scope leaves accounts out | no account is usable before it is guardrailed; nothing is released that was not; no scope forgets an account for good |
| Accounts listing | many single writes make one listing; it is cut anywhere; readers run meanwhile and ignore the count | a reader gets the last listing; nothing is lost; reads end |
| Repository | reads of several files at several times, commits by five writers, promises nobody awaits | no writer undoes another; the merge is of one commit; renames reach the sources |
| Executions | list, then decide, with others doing the same | one works at a time; whoever was started is worked for |
| CIDR pools | ranges of different sizes meet; assignment, deployment and recording are cut anywhere; users enter and free ranges between | no overlap, nothing outside the pool, one range for each request, nothing deployed moves |
| SSM numbers | resources come and go over runs that are cut anywhere; orders of deleting and recording differ by file; lists nest | a number names one resource, keeps naming it, and what stands under it is what is recorded |
| Policies and events | reverting changes races with making them, with the policy step and with retries | the configured policies are attached in the end; the Lambda comes to rest |
| ALB targets | two Lambdas and users write whole records over each other's | AWS has what the table says, and follows the names |

## 2. Modules

| Module | Kind | Models |
|--------|------|--------|
| `AccountOnboarding` | component | an account from its creation to its release, over several executions |
| `AccountOnboardingProofs` | proofs | |
| `MCAccountOnboarding` | TLC | two new accounts and a mandatory one; one new account for the runs that expect a violation |
| `AccountsTable` | component | the listing in DynamoDB call by call |
| `AccountsTableProofs` | proofs | also those of `Executions` |
| `MCAccountsTable` | TLC | listings of up to two chunks |
| `ConfigRepo` | component | the repository, its writers and their reads and commits |
| `ConfigRepoProofs` | proofs | |
| `MCConfigRepo` | TLC | one or two accounts, in the root file or in a loaded file |
| `SingleExecution` | abstract specification | at most one execution works |
| `Executions` | component, refines `SingleExecution` | starts, listings and stops of executions |
| `CidrAssignment` | component | ranges of VPCs and subnets over several executions, write by write |
| `CidrAssignmentProofs` | proofs | |
| `MCCidrAssignment` | TLC | two dynamic VPCs of one name, a lookup VPC, two pools |
| `PolicyEnforcement` | component | the policy step, call by call, and the Lambda that reverts changes |
| `PolicyEnforcementProofs` | proofs | |
| `MCPolicyEnforcement` | TLC | a unit, a nested one, two accounts, four policies |
| `OutputIndex` | component | a list of numbered parameters and its record, call by call |
| `OutputIndexProofs` | proofs | |
| `MCOutputIndex` | TLC | three resources in two of three accounts |
| `NetworkOutputs` | component | VPCs, numbered, with numbered subnets and groups in them |
| `NetworkOutputsProofs` | proofs | |
| `MCNetworkOutputs` | TLC | an own VPC and two shared ones |
| `AlbTargets` | component | the table of forwarded applications, its two Lambdas and AWS |
| `AlbTargetsProofs` | proofs | |
| `MCAlbTargets` | TLC | two applications, three ways to forward |
| `MCExecutions` | TLC | four executions, two Lambdas, both symmetric |

The modules meet at what one relies on and another shows. `AccountOnboarding` and
`ConfigRepo` have one execution at a time, which `Executions` shows. `AccountOnboarding`
takes the listing for a set that a step that ends replaces and a step that is cut short
leaves arbitrary; `AccountsTable` shows what the single writes leave. (It also shows that
chunks of an interrupted rewrite may come back after a complete one; the accounts they name
were listed before, so `AccountOnboarding` has `RunFails` choose any part of the old and the
new listing, and leaves that echo to `AccountsTable`.) `AccountOnboarding` adds accounts to
the configuration in one step; `ConfigRepo` shows what the commits behind it can lose.
`CidrAssignment`, `OutputIndex` and `NetworkOutputs` rest on `Executions` too: one execution
assigns or saves at a time, and each begins where the last one was cut short. The stored commit
is in `AccountOnboarding`, the ids the same step then writes into the CIDR tables in
`CidrAssignment`. The quarantine policy is in `AccountOnboarding`, all configured ones are in
`PolicyEnforcement`.

### 2.1 AccountOnboarding

`loc` is the parent of each account in AWS Organizations, `qno` the accounts with the
Quarantine-New-Object policy, `request` the last CreateAccount request. `config`, `table` and
`committed` are the accounts in the configuration, in the listing and in the configuration of
the stored commit. `sm` is the execution: its step `pc`, its input, the configuration it
reads, the list it works off. `guarded`, `vended`, `cut` and `waived` record history: who was
covered by deployment phases, whom the state machine asked AWS for, whom an execution gave up
on, and whom the scope of an execution left out that `overrideComparison` admitted.
`CompareConfigurations` checks the scope against the accounts added since the stored commit,
unless the input has `overrideComparison` (`compare-configurations-step.ts` 108-113).

One action stands for one step or for one call of a loop in a step, in the order of
`initial-setup.ts`:

| Actions | Code |
|---------|------|
| `StartRun`, `CompareConfigurations` | `getOrCreateConfig`, `scopeValidation` of `compare/main.ts` |
| `OuListRoot`, `OuListTargets`, `OuAttach`, `OuValidationDone` | the two lists and the loop in `ou-validation.ts` 216-303 |
| `LoadOrganizationConfiguration` | the checks of `load-organizations-config.ts` |
| `CreateAccount`, `SkipCreation`, `VerifyCreation`, `MoveToOu`, `AddQuarantineScp`, `CreationFailed` | the sub state machine of one account |
| `LoadAccounts` (`Listing`, `Covers`) | `load-accounts-step.ts` |
| `AddScps` | `attachOrDetachPoliciesToAccounts`: an account with an `scps` key loses every other policy |
| `DeployPhases`, `StoreCommitId`, `DetachList`, `DetachQuarantine`, `RunSucceeds` | the rest of the chain |
| `RunFails` | the catch of the Parallel, a Lambda timeout, StopExecution |
| `EventAttachesScp`, `MoveEventCommits`, `MoveEventFails`, `MoveEventStarts` | the event handlers |
| `AwsCreates`, `AwsRefuses`, `User...`, `Operator...` | AWS Organizations, users and the operator |

Left out: ignored OUs, suspended accounts, accounts that leave, quarantine of OUs, and the
baseline CONTROL_TOWER.

### 2.2 AccountsTable

`items` and `count` are the table; `writer` is the Load Accounts step between two calls,
`reader` one call of `loadAccounts`; `stored` is the last complete listing. `Interrupt` ends
the step between any two calls.

### 2.3 ConfigRepo

`files` is the content at the head of the branch and `head` a number for its commit. An
account's entry is its name and its `src-filename`; all else users configure is a set of edits.
`Commit` is CodeCommit's rule: it succeeds on the head only, and one that changes nothing
is taken for success. Every read of a file is an action, so any commit may fall between two
reads. `UpdateConfig` chooses whether the un-awaited callbacks of `ouValidation` come in time.
`UpdateCrashes` is the case in which one of them throws. `Layout` says where the installation
keeps accounts: in the root file or in a loaded one.

### 2.4 Executions and SingleExecution

`exec` is the state of each execution, `mover` of each MoveAccount Lambda. `ListExecutions`
and `StopsItself` are the two calls of `validateExecution`. The refinement maps `working` to
the executions that have listed and found no other: a listing that finds nothing is
`Acquire`, an end or stop is `Release`, every other step stutters. Step Functions promises
a complete list only eventually; the model takes it to be complete, as the code does.

### 2.5 CidrAssignment

`vpcTable` and `subnetTable` are the DynamoDB tables, `pools` that of the pools; `deployed` is
what each VPC was built with and `recorded` the items that carry its ids. `outputs` is what the
outputs table tells of a VPC, which the steps after a phase write, and `stored` whether a commit
was ever stored. A range is its first address and its size. `override` is the input of the
execution, `built` the VPCs it deployed and has yet to store the outputs of. `pc`, `plan` and the
other locals are those of `getBaseline` and of the steps that use the tables after it. `seen` is
history: the outputs as the comparison read them.

| Actions | Code |
|---------|------|
| `StartExecution`, `PutPool`, `NextVpc`, `AssignmentDone` | the handler of `get-baseline-step.ts` |
| `FindCidr`, `TryNextRange`, `AssignCidr`, `CidrsDone`, `FindSubnet`, `AssignSubnet`, `SubnetsDone` | `dynamicCidrs`, with `getAvailableCidr` range by range |
| `CopyItem`, `CopiesDone`, `CopySubnet` | `lookupCidrs` |
| `CompareConfigurations`, `ComparisonRejects` (`Compares`, `Moved`) | `validateDDBChanges`, which runs only if a commit was stored and the input has neither `overrideComparison` nor `ov-cidr`, and reads the outputs table |
| `DeployVpc`, `PhaseDone` | the phase that builds VPCs, for those in scope |
| `StoreOutputs`, `StoreCommitId` | the Store Output step after it, and the commit |
| `RecordIds`, `RecordDone` | `updateCidrs` of `store-commit-id-step.ts` |
| `ExecutionEnds`, `UserEnters`, `UserRemoves` | an error, a timeout or a stop between two calls; users between executions |

The code tests a candidate by "equals, or one contains the other" (`Meets`). That this finds
every overlap is not a matter of definition: it rests on ranges being aligned to their power
of two, and the proof has it as a lemma. Code that reads a table before the VPC at hand and
writes it afterwards has `known` and `knownSubnets` for what was read.

### 2.6 PolicyEnforcement

`attached` has the policies of each root, unit and account; `existing`, `id` and `edited`
the policies themselves. A `worker` is the step `add-scp` of an execution or the Lambda that
handles an edit of a policy. Both go through the same passes over policies and targets: its
`step` is the pass it is in, `todo` what it has yet to go through in that pass, `calls` what it
decided on when it listed the one at hand and has not called yet. `Rank` is the order in which
policies and targets come. `events` are changes EventBridge has yet to deliver, `acting`
Lambdas that have decided on a call and not made it. AWS's rules (a policy that is gone, the
last one of a target, one too many) are `Accepted`; a call that is refused ends the Lambda
(`Fails`), and the event comes again until `MaxRetries`.

| Actions | Code |
|---------|------|
| `StartExecution`, `TakeJob`, `MakeCall`, `NextStep`, `Succeeds`, `Fails` (`StepAfter`, `Todo`, `CallsFor`) | `add-scp-step.ts` and `lib/common/src/scp/index.ts`; for the Lambda, the edit branch of `policy-changes.ts` |
| `HandlerFinds`, `HandlerStarts`, `HandlerMisses`, `HandlerCalls`, `HandlerFails` | `policy-changes.ts` |
| `UserChanges`, `UserCommits` | users in Organizations and in the repository |

The baseline is ORGANIZATIONS. A policy's content is what the accelerator would write or
not (`edited`); how the code packs several policies into one is left out.

### 2.7 OutputIndex and NetworkOutputs

Users read deployed resources as `/ASEA/<type>/<number>/...`. Each list of numbers is a record
in DynamoDB. `OutputIndex` models one list; `kind` says which file writes it, since they call
in different orders: IAM, KMS, ACM and an account's own load balancers delete leftovers
before they save the record (`early`), SNS topics after (`late`), firewall variables after and
under another path (`firewall`), and `remote` is the list of the load balancers of all accounts,
which hands the highest number from account to account. `NetworkOutputs` has the numbers
within numbers of VPCs, with shared VPCs and leftovers. There `outputs` has, of each VPC that has
an output, the groups and the zones of subnets it was built with. A VPC without an output is
passed over, and uses up a number if it is new (`VpcNotBuilt`); a group or a zone an output lacks
is recorded, though no parameter is written (`missed`); a configuration without the key of a
list keeps its leftovers, an empty list does not (`keys`).

In both, `record` and `params` are what is kept, `max`, `kept` and `left` are locals of a run,
and a run may be cut short between any two calls (`SavingCutShort`). Several parameters of one
resource, and a request that deletes up to ten names, are one step. The lists of VPCs and of
VPCs of type lvpc are separate and alike; one is modelled.

What the actions show that no property is about: a parameter is not updated when its resource
is replaced by one of the same name; parameters of a firewall are deleted under the path of the
instance's id while they were written under the name of the configuration, so they stay;
additional CIDRs are written as `cidr2/0`, `cidr2/1` and deleted as `cidr2`, so they stay; zones
a kept subnet lost stay; a VPC without output is forgotten by the record and its parameters
stay.

### 2.8 AlbTargets

Users keep records (what to match, which DNS name to forward to) in a table. The record
handler follows its stream and creates, changes and deletes a target group and a rule per
record; the monitor scans the table, resolves names, registers and deregisters addresses. Both
write whole records back without looking at what they replace. `hpc` and `mpc` are where the
two are; each call of Elastic Load Balancing and each write is an action. `spoiled` is history: ids
whose record was overwritten by somebody who had not read it, whose events were dropped
with a batch that failed (the stream is read without retries), or for which a deletion failed.
The handler swallows errors of a deletion and finishes the event (`DeletionFails`); what is left
has no record, so nothing deletes it again. One listener, one shard; the edit of a DNS name is
left out.

What the actions show: a stale write brings a deleted record back; a record that fails takes
the rest of its batch with it; and the two Lambdas can pass one record to and fro without end,
each writing over what the other wrote, hence the bound `MaxArns`.

## 3. Runs

Passing runs:

| Run | States | Checks |
|-----|--------|--------|
| `account_onboarding` | 2.7 million | `QuarantinedUntilGuarded`: an account that came to the point of being quarantined stays so until it is covered. `SuccessMeansGuarded`: a successful execution leaves nobody in the listing uncovered, whatever the scopes of this and earlier ones, as long as the comparison is not overridden. `ReleaseFollowsDeployment`: only the last step releases. `RootIsQuarantined`: OU validation misses no account it listed, though others attach meanwhile |
| `accounts_table` | 36 thousand | `HoldsLastListing`, `ReadsLastListing`, `NothingLost` after interruptions, `ReadEnds` |
| `config_split` | 1.3 million | with accounts in a loaded file: `EditsKept`, `AccountsKept`, `MergeIsConsistent` |
| `config_single` | 0.15 million | with accounts in the root file: `RenamesReachSources`, `EntriesFound` |
| `executions` | 624 up to symmetry | `MutualExclusion`, `ImplementsSingleExecution` |
| `cidr_assignment` | 1.3 million | `RangesSound`: ranges of dynamic VPCs share no address, stay in their pools, and subnets in them. `AssignedOnce`: one range for each request however often a step is done again. `FirstFit`: the search finds the first free range. `AssignmentComplete`: the assignment leaves nothing out, and the last step records whatever is deployed. `DeploymentAccepted`: only a user who frees ranges makes the comparison fail. `DeploymentStands`: what is deployed moves only if its ranges were freed and the execution either skips the comparison or meets an outputs table that does not have the VPC as it is |
| `policy_enforcement` | 0.6 million | `ChangesReverted`: once all events are handled, what users changed on units and on accounts with the key `scps` is as configured. `ApplyConverges`: a pass nobody disturbs leaves exactly what its configuration says, whatever it found. `Settles`: the Lambda never keeps itself busy |
| `output_index` | 1.2 million | `NumbersSound`, `IndexStable`: numbers are unique and stable, and what stands under one is what is recorded, in the middle of a run as well. `NothingLeftBehind`: between uncut runs, nothing else is published |
| `network_outputs` | 2.0 million | `NumbersUnique` for VPCs and within them; `PublishedSound`: a reader of a VPC's number finds its own subnets and groups, all that were recorded with an output |
| `alb_targets` | 0.5 million | `InStep`: when both Lambdas rest, AWS has what the records say. `TargetsFollow`: addresses are followed in the end |

Each also checks its component's type invariant, except `config_single`, which shares the one
of `config_split`.

Some properties exempt what something else already went wrong with, and name it:

 * `OwnScps` are accounts whose configuration lists their policies, since the policy step
   then takes the quarantine policy away. `cut` are accounts some execution gave up on: it
   ended between two steps of their creation or between their listing and the deployment, or
   skipped them. `waived` are new accounts that an execution with `overrideComparison` left out
   of its scope; the documents offer that input to those who know what they do
   (`installation/sm_inputs.md` 60). For all others the properties hold under every interleaving.
 * `DeploymentStands` exempts VPCs whose move went `Unnoticed`: a user freed their ranges, and the
   execution that moves them either compares nothing (no commit was ever stored, or the input
   overrides it) or compared with an outputs table that had not what was deployed, because the
   phase that built the VPC failed before its outputs were stored (`ComparedStands`, section 5).
 * `AssignmentComplete` exempts lookup VPCs whose copying was cut short (`torn`): the code takes
   any item for all of them (`RerunCompletes`, section 5).
 * `ChangesReverted` exempts targets of events given up after their last retry (`dropped`), and
   holds as long as nobody commits another configuration. Accounts without the key `scps` are
   not in it: what the Lambda does to them is not what the code's comment and the FAQ say
   (`OutsideLeftAlone`, section 5).
 * `NumbersSound` exempts resources whose parameters a run deleted without saving the record
   (`torn`), and a remote list whose numbering restarted (run `elb_clash`). `NothingLeftBehind`
   and `PublishedSound` say in their comments what they leave out; the latter, groups and zones
   recorded when they had no output (`missed`; `MissedIsMadeUp`, section 5).
 * `InStep` and `TargetsFollow` exempt `spoiled` ids.

Runs that expect a violation show where a document, comment or message of the repository says
something the code does not do. Each is listed under `findings` in `PROJECT.json` with the
quoted line.

| Run | What the counterexample shows |
|-----|-------------------------------|
| `guardrail_claim` | an execution lists a new account and fails before deploying; the next one, of scope NEW-ACCOUNTS, finds it listed, leaves it out and releases it |
| `elb_clash` | the list of all load balancers restarts its numbering after an account that has none of the type; two of them get one number, and one overwrites the other |

Disagreements without a run are in section 5.

### 3.1 Bounds and why they are enough

 * `MaxRuns = 2`: what goes wrong needs a first execution that leaves something and a second
   that meets it. The proofs hold for any number.
 * Two new accounts and one mandatory: one being created while another is moved, listed or
   released. One of the two has its own policies, so that the policy step does something.
   Seven inputs cover each kind of scope, with targets that include and exclude the new account,
   and one that overrides the comparison with a scope that leaves both new accounts out.
 * `MaxChunks = 2`, `MaxInterrupts = 2`: shorter, equal and longer listings follow each other,
   and an interrupted rewrite follows an interrupted one. Chunks have two values, so
   that an old chunk is told from a new one. A key beyond the bound reads as absent.
 * `MaxCommits`, `MaxRenames`: three commits are an edit of a user and the two commits of a
   Lambda, or those of an execution and a Lambda, between which the third falls; five let an
   account be added, renamed, renamed again and listed in between. One edit is enough, since
   a lost update is about one.
 * Four executions, two Lambdas: one that works, one that is about to list, and two of which
   one starts while the other lists.
 * CIDRs: pools of eight and four addresses and ranges of 1, 2 and 4, so that ranges of different
   sizes meet, leave holes and run out. Two executions, each over any VPCs in any order, compared
   or not, and one VPC whose ranges are freed. Ranges the user entered lie in the middle of a
   pool.
 * Policies: `Limit = 3` policies on a target instead of five, so that the limit is met; two
   changes by users and one execution, which meet an event that is retried once. One pass is
   enough for `ApplyConverges`, since it starts from whatever users and Lambdas left.
 * Outputs: three runs, for a number must be given, freed and given again. Two resources of one
   account and one of another, with a third account between or around them in any order.
   Eight configurations: none, the own VPC with one subnet, with two groups and a second zone,
   with empty lists or with a group only, and one or two shared VPCs; the outputs a run finds
   are those of any of the eight.
 * ALB: two applications that can ask for the same priority or target; two changes by users, one
   address that moves, look-up or deletion that fails or function that runs out of time; six ARNs
   are a group and a rule for each application and one of them anew.

Deadlock is not checked where bounds make the system stop (executions, renames and commits
run out). `AccountsTable` runs for ever and is checked for deadlock.

### 3.2 Fairness

 * `AccountsTable`: a step that has begun, and a read that has begun, go on to their next call
   (weak fairness of the writer's and the reader's calls). A Lambda that runs does so, and one
   that does not is an `Interrupt`. Starting a rewrite or a read is under no fairness. Under it
   `ReadEnds` holds although rewrites may follow each other for ever, because the read's index
   only grows and the table is finite.
 * `PolicyEnforcement`: EventBridge delivers events and a Lambda that runs goes on, succeeds or
   fails (weak fairness of `HandlerStep` and of the Lambda's `WorkerStep`). Users and
   executions are under none. Under it `Settles` holds because the Lambda ignores changes made
   by its own role; the mutant that hears them keeps it busy for ever.
 * `AlbTargets`: the stream is delivered, the monitor starts every minute, and neither stops
   between two calls without an end (weak fairness of `Handler` and `Monitor`). Users,
   moving addresses, failed look-ups and timeouts are under none, and bounded.

No other component promises that anything happens: a step may fail at any time, and nobody
is obliged to start an execution.

## 4. Proofs

TLAPS checks the following for every value of the constants that meets the modules'
assumptions (`OnboardingAssumption`, `TableAssumption`, `RepoAssumption`, `CidrAssumption` with
`OncePerVpc`, `PolicyAssumption`, `OutputAssumption`, `NetworkAssumption`, `AlbAssumption`;
`Executions` needs none).

**AccountOnboardingProofs.** `TypeCorrect`, `QuarantineHolds`, `SuccessGuards`,
`OuValidationQuarantines`, `ReleaseIsLast`: the type invariant and the four properties of
the run. `QuarantinedUntilGuarded` is not inductive: the detach step takes the policy off
whoever is in the listing. The strengthening `IInv` says why those are covered
(`ListingInv`): what was committed was listed and settled before; what the listing gains
is in scope, because `compareConfigurations` admits an execution with added accounts only if
its scope covers whatever the listing lacks, or the comparison is overridden and what it leaves out
is waived (`ScopeInv`); and whoever is configured but does
not exist when the accounts are listed was given up on (`CreationInv`). `CurrentInv`,
`RequestInv` and `RootInv` tie the lists an execution works off to the accounts they are about.
Preservation is proved action by action, with one lemma for all actions of the outside world.

**AccountsTableProofs.** `TypeCorrect`, `TableHoldsLastListing`, `UndisturbedRead`,
`RewriteLosesNothing`. The invariant bounds the loops, says that the first `index` items are
those of the new listing while they are put, that without interruption the remaining ones are
absent, and that an undisturbed reader has a prefix of the last listing.

The module also has the theorems about `Executions`: `LockTypeCorrect`, `OneWorks` and
`LockRefines`: `LockSpec` implies `SingleExecution!Spec` under the mapping. `WorkingStep` lists
what a step can do to the set of working executions; the last two theorems follow from it.

**ConfigRepoProofs.** `TypeCorrect`, `MergeCorrect`, `UserEditsKept`, `MovedAccountsKept`,
`RenamesReach`, `EntriesAreFound`.
`TypeOK` needs `Wellformed`: entries of the root file say that they are in the root file, and
those that say they are in a loaded file are there, or renaming would write a name into
nothing. `ReadsInv` is about commits: an actor's parent never exceeds the head, and while they
are equal what it has read since is what the branch holds, because the contents change only
with the head (`HeadMoves`). So a merge that is accepted had the sources of one commit
(`MergeCorrect`, either layout). With the accounts in a loaded file `SplitInv` adds that neither
the root file nor any copy of it has accounts; the MoveAccount Lambda then never writes the
root file, which is the one it reads before its parent, and nothing is undone. `UserEditsKept`
and `MovedAccountsKept` assume `Layout = "split"`. `RenamesReach` and `EntriesAreFound` assume
`Layout = "root"`: then no loaded file and no copy of one has accounts, and what `ouValidation`
works from is merged (`RootInv`), so it looks for every renamed account in the root file, finds
it there and leaves the callbacks nobody awaits nothing to write. For the other layout TLC finds
a counterexample to each of the four (section 5).

**CidrAssignmentProofs.** `TypeCorrect`, `RangesAreSound`, `AssignedOnlyOnce`,
`SearchIsFirstFit`, `DeploymentsStand`, `AssignmentIsComplete`, `DeploymentsAreAccepted`: for any
pools, any sizes of which each divides the larger ones, any entries of users and any ends of
executions. `RangesSound` is not inductive: a range is written long after the used ones were
read. `IInv` adds what links the two: `NewVpcItems` and `NewSubnetItems` say that what the tables
gained since is of the VPC at hand and of requests already done; `Searching` and
`SearchingSubnet` that the candidate is aligned, not before the first address, and that all
before it are taken. The lemma `InsideOrApart` (aligned ranges whose sizes divide each other are
nested or disjoint) is why the code's test by equality and containment suffices, and why the
code's last check, which compares the first address only, keeps the whole range in the pool.
`DeploymentsStand` needs `Compared`: an execution that deploys and does not skip the comparison
has compared the tables it deploys from with the outputs in `seen`. The last two theorems rest on
`Achieved`. `Progress` says which requests of the VPC at hand are answered and that the VPCs
before it have all they ask for, which later writes do not take away; `Copies` that a lookup VPC
that has any copy has all of them unless it is being copied or that was cut short; `IdsSoFar` the
same for the ids of the last step. For `DeploymentsAreAccepted`, `Settled` says that what is
deployed, and what the outputs table has of it (`Kept`, which may be older), is still what the
tables say unless a user freed it, and that the first request of a deployed VPC and of its
subnets is answered (`Anchored`): the assignment looks for that answer before it adds anything,
so no later execution changes the range the comparison reads first.

**OutputIndexProofs.** `TypeCorrect`, `NumbersAreSound`, `NothingIsLeftBehind`,
`NumbersAreStable`. `IInv` says that a number of the new list is an old one or higher than all
old ones and that `max` is as high as any in use (`NewNumbers`); which entries a run has set
aside and which accounts it has gone through (`LeftNames`); and what is published in each phase of
a run (`PublishedInv`). `NumbersBounded` is there because the highest number is a CHOOSE: without
a bound that there is one is not known (`HighestExists`, by well-founded induction).

**NetworkOutputsProofs.** `TypeCorrect`, `NumbersAreUnique`, `PublishedNumbersAreSound`.
`KeptVpcs` does for VPCs what `NewNumbers` does for lists. `KeptNames` is about a VPC in the
middle of its subnets or groups: new entries and those read are numbered as one list, and a name
yet to be done has its old entry or none. `PublishedSound` is about the end of a run; `PInv`
adds what links record and parameters in the middle of one. `PublishedInv`: the parameters of
the new entries, of the one at hand and of those not yet come to are there. `OwnersInv`: each
parameter is accounted for by an entry of its VPC among `Holders`, which are the recorded
entries between runs, and the new, the leftover and the one at hand during one. `SourcesInv`
says that the groups of a VPC are looked up in its own output or in none, and that takes that no
run met two shared VPCs (`mixed`). `MissedInv` says that of the groups already done each that
the output lacks is in `missed`, so that all others have their parameter.

**PolicyEnforcementProofs.** `TypesAreKept`, `ChangesAreReverted`, `PassesConverge`. `IInv` has
three parts beside the types.

 * *Plans* (`TodoInv`, `CallsInv`, `ActingInv`): what a worker has yet to do and call is of its
   step and of the configuration it read; what the Lambda is about to call undoes the event it
   heard, by a configuration it followed.
 * *Deviations* (`ChangesInv`, `EditsInv`): whatever a top-level unit or an account misses or has
   in excess, by what the Lambda goes by (also accounts without the key `scps`), some event tells
   of that is undelivered, in hand or given up; and of an edited policy
   unless the Lambda is about to write it again. Each step keeps this: a change by a user
   brings its event, a call by a worker is planned and therefore removes deviations only, and a
   handler that lets go of an event finds either nothing to undo or undoes it. At rest only
   events given up are left, which is `ChangesReverted`.
 * *Passes* (`PassInv`): while nobody disturbs a worker, each pass it is through has achieved its
   end, and the one it is in has for all that is not in `todo`, but for the pending `calls`. Since
   a listing plans exactly the difference (`ListingPlans`) and later passes take nothing back,
   all four ends hold when it is done, from whatever state it began in.

**AlbTargetsProofs.** `TypeCorrect`, `ArnsAreOwned`, `RecordsAreServed`. `InStep` speaks of the
moment at which both Lambdas rest and is far from inductive: in between, users write records
the handler has not come to, and the handler writes ARNs into records that changed since its
event. The inductive invariant has four parts.

 * *Types* (`TypeInv`): also where the two Lambdas are, and what they hold there.
 * *The queue* (`ChainInv`): the batch and the stream after it are one queue. The events of an id
   in it follow each other (each begins with the record the one before ended with), the last
   one leads to what the table holds, and the last that changes what is asked for asks for
   what the table asks for now.
 * *Ownership* (`OwnerInv`): no ARN is given twice, and whatever names an ARN for an id (its
   record, an event, what the monitor has scanned or is about to write) names a group and a
   rule of that id, or ones that are gone. So no step changes what AWS holds for another record;
   this holds for spoiled ids as well and is the theorem `ArnsAreOwned`.
 * *Content* (`CleanInv`): an id that is not spoiled is doomed or clean. Clean says that the
   events which change what is asked for name the ARNs AWS has (`Tells`), that AWS serves the
   record before the first event as long as the handler has not begun with it (`Waiting`), or so
   much of the event at hand as is done (`InWork`), and that the registered addresses are those
   of the table or of the monitor's next write (`Ips`, `Link`). Doomed says that some waiting
   event asks for a priority taken by a rule that neither it nor an event before it names. An id
   becomes doomed if users change a record and change it back before the handler has written the
   ARNs of the first: the write is not stale, the table says what the handler read, yet the
   changes wait in the stream without ARNs, and the invocation that comes to the last of them
   fails and drops it, which spoils the id. Without this case the invariant does not hold.

At rest nothing waits, so no id is doomed, and clean is `InStep`. Before the proof the whole
invariant was checked with TLC on the run's instance and on larger ones (one id with four
changes, two ids with three; up to 4.3 million states).

Every invariant, every action property and the refinement of the passing runs have a theorem.
Only model-checked is liveness (`ReadEnds`, `Settles`, `TargetsFollow`), which is out of the
prover's reach. The runs that expect violations have no theorem.

## 5. Disagreements without a run

Each of these is a definition in its module that TLC finds violated if it is put in place of the
properties of the run's cfg (INVARIANT, or PROPERTY for those marked with an asterisk).

| Definition | Instance | What the counterexample shows |
|------------|----------|-------------------------------|
| `UnprocessedIsBlocked` | `MCAccountOnboarding` | an execution stopped between creating an account and quarantining it leaves it open (`operations/system-overview.md` 207) |
| `RewriteIsExact` * | `MCAccountsTable` | after an interrupted rewrite a complete one leaves foreign chunks, because the old count does not cover them |
| `EditsKept` | `SingleConfig` | the MoveAccount Lambda reads the root file, a user commits, the Lambda reads the raw file and takes that commit as parent of a write of the old root file |
| `AccountsKept` | `SingleConfig` with both accounts | two Lambdas read the root file, and the second writes it back without the account the first has added |
| `RenamesReachSources` * | `SplitConfig` | `ouValidation` commits without the change of a loaded file, since nothing awaits it |
| `EntriesFound` * | `SplitConfig` | an account the Lambda put in a loaded file claims to be in the root file and is not found when renamed |
| `RenameIsFound` | both | an account renamed between the name check and Load Accounts is listed with its new name, so no execution finds the rename, and the name check fails for ever |
| `RerunCompletes` | `MCCidrAssignment` | copying the ranges of a unit is cut after the first; the next execution finds one range and copies no more |
| `ComparedStands` * | `MCCidrAssignment` | after a first success, a phase builds a VPC and fails before its outputs are stored; a user frees its ranges; the next execution is compared with an outputs table without it, and moves it (`operations/common-tasks.md` 13: "prevents users from accidentally performing certain major breaking changes") |
| `NestedLeftAlone` * | `MCPolicyEnforcement` | the Lambda that handles an edit strips nested units of users' policies, which `faq/index.md` 71 leaves to users and the policy step leaves alone |
| `OutsideLeftAlone` * | `MCPolicyEnforcement` | the Lambda that hears of an attachment takes a user's policy off an account without the key `scps`, whose policies are "managed in the outside the installer" (`scp/index.ts` 310) and by the same FAQ left to users; it never looks at the key |
| `GroupsOwn` | `MCNetworkOutputs` | two shared VPCs in an account: the groups of one are published under the number of the other |
| `MissedIsMadeUp` * | `MCNetworkOutputs` | the zone of a subnet is recorded in a run in which the output lacks it, and no later run writes its parameter (`network-outputs.ts` 466-474; `faq/index.md` 345 has VPCs and subnets stored) |
| `FlowsStayOnline` * | `MCAlbTargets` | a look-up that fails once deregisters all addresses of a name; the documentation of the forwarder promises that managed flows do not go offline |

Visible in the actions, without a definition:

 * `AddScps` takes the quarantine policy off an account with an `scps` key in the middle of
   an execution (`scp/index.ts` 340), while `operations/system-overview.md` 205 has it removed
   only after the state machine has completed.
 * `CreationFailed`: a refused creation of an optional account fails the execution, because
   `create.ts` 65 compares the state with `FAILURE` and AWS says `FAILED`; the message next
   to it says that such failures are skipped.
 * `CommitRefused`: a user's commit during the first minutes of an execution makes its next
   commit fail (`ou-validation.ts` 206), while `faq/index.md` 105 says that the configuration
   may be updated while the state machine runs.
 * `StopsItself`: two executions started together may find each other and both stop.

## 6. Not modelled, and the plan

The map covers the steps and handlers that keep state: about 4600 lines. Most of the
repository's lines are not of that kind: the types of the configuration and their documentation
strings in two languages, CDK constructs and stacks (what they contain is decided once, at
synthesis, and CloudFormation does the rest), the reference artifacts with a migration tool and
its copies of another accelerator's types, the user interface, and wrappers that pass a call to
AWS. They have no behaviour over time that a model would add to.

Still to do, in this order:

 1. `ConfigRepo`: the removal handler, renamed and new OUs in `ouValidation`, the accounts file
    that overflows, the first import from S3.
 2. `Executions`: the Lambda of a stopped execution that goes on, with a second writer in
    `AccountsTable`.
 3. The start-wait-verify state machines as one parameterised module, refining an abstract
    request.

Not planned: the baseline CONTROL_TOWER, the stacks of the deployment phases and the custom
resources, the rules of the comparison for single keys (patterns on paths, without state), the
configuration schema, the CDK constructs, the client wrappers beyond what callers use, the
installer's stack, the user interface and the reference artifacts.
