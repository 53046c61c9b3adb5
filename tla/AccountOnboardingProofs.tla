----------------------- MODULE AccountOnboardingProofs -----------------------
(***************************************************************************)
(* Proofs about AccountOnboarding.                                         *)
(*                                                                         *)
(* A release is harmless because everything in the parameters table was    *)
(* covered by some deployment, was given up on, or was left out by an      *)
(* operator who overrode the comparison.  That is so because               *)
(*   - what was committed was in the table then, and                       *)
(*   - compareConfigurations, if it compares, admits accounts that were    *)
(*     not committed only in scopes that cover whatever the table lacks.   *)
(***************************************************************************)
EXTENDS AccountOnboarding, TLAPS

\* The accounts that need no quarantine SCP.
Settled == guarded \cup cut \cup waived

Vending == {"verify", "move", "addScp"}
Creating == {"create"} \cup Vending
BeforeListing == {"listRoot", "listTargets", "attach", "loadOrg", "loadAccounts"} \cup Creating
Applying == {"applyScps", "deploy"}
AfterListing == Applying \cup {"storeCommit", "detachList", "detach"}

\* One account at a time goes through the sub state machine.
CurrentInv ==
    /\ sm.pc \notin Vending => sm.current = {}
    /\ \A a \in sm.current :
         \/ sm.pc = "verify" /\ (request[a] = "none" => Exists(a))
         \/ sm.pc \in {"move", "addScp"} /\ Exists(a)

\* An account for which AWS has still to answer does not exist.
RequestInv == \A a \in Accounts : request[a] = "inProgress" => ~Exists(a)

\* Every account of the configuration is created, to be created or given up on.
CreationInv ==
    /\ sm.pc \in Creating =>
         \A a \in sm.cfg : Exists(a) \/ a \in sm.todo \cup sm.current \cup cut
    /\ sm.pc = "loadAccounts" => \A a \in sm.cfg : Exists(a) \/ a \in cut

\* The scope was admitted for what the configuration adds, unless nothing was compared.
ScopeInv ==
    sm.pc \in BeforeListing => sm.input.override \/ ScopeAllows(sm.input, sm.cfg \ committed)

ListingInv ==
    /\ committed \subseteq Settled
    /\ sm.pc \notin Applying => table \subseteq Settled
    /\ sm.pc \in Applying => table \subseteq Settled \cup sm.inScope
    /\ sm.pc \in AfterListing => table \subseteq sm.cfg /\ sm.cfg \subseteq table \cup cut
    /\ sm.pc \in {"detachList", "detach"} => committed = sm.cfg
    /\ sm.pc = "detach" => sm.todo \subseteq Settled \cap sm.cfg

\* OU validation: the listed accounts that lack the SCP are still to be done.
RootInv ==
    /\ sm.pc = "listTargets" => sm.todo = sm.listed
    /\ sm.pc = "attach" => sm.listed \subseteq sm.todo \cup qno
    /\ \A a \in sm.listed : Exists(a)

IInv ==
    /\ TypeOK
    /\ CurrentInv
    /\ RequestInv
    /\ CreationInv
    /\ ScopeInv
    /\ ListingInv
    /\ RootInv
    /\ QuarantinedUntilGuarded

-----------------------------------------------------------------------------
(* Type correctness *)

LEMMA IdleType == Idle \in Execution /\ NewAccounts \in Input
BY DEF Idle, NewAccounts, Execution, Input, Scopes, Steps

LEMMA StartType ==
  ASSUME TypeOK, NEW input \in Input, StartRun(input)
  PROVE  sm' \in Execution /\ runs' \in 0..MaxRuns
<1>1. sm' \in Execution
  BY IdleType DEF TypeOK, StartRun, Execution, Steps
<1>2. runs' \in 0..MaxRuns
  BY OnboardingAssumption DEF TypeOK, StartRun
<1> QED BY <1>1, <1>2

LEMMA InitTypeOK == Init => TypeOK
BY IdleType, OnboardingAssumption DEF Init, TypeOK

LEMMA NextTypeOK == TypeOK /\ [Next]_vars => TypeOK'
<1> SUFFICES ASSUME TypeOK, [Next]_vars PROVE TypeOK'
  OBVIOUS
<1> USE OnboardingAssumption DEF organization, stores, history
<1> USE DEF TypeOK
<1>1. CASE CompareConfigurations
  BY <1>1 DEF CompareConfigurations, At, Execution, Steps
<1>2. CASE OuListRoot
  BY <1>2 DEF OuListRoot, At, Execution, Steps
<1>3. CASE OuListTargets
  BY <1>3 DEF OuListTargets, At, Execution, Steps
<1>4. CASE OuAttach
  <2>1. PICK a \in sm.todo : /\ qno' = qno \cup {a}
                             /\ sm' = [sm EXCEPT !.todo = @ \ {a}]
    BY <1>4 DEF OuAttach
  <2>2. sm.todo \subseteq Accounts
    BY DEF Execution
  <2>3. qno' \subseteq Accounts
    BY <2>1, <2>2
  <2>4. sm' \in Execution
    BY <2>1, <2>2 DEF Execution
  <2>5. UNCHANGED <<loc, request, config, table, committed, created, moved, runs,
                    guarded, vended, cut, waived>>
    BY <1>4 DEF OuAttach
  <2> QED BY <2>3, <2>4, <2>5
<1>5. CASE OuValidationDone
  BY <1>5 DEF OuValidationDone, At, Execution, Steps
<1>6. CASE LoadOrganizationConfiguration
  BY <1>6 DEF LoadOrganizationConfiguration, At, Execution, Steps
<1>7. CASE CreateAccount
  <2>1. PICK a \in sm.todo :
           /\ request' = [request EXCEPT ![a] = "inProgress"]
           /\ vended' = vended \cup {a}
           /\ sm' = [sm EXCEPT !.pc = "verify", !.current = {a}, !.todo = @ \ {a}]
    BY <1>7 DEF CreateAccount
  <2>2. sm.todo \subseteq Accounts
    BY DEF Execution
  <2>3. vended' \subseteq Accounts
    BY <2>1, <2>2
  <2>4. request' \in [Accounts -> {"none", "inProgress", "failed"}]
    BY <2>1
  <2>5. sm' \in Execution
    BY <2>1, <2>2 DEF Execution, Steps
  <2>6. UNCHANGED <<loc, qno, config, table, committed, created, moved, runs, guarded, cut, waived>>
    BY <1>7 DEF CreateAccount
  <2> QED BY <2>3, <2>4, <2>5, <2>6
<1>8. CASE SkipCreation
  BY <1>8 DEF SkipCreation, At, Execution, Steps
<1>9. CASE VerifyCreation
  BY <1>9 DEF VerifyCreation, At, Execution, Steps
<1>10. CASE MoveToOu
  BY <1>10 DEF MoveToOu, At, Execution, Steps
<1>11. CASE AddQuarantineScp
  BY <1>11 DEF AddQuarantineScp, At, Execution, Steps
<1>12. CASE CreateAccountsDone
  BY <1>12 DEF CreateAccountsDone, At, Execution, Steps
<1>13. CASE LoadAccounts
  BY <1>13 DEF LoadAccounts, At, Execution, Steps, Listing
<1>14. CASE AddScps
  BY <1>14 DEF AddScps, At, Execution, Steps
<1>15. CASE DeployPhases
  BY <1>15 DEF DeployPhases, At, Execution, Steps
<1>16. CASE StoreCommitId
  BY <1>16 DEF StoreCommitId, At, Execution, Steps
<1>17. CASE DetachList
  BY <1>17 DEF DetachList, At, Execution, Steps
<1>18. CASE DetachQuarantine
  BY <1>18 DEF DetachQuarantine, At, Execution, Steps
<1>19. CASE RunSucceeds
  BY <1>19, IdleType DEF RunSucceeds, At, Execution, Steps
<1>20. CASE CreationFailed
  BY <1>20, IdleType DEF CreationFailed, At, Execution, Steps
<1>21. CASE RunFails
  BY <1>21, IdleType DEF RunFails, At, Execution, Steps, Listing, Unfinished
<1>22. CASE OperatorStarts
  BY <1>22, StartType DEF OperatorStarts
<1>23. ASSUME NEW a \in Accounts, AwsCreates(a) PROVE TypeOK'
  BY <1>23 DEF AwsCreates, Exists
<1>24. ASSUME NEW a \in Accounts, AwsRefuses(a) PROVE TypeOK'
  BY <1>24 DEF AwsRefuses, Exists
<1>25. ASSUME NEW a \in Accounts, EventAttachesScp(a) PROVE TypeOK'
  BY <1>25 DEF EventAttachesScp, Exists
<1>26. ASSUME NEW a \in Accounts, MoveEventCommits(a) PROVE TypeOK'
  BY <1>26 DEF MoveEventCommits, Exists
<1>27. ASSUME NEW a \in Accounts, MoveEventFails(a) PROVE TypeOK'
  BY <1>27 DEF MoveEventFails, Exists
<1>28. ASSUME NEW a \in Accounts, MoveEventStarts(a) PROVE TypeOK'
  BY <1>28, IdleType, StartType DEF MoveEventStarts, At
<1>29. ASSUME NEW a \in Accounts, UserCreatesAccount(a) PROVE TypeOK'
  BY <1>29 DEF UserCreatesAccount, Exists
<1>30. ASSUME NEW a \in Accounts, UserMovesAccount(a) PROVE TypeOK'
  BY <1>30 DEF UserMovesAccount, Exists
<1>31. ASSUME NEW a \in Accounts, OperatorAddsAccount(a) PROVE TypeOK'
  BY <1>31 DEF OperatorAddsAccount, Exists
<1>32. CASE UNCHANGED vars
  BY <1>32 DEF vars
<1> QED
  BY <1>1, <1>2, <1>3, <1>4, <1>5, <1>6, <1>7, <1>8, <1>9, <1>10, <1>11, <1>12, <1>13, <1>14, <1>15, <1>16, <1>17, <1>18, <1>19, <1>20, <1>21, <1>22, <1>23, <1>24, <1>25, <1>26, <1>27, <1>28, <1>29, <1>30, <1>31, <1>32
     DEF Next, OnboardStep, DeployStep, AwsStep, EventStep, UserStep

-----------------------------------------------------------------------------
(* What the steps outside the execution change *)

Outside ==
    \/ OperatorStarts
    \/ \E a \in Accounts : AwsStep(a) \/ EventStep(a) \/ UserStep(a)

Started ==
    /\ At("idle")
    /\ sm'.pc = "compare"
    /\ sm'.current = {} /\ sm'.listed = {}

OutsideFrame ==
    /\ UNCHANGED <<table, committed, guarded, vended, cut, waived>>
    /\ sm' = sm \/ Started
    /\ qno \subseteq qno'
    /\ \A x \in Accounts :
         /\ Exists(x) => Exists(x)'
         /\ created'[x] = "done" => created[x] = "done" \/ x \in qno'
         /\ request'[x] = "inProgress" => request[x] = "inProgress" /\ (Exists(x)' => Exists(x))
         /\ request'[x] = "none" => request[x] = "none" \/ Exists(x)'

\* They start an execution or leave it alone, let no account vanish or leave
\* quarantine, and do not touch what the execution alone writes.
LEMMA OutsideStep ==
  ASSUME TypeOK, Outside
  PROVE  OutsideFrame
<1> USE OnboardingAssumption DEF TypeOK, stores, history, organization, Exists
<1>1. ASSUME NEW input, StartRun(input) PROVE Started
  BY <1>1 DEF StartRun, Started, At, Idle
<1>2. CASE OperatorStarts
  BY <1>1, <1>2 DEF OperatorStarts, OutsideFrame
<1>3. ASSUME NEW a \in Accounts, AwsStep(a) PROVE OutsideFrame
  BY <1>3 DEF AwsStep, AwsCreates, AwsRefuses, OutsideFrame
<1>4. ASSUME NEW a \in Accounts, EventStep(a) PROVE OutsideFrame
  BY <1>1, <1>4 DEF EventStep, EventAttachesScp, MoveEventCommits, MoveEventFails,
                    MoveEventStarts, OutsideFrame
<1>5. ASSUME NEW a \in Accounts, UserStep(a) PROVE OutsideFrame
  BY <1>5 DEF UserStep, UserCreatesAccount, UserMovesAccount, OperatorAddsAccount, OutsideFrame
<1> QED BY <1>2, <1>3, <1>4, <1>5 DEF Outside

-----------------------------------------------------------------------------
(* The conjuncts of the inductive invariant *)

\* Only requests for accounts that do not exist are in progress.
LEMMA NextRequestInv ==
  ASSUME IInv, TypeOK', [Next]_vars
  PROVE  RequestInv'
<1> USE OnboardingAssumption DEF IInv, TypeOK, stores, history, organization, At,
        Execution, Steps, RequestInv, Exists
<1>1. CASE CompareConfigurations
  BY <1>1 DEF CompareConfigurations
<1>2. CASE OuListRoot
  BY <1>2 DEF OuListRoot
<1>3. CASE OuListTargets
  BY <1>3 DEF OuListTargets
<1>4. CASE OuAttach
  BY <1>4 DEF OuAttach
<1>5. CASE OuValidationDone
  BY <1>5 DEF OuValidationDone
<1>6. CASE LoadOrganizationConfiguration
  BY <1>6 DEF LoadOrganizationConfiguration
<1>7. CASE CreateAccount
  BY <1>7 DEF CreateAccount
<1>8. CASE SkipCreation
  BY <1>8 DEF SkipCreation
<1>9. CASE VerifyCreation
  BY <1>9 DEF VerifyCreation
<1>10. CASE MoveToOu
  BY <1>10 DEF MoveToOu
<1>11. CASE AddQuarantineScp
  BY <1>11 DEF AddQuarantineScp
<1>12. CASE CreateAccountsDone
  BY <1>12 DEF CreateAccountsDone
<1>13. CASE LoadAccounts
  BY <1>13 DEF LoadAccounts
<1>14. CASE AddScps
  BY <1>14 DEF AddScps
<1>15. CASE DeployPhases
  BY <1>15 DEF DeployPhases
<1>16. CASE StoreCommitId
  BY <1>16 DEF StoreCommitId
<1>17. CASE DetachList
  BY <1>17 DEF DetachList
<1>18. CASE DetachQuarantine
  BY <1>18 DEF DetachQuarantine
<1>19. CASE RunSucceeds
  BY <1>19, IdleType DEF RunSucceeds
<1>20. CASE CreationFailed
  BY <1>20, IdleType DEF CreationFailed
<1>21. CASE RunFails
  BY <1>21, IdleType DEF RunFails
<1>22. CASE Outside
  BY <1>22, OutsideStep DEF OutsideFrame, Started
<1>23. CASE UNCHANGED vars
  BY <1>23 DEF vars
<1> QED BY <1>1, <1>2, <1>3, <1>4, <1>5, <1>6, <1>7, <1>8, <1>9, <1>10, <1>11, <1>12,
       <1>13, <1>14, <1>15, <1>16, <1>17, <1>18, <1>19, <1>20, <1>21, <1>22, <1>23 DEF
       Next, OnboardStep, DeployStep, Outside

\* At most one account is being created; it exists once it was verified.
LEMMA NextCurrentInv ==
  ASSUME IInv, TypeOK', [Next]_vars
  PROVE  CurrentInv'
<1> USE OnboardingAssumption DEF IInv, TypeOK, stores, history, organization, At,
        Execution, Steps, CurrentInv, Exists, Vending, Idle
<1>1. CASE CompareConfigurations
  BY <1>1 DEF CompareConfigurations
<1>2. CASE OuListRoot
  BY <1>2 DEF OuListRoot
<1>3. CASE OuListTargets
  BY <1>3 DEF OuListTargets
<1>4. CASE OuAttach
  BY <1>4 DEF OuAttach
<1>5. CASE OuValidationDone
  BY <1>5 DEF OuValidationDone
<1>6. CASE LoadOrganizationConfiguration
  BY <1>6 DEF LoadOrganizationConfiguration
<1>7. CASE CreateAccount
  BY <1>7 DEF CreateAccount
<1>8. CASE SkipCreation
  BY <1>8 DEF SkipCreation
<1>9. CASE VerifyCreation
  BY <1>9 DEF VerifyCreation
<1>10. CASE MoveToOu
  BY <1>10 DEF MoveToOu
<1>11. CASE AddQuarantineScp
  BY <1>11 DEF AddQuarantineScp
<1>12. CASE CreateAccountsDone
  BY <1>12 DEF CreateAccountsDone
<1>13. CASE LoadAccounts
  BY <1>13 DEF LoadAccounts
<1>14. CASE AddScps
  BY <1>14 DEF AddScps
<1>15. CASE DeployPhases
  BY <1>15 DEF DeployPhases
<1>16. CASE StoreCommitId
  BY <1>16 DEF StoreCommitId
<1>17. CASE DetachList
  BY <1>17 DEF DetachList
<1>18. CASE DetachQuarantine
  BY <1>18 DEF DetachQuarantine
<1>19. CASE RunSucceeds
  BY <1>19, IdleType DEF RunSucceeds
<1>20. CASE CreationFailed
  BY <1>20, IdleType DEF CreationFailed
<1>21. CASE RunFails
  BY <1>21, IdleType DEF RunFails
<1>22. CASE Outside
  BY <1>22, OutsideStep DEF OutsideFrame, Started
<1>23. CASE UNCHANGED vars
  BY <1>23 DEF vars
<1> QED BY <1>1, <1>2, <1>3, <1>4, <1>5, <1>6, <1>7, <1>8, <1>9, <1>10, <1>11, <1>12,
       <1>13, <1>14, <1>15, <1>16, <1>17, <1>18, <1>19, <1>20, <1>21, <1>22, <1>23 DEF
       Next, OnboardStep, DeployStep, Outside

\* No account of the configuration is forgotten.
LEMMA NextCreationInv ==
  ASSUME IInv, TypeOK', [Next]_vars
  PROVE  CreationInv'
<1> USE OnboardingAssumption DEF IInv, TypeOK, stores, history, organization, At,
        Execution, Steps, CreationInv, Exists, CurrentInv, Vending, Creating, Idle
<1>1. CASE CompareConfigurations
  BY <1>1 DEF CompareConfigurations
<1>2. CASE OuListRoot
  BY <1>2 DEF OuListRoot
<1>3. CASE OuListTargets
  BY <1>3 DEF OuListTargets
<1>4. CASE OuAttach
  BY <1>4 DEF OuAttach
<1>5. CASE OuValidationDone
  BY <1>5 DEF OuValidationDone
<1>6. CASE LoadOrganizationConfiguration
  BY <1>6 DEF LoadOrganizationConfiguration
<1>7. CASE CreateAccount
  BY <1>7 DEF CreateAccount
<1>8. CASE SkipCreation
  BY <1>8 DEF SkipCreation
<1>9. CASE VerifyCreation
  BY <1>9 DEF VerifyCreation
<1>10. CASE MoveToOu
  BY <1>10 DEF MoveToOu
<1>11. CASE AddQuarantineScp
  BY <1>11 DEF AddQuarantineScp
<1>12. CASE CreateAccountsDone
  BY <1>12 DEF CreateAccountsDone
<1>13. CASE LoadAccounts
  BY <1>13 DEF LoadAccounts
<1>14. CASE AddScps
  BY <1>14 DEF AddScps
<1>15. CASE DeployPhases
  BY <1>15 DEF DeployPhases
<1>16. CASE StoreCommitId
  BY <1>16 DEF StoreCommitId
<1>17. CASE DetachList
  BY <1>17 DEF DetachList
<1>18. CASE DetachQuarantine
  BY <1>18 DEF DetachQuarantine
<1>19. CASE RunSucceeds
  BY <1>19, IdleType DEF RunSucceeds
<1>20. CASE CreationFailed
  BY <1>20, IdleType DEF CreationFailed
<1>21. CASE RunFails
  BY <1>21, IdleType DEF RunFails
<1>22. CASE Outside
  BY <1>22, OutsideStep DEF OutsideFrame, Started
<1>23. CASE UNCHANGED vars
  BY <1>23 DEF vars
<1> QED BY <1>1, <1>2, <1>3, <1>4, <1>5, <1>6, <1>7, <1>8, <1>9, <1>10, <1>11, <1>12,
       <1>13, <1>14, <1>15, <1>16, <1>17, <1>18, <1>19, <1>20, <1>21, <1>22, <1>23 DEF
       Next, OnboardStep, DeployStep, Outside

\* Neither the scope nor what it was compared with changes before the listing.
LEMMA NextScopeInv ==
  ASSUME IInv, TypeOK', [Next]_vars
  PROVE  ScopeInv'
<1> USE OnboardingAssumption DEF IInv, TypeOK, stores, history, organization, At,
        Execution, Steps, ScopeInv, BeforeListing, Vending, Creating, Idle
<1>1. CASE CompareConfigurations
  BY <1>1 DEF CompareConfigurations
<1>2. CASE OuListRoot
  BY <1>2 DEF OuListRoot
<1>3. CASE OuListTargets
  BY <1>3 DEF OuListTargets
<1>4. CASE OuAttach
  BY <1>4 DEF OuAttach
<1>5. CASE OuValidationDone
  BY <1>5 DEF OuValidationDone
<1>6. CASE LoadOrganizationConfiguration
  BY <1>6 DEF LoadOrganizationConfiguration
<1>7. CASE CreateAccount
  BY <1>7 DEF CreateAccount
<1>8. CASE SkipCreation
  BY <1>8 DEF SkipCreation
<1>9. CASE VerifyCreation
  BY <1>9 DEF VerifyCreation
<1>10. CASE MoveToOu
  BY <1>10 DEF MoveToOu
<1>11. CASE AddQuarantineScp
  BY <1>11 DEF AddQuarantineScp
<1>12. CASE CreateAccountsDone
  BY <1>12 DEF CreateAccountsDone
<1>13. CASE LoadAccounts
  BY <1>13 DEF LoadAccounts
<1>14. CASE AddScps
  BY <1>14 DEF AddScps
<1>15. CASE DeployPhases
  BY <1>15 DEF DeployPhases
<1>16. CASE StoreCommitId
  BY <1>16 DEF StoreCommitId
<1>17. CASE DetachList
  BY <1>17 DEF DetachList
<1>18. CASE DetachQuarantine
  BY <1>18 DEF DetachQuarantine
<1>19. CASE RunSucceeds
  BY <1>19, IdleType DEF RunSucceeds
<1>20. CASE CreationFailed
  BY <1>20, IdleType DEF CreationFailed
<1>21. CASE RunFails
  BY <1>21, IdleType DEF RunFails
<1>22. CASE Outside
  BY <1>22, OutsideStep DEF OutsideFrame, Started
<1>23. CASE UNCHANGED vars
  BY <1>23 DEF vars
<1> QED BY <1>1, <1>2, <1>3, <1>4, <1>5, <1>6, <1>7, <1>8, <1>9, <1>10, <1>11, <1>12,
       <1>13, <1>14, <1>15, <1>16, <1>17, <1>18, <1>19, <1>20, <1>21, <1>22, <1>23 DEF
       Next, OnboardStep, DeployStep, Outside

\* What is listed or committed is settled, or the execution will settle it.
LEMMA NextListingInv ==
  ASSUME IInv, TypeOK', [Next]_vars
  PROVE  ListingInv'
<1> USE OnboardingAssumption DEF IInv, TypeOK, stores, history, organization, At,
        Execution, Steps, ListingInv, Settled, Applying, AfterListing, Idle
<1>1. CASE CompareConfigurations
  BY <1>1 DEF CompareConfigurations
<1>2. CASE OuListRoot
  BY <1>2 DEF OuListRoot
<1>3. CASE OuListTargets
  BY <1>3 DEF OuListTargets
<1>4. CASE OuAttach
  BY <1>4 DEF OuAttach
<1>5. CASE OuValidationDone
  BY <1>5 DEF OuValidationDone
<1>6. CASE LoadOrganizationConfiguration
  BY <1>6 DEF LoadOrganizationConfiguration
<1>7. CASE CreateAccount
  BY <1>7 DEF CreateAccount
<1>8. CASE SkipCreation
  BY <1>8 DEF SkipCreation
<1>9. CASE VerifyCreation
  BY <1>9 DEF VerifyCreation
<1>10. CASE MoveToOu
  BY <1>10 DEF MoveToOu
<1>11. CASE AddQuarantineScp
  BY <1>11 DEF AddQuarantineScp
<1>12. CASE CreateAccountsDone
  BY <1>12 DEF CreateAccountsDone
<1>13. CASE LoadAccounts
  <2>1. /\ table' = Listing /\ sm'.pc = "applyScps" /\ sm'.cfg = sm.cfg
        /\ sm'.inScope = {a \in Listing : Covers(sm.input, a)}
        /\ waived \subseteq waived'
        /\ sm.input.override =>
             {a \in Listing \ table : ~Covers(sm.input, a)} \subseteq waived'
        /\ UNCHANGED <<committed, guarded, cut>>
        /\ sm.pc = "loadAccounts"
    BY <1>13 DEF LoadAccounts
  <2>2. /\ Listing \subseteq sm.cfg
        /\ sm.cfg \subseteq Listing \cup cut
    BY <2>1 DEF Listing, CreationInv
  <2>3. ASSUME NEW a \in Listing, ~Covers(sm.input, a)
        PROVE  a \in Settled'
    <3>1. sm.input.override \/ ScopeAllows(sm.input, sm.cfg \ committed)
      BY <2>1 DEF ScopeInv, BeforeListing
    <3>2. CASE sm.cfg \ committed = {}
      BY <2>1, <2>2, <3>2
    <3>3. CASE a \in table
      BY <2>1, <3>3
    <3>4. CASE a \notin table /\ sm.input.override
      BY <2>1, <2>3, <3>4
    <3>5. CASE a \notin table /\ ~sm.input.override /\ sm.cfg \ committed # {}
      BY <2>3, <3>1, <3>5 DEF ScopeAllows, Covers
    <3> QED BY <3>2, <3>3, <3>4, <3>5
  <2>4. Listing \subseteq (Settled \cup sm.inScope)'
    BY <2>1, <2>3
  <2> QED BY <2>1, <2>2, <2>4
<1>14. CASE AddScps
  BY <1>14 DEF AddScps
<1>15. CASE DeployPhases
  BY <1>15 DEF DeployPhases
<1>16. CASE StoreCommitId
  BY <1>16 DEF StoreCommitId
<1>17. CASE DetachList
  BY <1>17 DEF DetachList
<1>18. CASE DetachQuarantine
  BY <1>18 DEF DetachQuarantine
<1>19. CASE RunSucceeds
  BY <1>19, IdleType DEF RunSucceeds
<1>20. CASE CreationFailed
  BY <1>20, IdleType DEF CreationFailed
<1>21. CASE RunFails
  <2>1. /\ sm' = Idle
        /\ cut' = cut \cup Unfinished
        /\ UNCHANGED <<committed, guarded, waived>>
    BY <1>21 DEF RunFails
  <2>2. CASE sm.pc = "loadAccounts"
    <3>1. table' \subseteq table \cup Listing
      BY <1>21, <2>2 DEF RunFails
    <3>2. Listing \subseteq guarded \cup Unfinished
      BY <2>2 DEF Unfinished
    <3> QED BY <2>1, <2>2, <3>1, <3>2
  <2>3. CASE sm.pc \in Applying
    <3>1. table' = table
      BY <1>21, <2>3 DEF RunFails
    <3>2. sm.inScope \subseteq guarded \cup Unfinished
      BY <2>3 DEF Unfinished
    <3> QED BY <2>1, <2>3, <3>1, <3>2
  <2>4. CASE sm.pc \notin {"loadAccounts"} \cup Applying
    BY <1>21, <2>1, <2>4 DEF RunFails
  <2> QED BY <2>2, <2>3, <2>4
<1>22. CASE Outside
  BY <1>22, OutsideStep DEF OutsideFrame, Started
<1>23. CASE UNCHANGED vars
  BY <1>23 DEF vars
<1> QED BY <1>1, <1>2, <1>3, <1>4, <1>5, <1>6, <1>7, <1>8, <1>9, <1>10, <1>11, <1>12,
       <1>13, <1>14, <1>15, <1>16, <1>17, <1>18, <1>19, <1>20, <1>21, <1>22, <1>23 DEF
       Next, OnboardStep, DeployStep, Outside

\* OU validation loses sight of no account it listed.
LEMMA NextRootInv ==
  ASSUME IInv, TypeOK', [Next]_vars
  PROVE  RootInv'
<1> USE OnboardingAssumption DEF IInv, TypeOK, stores, history, organization, At,
        Execution, Steps, RootInv, Exists, Idle
<1>1. CASE CompareConfigurations
  BY <1>1 DEF CompareConfigurations
<1>2. CASE OuListRoot
  BY <1>2 DEF OuListRoot
<1>3. CASE OuListTargets
  BY <1>3 DEF OuListTargets
<1>4. CASE OuAttach
  BY <1>4 DEF OuAttach
<1>5. CASE OuValidationDone
  BY <1>5 DEF OuValidationDone
<1>6. CASE LoadOrganizationConfiguration
  BY <1>6 DEF LoadOrganizationConfiguration
<1>7. CASE CreateAccount
  BY <1>7 DEF CreateAccount
<1>8. CASE SkipCreation
  BY <1>8 DEF SkipCreation
<1>9. CASE VerifyCreation
  BY <1>9 DEF VerifyCreation
<1>10. CASE MoveToOu
  BY <1>10 DEF MoveToOu
<1>11. CASE AddQuarantineScp
  BY <1>11 DEF AddQuarantineScp
<1>12. CASE CreateAccountsDone
  BY <1>12 DEF CreateAccountsDone
<1>13. CASE LoadAccounts
  BY <1>13 DEF LoadAccounts
<1>14. CASE AddScps
  BY <1>14 DEF AddScps
<1>15. CASE DeployPhases
  BY <1>15 DEF DeployPhases
<1>16. CASE StoreCommitId
  BY <1>16 DEF StoreCommitId
<1>17. CASE DetachList
  BY <1>17 DEF DetachList
<1>18. CASE DetachQuarantine
  BY <1>18 DEF DetachQuarantine
<1>19. CASE RunSucceeds
  BY <1>19, IdleType DEF RunSucceeds
<1>20. CASE CreationFailed
  BY <1>20, IdleType DEF CreationFailed
<1>21. CASE RunFails
  BY <1>21, IdleType DEF RunFails
<1>22. CASE Outside
  BY <1>22, OutsideStep DEF OutsideFrame, Started
<1>23. CASE UNCHANGED vars
  BY <1>23 DEF vars
<1> QED BY <1>1, <1>2, <1>3, <1>4, <1>5, <1>6, <1>7, <1>8, <1>9, <1>10, <1>11, <1>12,
       <1>13, <1>14, <1>15, <1>16, <1>17, <1>18, <1>19, <1>20, <1>21, <1>22, <1>23 DEF
       Next, OnboardStep, DeployStep, Outside

\* The property itself.
LEMMA NextQuarantined ==
  ASSUME IInv, TypeOK', [Next]_vars
  PROVE  QuarantinedUntilGuarded'
<1> USE OnboardingAssumption DEF IInv, TypeOK, stores, history, organization, At,
        Execution, Steps, QuarantinedUntilGuarded, Onboarded, CurrentInv, Vending, Idle
<1>1. CASE CompareConfigurations
  BY <1>1 DEF CompareConfigurations
<1>2. CASE OuListRoot
  BY <1>2 DEF OuListRoot
<1>3. CASE OuListTargets
  BY <1>3 DEF OuListTargets
<1>4. CASE OuAttach
  BY <1>4 DEF OuAttach
<1>5. CASE OuValidationDone
  BY <1>5 DEF OuValidationDone
<1>6. CASE LoadOrganizationConfiguration
  BY <1>6 DEF LoadOrganizationConfiguration
<1>7. CASE CreateAccount
  BY <1>7 DEF CreateAccount
<1>8. CASE SkipCreation
  BY <1>8 DEF SkipCreation
<1>9. CASE VerifyCreation
  BY <1>9 DEF VerifyCreation
<1>10. CASE MoveToOu
  BY <1>10 DEF MoveToOu
<1>11. CASE AddQuarantineScp
  BY <1>11 DEF AddQuarantineScp
<1>12. CASE CreateAccountsDone
  BY <1>12 DEF CreateAccountsDone
<1>13. CASE LoadAccounts
  BY <1>13 DEF LoadAccounts
<1>14. CASE AddScps
  BY <1>14 DEF AddScps
<1>15. CASE DeployPhases
  BY <1>15 DEF DeployPhases
<1>16. CASE StoreCommitId
  BY <1>16 DEF StoreCommitId
<1>17. CASE DetachList
  BY <1>17 DEF DetachList
<1>18. CASE DetachQuarantine
  BY <1>18 DEF DetachQuarantine, ListingInv, Settled
<1>19. CASE RunSucceeds
  BY <1>19, IdleType DEF RunSucceeds
<1>20. CASE CreationFailed
  BY <1>20, IdleType DEF CreationFailed
<1>21. CASE RunFails
  BY <1>21, IdleType DEF RunFails, Unfinished
<1>22. CASE Outside
  BY <1>22, OutsideStep DEF OutsideFrame, Started
<1>23. CASE UNCHANGED vars
  BY <1>23 DEF vars
<1> QED BY <1>1, <1>2, <1>3, <1>4, <1>5, <1>6, <1>7, <1>8, <1>9, <1>10, <1>11, <1>12,
       <1>13, <1>14, <1>15, <1>16, <1>17, <1>18, <1>19, <1>20, <1>21, <1>22, <1>23 DEF
       Next, OnboardStep, DeployStep, Outside

-----------------------------------------------------------------------------
(* Theorems *)

LEMMA InitIInv == Init => IInv
<1> SUFFICES ASSUME Init PROVE IInv
  OBVIOUS
<1>1. TypeOK
  BY InitTypeOK
<1>2. CurrentInv /\ RequestInv /\ CreationInv /\ ScopeInv /\ ListingInv /\ RootInv
  BY OnboardingAssumption
     DEF Init, Idle, CurrentInv, RequestInv, CreationInv, ScopeInv, ListingInv, RootInv,
         Vending, Creating, BeforeListing, Applying, AfterListing, Settled
<1>3. QuarantinedUntilGuarded
  BY DEF Init, QuarantinedUntilGuarded, Onboarded
<1> QED BY <1>1, <1>2, <1>3 DEF IInv

LEMMA NextIInv == IInv /\ [Next]_vars => IInv'
<1> SUFFICES ASSUME IInv, [Next]_vars PROVE IInv'
  OBVIOUS
<1>1. TypeOK'
  BY NextTypeOK DEF IInv
<1> QED BY <1>1, NextCurrentInv, NextRequestInv, NextCreationInv, NextScopeInv,
           NextListingInv, NextRootInv, NextQuarantined DEF IInv

LEMMA Invariance == Spec => []IInv
BY InitIInv, NextIInv, PTL DEF Spec

\* Every variable keeps its type.
THEOREM TypeCorrect == Spec => []TypeOK
<1>1. IInv => TypeOK
  BY DEF IInv
<1> QED BY <1>1, Invariance, PTL

\* A new account that no execution gave up on, nor an operator left out by
\* overriding the comparison, is quarantined until it was guarded, for every set
\* of accounts, OUs and inputs and any number of executions.
THEOREM QuarantineHolds == Spec => []QuarantinedUntilGuarded
<1>1. IInv => QuarantinedUntilGuarded
  BY DEF IInv
<1> QED BY <1>1, Invariance, PTL

\* An execution that succeeds leaves what it listed guarded, with the same exceptions.
THEOREM SuccessGuards == Spec => SuccessMeansGuarded
<1>1. IInv /\ [Next]_vars => [RunSucceeds => table \ (cut \cup waived) \subseteq guarded]_vars
  BY DEF IInv, ListingInv, Settled, Applying, RunSucceeds, At
<1> QED BY <1>1, Invariance, PTL DEF Spec, SuccessMeansGuarded

\* OU validation leaves no account that it listed in the root unquarantined.
THEOREM OuValidationQuarantines == Spec => RootIsQuarantined
<1>1. IInv /\ [Next]_vars =>
        [OuValidationDone => \A a \in sm.listed : loc[a] = "root" => a \in qno]_vars
  BY DEF IInv, RootInv, OuValidationDone, At
<1> QED BY <1>1, Invariance, PTL DEF Spec, RootIsQuarantined

\* Only the last step of an execution that committed releases an account.
THEOREM ReleaseIsLast == Spec => ReleaseFollowsDeployment
<1> DEFINE Release(a) == sm.pc = "detach" /\ a \in sm.cfg /\ committed = sm.cfg
<1>1. IInv /\ [Next]_vars =>
        [\A a \in Accounts \ OwnScps : a \in qno /\ a \notin qno' => Release(a)]_vars
  <2> SUFFICES ASSUME IInv, Next, NEW a \in Accounts \ OwnScps, a \in qno, a \notin qno'
               PROVE  Release(a)
    OBVIOUS
  <2> USE DEF organization
  <2>1. CASE OnboardStep
    BY <2>1 DEF OnboardStep, CompareConfigurations, OuListRoot, OuListTargets, OuAttach,
                OuValidationDone, LoadOrganizationConfiguration, CreateAccount, SkipCreation,
                VerifyCreation, MoveToOu, AddQuarantineScp, CreateAccountsDone, LoadAccounts
  <2>2. CASE DetachQuarantine
    BY <2>2 DEF DetachQuarantine, IInv, ListingInv, At
  <2>3. CASE DeployStep /\ ~DetachQuarantine
    BY <2>3 DEF DeployStep, AddScps, DeployPhases, StoreCommitId, DetachList, RunSucceeds
  <2>4. CASE CreationFailed \/ RunFails
    BY <2>4 DEF CreationFailed, RunFails
  <2>5. CASE Outside
    BY <2>5, OutsideStep DEF IInv, OutsideFrame
  <2> QED BY <2>1, <2>2, <2>3, <2>4, <2>5 DEF Next, Outside, DeployStep
<1> QED BY <1>1, Invariance, PTL DEF Spec, ReleaseFollowsDeployment

=============================================================================
