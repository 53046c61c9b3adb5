SPECIFICATION Spec
CONSTANTS
    master = master
    a = a
    b = b
    core = core
    dev = dev
    Accounts <- MCAccounts
    Mandatory <- MCMandatory
    OUs <- MCOUs
    OuOf <- MCOuOf
    OwnScps <- OwnScpsOfB
    Inputs <- MCInputs
    MaxRuns = 2
INVARIANTS
    TypeOK
    QuarantinedUntilGuarded
PROPERTIES
    RootIsQuarantined
    SuccessMeansGuarded
    ReleaseFollowsDeployment
CHECK_DEADLOCK FALSE
