SPECIFICATION Spec
CONSTANTS
    master = master
    a = a
    b = b
    core = core
    dev = dev
    Accounts <- OneNewAccount
    Mandatory <- MCMandatory
    OUs <- MCOUs
    OuOf <- OneOuOf
    OwnScps <- NoOwnScps
    Inputs <- EveryNewScope
    MaxRuns = 2
PROPERTIES
    DenyAllUntilGuardrailed
CHECK_DEADLOCK FALSE
