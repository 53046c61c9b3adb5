SPECIFICATION FairSpec
CONSTANTS
    Root = "root"
    TopOus = {"ou"}
    Nested = {"sub"}
    Accounts = {"own", "free"}
    Top <- MCTop
    Full = "Full"
    Rank <- MCRank
    Policies = {"Full", "Guard", "Extra", "Foreign"}
    Configs <- MCConfigs
    InitialConfig <- First
    Unset = Unset
    Limit = 3
    IgnoresSome = FALSE
    Execution = "add-scp"
    Lambda = "lambda"
    MaxChanges = 2
    MaxExecutions = 1
    MaxRetries = 1
INVARIANTS
    TypeOK
    ChangesReverted
    ApplyConverges
PROPERTIES
    Settles
CHECK_DEADLOCK FALSE
