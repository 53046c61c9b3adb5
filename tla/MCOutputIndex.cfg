CONSTANTS
    a = a
    b = b
    c = c
    perimeter = perimeter
    operations = operations
    shared = shared
    Names <- MCNames
    Accounts <- MCAccounts
    Account <- MCAccount
    Here = here
    MaxRuns = 3
SPECIFICATION Spec
INVARIANTS TypeOK NumbersSound NothingLeftBehind
PROPERTY IndexStable
CHECK_DEADLOCK FALSE
