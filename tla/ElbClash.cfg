CONSTANTS
    a = a
    b = b
    c = c
    perimeter = perimeter
    operations = operations
    shared = shared
    Names <- MCNames
    Accounts <- MCAccounts
    Account <- MCAccount
    Here = here
    MaxRuns = 1
SPECIFICATION Spec
INVARIANT AllElbsPublished
CHECK_DEADLOCK FALSE
