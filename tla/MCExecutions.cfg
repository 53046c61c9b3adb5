SPECIFICATION LockSpec
CONSTANTS
    Executions = {x1, x2, x3, x4}
    Movers = {m1, m2}
SYMMETRY Symmetry
INVARIANTS
    LockTypeOK
    MutualExclusion
PROPERTIES
    ImplementsSingleExecution
CHECK_DEADLOCK FALSE
