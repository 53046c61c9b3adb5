SPECIFICATION Spec
CONSTANTS
    a = a
    b = b
    e = e
    Absent = Absent
    Accounts <- Both
    Initial <- OnlyA
    Edits <- OneEdit
    EditFile <- InSplit
    Layout = "split"
    MaxRenames = 1
    MaxCommits = 3
INVARIANTS
    TypeOK
    EditsKept
    AccountsKept
PROPERTIES
    MergeIsConsistent
CHECK_DEADLOCK FALSE
