SPECIFICATION Spec
CONSTANTS
    a = a
    b = b
    e = e
    Absent = Absent
    Accounts <- OnlyA
    Initial <- Nobody
    Edits <- OneEdit
    EditFile <- InRoot
    Layout = "root"
    MaxRenames = 2
    MaxCommits = 5
PROPERTIES
    RenamesReachSources
    EntriesFound
CHECK_DEADLOCK FALSE
