CONSTANTS
    app1 = app1
    app2 = app2
    ip1 = ip1
    ip2 = ip2
    Ids = {app1, app2}
    Specs <- MCSpecs
    Addresses <- MCAddresses
    FirstDns <- MCFirstDns
    MaxChanges = 2
    MaxUpsets = 1
    MaxArns = 6
SPECIFICATION FairSpec
INVARIANTS TypeOK InStep
PROPERTY TargetsFollow
CHECK_DEADLOCK FALSE
