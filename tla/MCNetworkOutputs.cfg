CONSTANTS
    own = own
    endpoints = endpoints
    central = central
    web = web
    app = app
    private = private
    public = public
    azA = azA
    azB = azB
    Vpcs <- MCVpcs
    Shared = {endpoints, central}
    Wide = {own}
    Groups = {web, app}
    Subnets = {private, public}
    Zones = {azA, azB}
    Configs <- MCConfigs
    MaxRuns = 3
SPECIFICATION Spec
INVARIANTS TypeOK NumbersUnique PublishedSound
CHECK_DEADLOCK FALSE
