SPECIFICATION Spec
CONSTANTS
    Vpcs = {"a", "b", "c"}
    Units = {"unit"}
    Pools = {"main", "extra"}
    Sizes = {1, 2, 4, 8}
    Subnets = {"web", "db"}
    NoUnit = "none"
    PoolOrder <- MCPoolOrder
    PoolRange <- MCPoolRange
    Site <- MCSite
    Unit <- MCUnit
    VpcCidrs <- MCVpcCidrs
    VpcSubnets <- MCVpcSubnets
    Entered <- MCEntered
    EnteredSubnets <- MCEnteredSubnets
    MaxRuns = 2
INVARIANTS
    TypeOK
    RangesSound
    AssignedOnce
    AssignmentComplete
    DeploymentAccepted
PROPERTIES
    FirstFit
    DeploymentStands
CHECK_DEADLOCK FALSE
