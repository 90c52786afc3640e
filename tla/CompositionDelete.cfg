CONSTANTS
    N = 2
    Node <- MCNode
    Relation <- MCRelation
    Scenarios <- MCScenarios
    Deletes <- MCDeletes
    Configs <- MCConfigs
    PageSize = 2
    MaxDepth = 2
    MaxEntities = 5
SPECIFICATION Spec
CHECK_DEADLOCK FALSE
INVARIANTS
    NoOrphans
    CascadeComplete
    FailedCascadeLeavesNothing
PROPERTIES
    EventuallyAnswered
