CONSTANTS
    Id <- MCId
    Level <- MCLevel
    MaxDepth = 2
    Nodes <- MCNodes
    Configs <- MCConfigs
SPECIFICATION Spec
INVARIANTS
    GraphWholeOrNothing
    ComposedChildStays
PROPERTY
    LinksChangeOnlyTheLink
CHECK_DEADLOCK FALSE
