CONSTANTS
    N = 3
    g1 = g1
    g2 = g2
    NoGroup = NoGroup
    Groups <- MCGroups
    Batches <- MCBatches
    TimeoutEnabled = TRUE
SPECIFICATION Spec
CHECK_DEADLOCK FALSE
PROPERTIES
    TimedOutHandlersAreCancelled
