CONSTANTS
    Row <- MCRow
    SortValue = {1, 2}
    MaxClock = 2
    MaxWriters = 2
    MaxScan = 2
    Configs <- MCOrderConfigs
SPECIFICATION Spec
INVARIANTS
    NextLinkIsAccepted
CHECK_DEADLOCK FALSE
