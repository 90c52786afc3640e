CONSTANTS
    Row <- MCRow
    SortValue = {1, 2}
    MaxClock = 2
    MaxWriters = 2
    MaxScan = 2
    Configs <- MCConfigs
SPECIFICATION Spec
INVARIANTS
    PagesCoverStableRows
    OnlyLateChangesAreMissed
    DeletionsOfThePageAreReported
PROPERTY
    EventuallyUpToDate
CHECK_DEADLOCK FALSE
