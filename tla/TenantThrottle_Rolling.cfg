CONSTANTS
    Req <- MCFour
    Tenant <- MCTenant
    Instance <- MCInstance
    Window = 2
    Ttl = 4
    MinInterval = 1
    LeaseLimit = 1
    MaxFaults = 1
    Configs <- MCPerMinute
SPECIFICATION Spec
CHECK_DEADLOCK FALSE
INVARIANTS
    RollingRate
