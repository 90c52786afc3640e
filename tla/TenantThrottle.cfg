CONSTANTS
    Req <- MCReq
    Tenant <- MCTenant
    Instance <- MCInstance
    Window = 2
    Ttl = 4
    MinInterval = 1
    LeaseLimit = 1
    MaxFaults = 1
    Configs <- MCConfigs
SPECIFICATION Spec
CHECK_DEADLOCK FALSE
INVARIANTS
    LimitKept
    NoFalseRefusal
    WindowsKeepTheRate
    LeasesReturned
PROPERTIES
    HashesExpire
