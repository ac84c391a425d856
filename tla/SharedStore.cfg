SPECIFICATION MCSpec
CONSTANTS
    Procs <- MCProcs
    Boxlet = "boxlet"
    Boxapi = "boxapi"
    Latest = 2
    MaxFaults = 1
    Ids <- MCIds
    DefaultLimit = 1
    MaxLimit = 2
    Queries <- MCQueries
    MaxClock = 2
    MaxChanges = 2
INVARIANTS
    SchemaSound
    WalkFaithful
PROPERTY
    EveryoneServes
CHECK_DEADLOCK FALSE
