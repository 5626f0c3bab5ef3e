CONSTANTS
    NValve = 2
    NSlot = 3
    NDay = 2
    MinutesPerDay = 5
    MinPasses = 2
    MaxBoots = 0
    SaveRequests = {}
    ClockSteps = {}
    SetIoCommands = {}
    ServerSetsTimes = FALSE
    FactoryMemory <- TameMemory
    HeapGarbage = {}
    NoBlob = NoBlob
    NoRequest = NoRequest
    NoCommand = NoCommand
SPECIFICATION FairSpec
CHECK_DEADLOCK TRUE
INVARIANT TypeOK
INVARIANT CoilsOnlyInPulse
INVARIANT FollowsTable
PROPERTY WaterStops
PROPERTY WindowServed
PROPERTY ScheduleKept
