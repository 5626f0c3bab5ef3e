CONSTANTS
    NValve = 2
    NSlot = 2
    NDay = 1
    MinutesPerDay = 4
    MinPasses = 2
    MaxBoots = 0
    SaveRequests = {}
    ClockSteps = {}
    SetIoCommands <- ServerCommands
    ServerSetsTimes = FALSE
    FactoryMemory <- StoredMemory
    HeapGarbage = {}
    NoBlob = NoBlob
    NoRequest = NoRequest
    NoCommand = NoCommand
SPECIFICATION Spec
CHECK_DEADLOCK TRUE
INVARIANT LogicOwnsOutputs
