CONSTANTS
    NValve = 2
    NSlot = 2
    NDay = 1
    MinutesPerDay = 4
    MinPasses = 2
    MaxBoots = 2
    SaveRequests <- Saves
    ClockSteps <- SntpTimes
    SetIoCommands = {}
    ServerSetsTimes = TRUE
    FactoryMemory <- MidnightMemory
    HeapGarbage = {}
    NoBlob = NoBlob
    NoRequest = NoRequest
    NoCommand = NoCommand
SPECIFICATION Spec
CHECK_DEADLOCK TRUE
INVARIANT SelectedIsOpen
INVARIANT DueIsOpen
 
