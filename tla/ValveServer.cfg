CONSTANTS
    NValve = 2
    NSlot = 2
    NDay = 1
    MinutesPerDay = 3
    MinPasses = 1
    MaxBoots = 1
    SaveRequests = {}
    ClockSteps = {}
    SetIoCommands <- ServerCommands
    ServerSetsTimes = TRUE
    FactoryMemory <- StoredMemory
    HeapGarbage <- Garbage
    NoBlob = NoBlob
    NoRequest = NoRequest
    NoCommand = NoCommand
SPECIFICATION FairSpec
CHECK_DEADLOCK TRUE
PROPERTY ServerKeepsOutputs
 
 
