\* A connected controller nobody talks to has nothing left to do.
CONSTANTS
    EXAMPLE_ESP_MAXIMUM_RETRY = 3
    RetryCount = 2
    Unset = Unset
    MaxRequests = 2
    MaxDrops = 2
    MaxCuts = 1
    MaxEvents = 2
CHECK_DEADLOCK FALSE
SPECIFICATION FairSpec
INVARIANT WifiTypeOK
INVARIANT ServerRuns
INVARIANT UsesCredentials
INVARIANT NeverStranded
PROPERTY ReachableAgain
PROPERTY EventTaskResumes
PROPERTY TimeComesBack
