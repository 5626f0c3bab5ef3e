SPECIFICATION FairSpec
CONSTANTS
  NBits = 3
  MaxDevices = 3
  MaxRestarts = 2
  MaxLosses = 1
INVARIANT BusTypeOK
INVARIANT NobodyLost
INVARIANT EachOnce
PROPERTY SearchComplete
