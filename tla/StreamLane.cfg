SPECIFICATION LaneSpec
CONSTANTS
    MaxCalls = 4
    MaxCallbacks = 1
    Streams = {s1, s2}
INVARIANTS LaneTypeOK OneOperationPerSession LaneLivesWithItsUsers
PROPERTIES EveryCallReturns
CHECK_DEADLOCK FALSE
