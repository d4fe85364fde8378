SPECIFICATION Spec
CONSTANTS
    MaxMissed = 2
    MaxCalls = 2
    MaxEvents = 2
INVARIANTS ToldIsListed AutoJoinSees OneCallIsSafe
PROPERTY SilenceBounds
CONSTRAINT OneSide
CHECK_DEADLOCK FALSE
