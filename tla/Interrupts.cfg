\* One system after the other, each on the instance that MCInterrupts gives it.
CONSTANTS
    Subs = {"a"}
    IntBits = 3
    MaxLevels = 16
    Levels = {{}, {7}, {5, 6}}
    ClicCalls = 5
SPECIFICATION Spec
INVARIANTS
    TypeOK
    OneHartServes
    NoSourceIsLost
    EnabledAsAsked
    HandlerGetsItsData
    LastRegisteredRuns
    InitialisedHartsTrapWell
    ClintStaysReachable
    LevelIsKept
CHECK_DEADLOCK FALSE
