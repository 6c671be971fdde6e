SPECIFICATION EventsSpec
CONSTANTS
    Drainers <- OneCaller
    Rounds <- MCRounds
    Ring = 2
    Batch = 1
    Limit = 2
    Window = 2
    Retained = 3
    MaxSeq = 4
    MaxBroken = 0
    MaxLives = 2
    MaxFaults = 0
PROPERTY RingIsAppended
CHECK_DEADLOCK FALSE
