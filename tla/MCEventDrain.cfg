\* With the background drain, and without it over two debuggers.
SPECIFICATION EitherSpec
CONSTANTS
    Drainers <- Both
    Rounds <- MCRounds
    Ring = 2
    Batch = 1
    Limit = 2
    Window = 2
    Retained = 3
    MaxSeq = 3
    MaxBroken = 0
    MaxLives = 1
    MaxFaults = 1
INVARIANTS EventsArriveOnce AloneLogAgrees TargetIsToldTruly ImportsFound
PROPERTIES PumpReachesEnd
CHECK_DEADLOCK FALSE
