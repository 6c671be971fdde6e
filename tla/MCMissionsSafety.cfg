\* Two missions on one or two threads, one crash or shutdown.
SPECIFICATION Spec
CONSTANTS
    t1 = t1
    t2 = t2
    r1 = r1
    r2 = r2
    r3 = r3
    NoRun = NoRun
    NoThread = NoThread
    Thread <- TwoThreads
    Run <- ThreeRuns
    NMissions = 2
    MaxRuns = 2
    Isolated = TRUE
    MaxBoots = 1
    MaxFaults = 0
    MaxDeaths = 0
SYMMETRY RowSymmetry
INVARIANTS BudgetBound SerialRuns CancelReachesRun
PROPERTIES ServesQueue
