\* stop() gives up waiting while a mission's run is in flight.
SPECIFICATION Spec
CONSTANTS
    t1 = t1
    t2 = t2
    r1 = r1
    r2 = r2
    r3 = r3
    NoRun = NoRun
    NoThread = NoThread
    Thread <- OneThread
    Run <- TwoRuns
    NMissions = 1
    MaxRuns = 1
    Isolated = FALSE
    MaxBoots = 1
    MaxFaults = 0
    MaxDeaths = 0
INVARIANTS ShutdownKeepsMissions
