\* A store access fails, a run dies silently, the process crashes or shuts down.
SPECIFICATION FairSpec
CONSTANTS
    t1 = t1
    t2 = t2
    r1 = r1
    r2 = r2
    r3 = r3
    NoRun = NoRun
    NoThread = NoThread
    Thread <- OneThread
    Run <- TwoRuns
    NMissions = 2
    MaxRuns = 2
    Isolated = FALSE
    MaxBoots = 1
    MaxFaults = 1
    MaxDeaths = 1
INVARIANTS NoStrandedMission VerdictsAreTrue
PROPERTIES MissionEnds
