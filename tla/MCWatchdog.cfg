\* The monitor, the watchdog, a closing thread and callers over one backend;
\* two callers over a debugger.
SPECIFICATION PartsSpec
CONSTANTS
    b1 = b1
    t1 = t1
    t2 = t2
    asker = asker
    None = None
    Backends <- OneBackend
    Sweepers <- TwoSweepers
    Asker = asker
    MaxSkip = 1
    MaxDrops = 1
    MaxDeaths = 1
    Limit = 2
INVARIANTS OneSweeper NoRowOfClosed ToldOnce RunsAsTold
PROPERTIES RestartHonoured TriedAgain
CHECK_DEADLOCK FALSE
