\* Two concurrent calls over two sessions with both backends.
SPECIFICATION Spec
CONSTANTS
    s1 = s1
    s2 = s2
    w1 = w1
    w2 = w2
    c1 = c1
    c2 = c2
    ida = ida
    xdbg = xdbg
    None = None
    Ids <- TwoIds
    Kinds <- BothKinds
    Debugger = xdbg
    Workers <- TwoWorkers
    Threads <- TwoThreads
    Keep = 1
SYMMETRY IdSymmetry
INVARIANTS WorkersOwned ClosedIsEmpty PassingStatesPass OneOpener
PROPERTIES ClosingIsFinal
CHECK_DEADLOCK FALSE
