\* Two threads use each system, two to four calls in all.
SPECIFICATION Spec
CONSTANTS
    c1 = c1
    c2 = c2
INVARIANTS LinksTellTheTruth FollowersInStep LatchesFreed OvershootBounded TraceFiles NothingLeft WholeOrAbsent
PROPERTIES EveryCallEnds WedgedIsReplaced
CHECK_DEADLOCK FALSE
