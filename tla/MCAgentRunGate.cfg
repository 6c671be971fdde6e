\* One run, two calls with two possible arguments, all kinds of tool.
SPECIFICATION Spec
CONSTANTS
    r1 = r1
    c1 = c1
    c2 = c2
    a1 = a1
    a2 = a2
    read = read
    write = write
    reserved = reserved
    NoCall = NoCall
    NoTool = NoTool
    NoArgs = NoArgs
    Run <- OneRun
    CallId <- TwoCalls
    Tool <- AllTools
    ReadOnly <- ReadTools
    NeverAuto <- Reserved
    Verdicts <- YesNo
    Args <- TwoArgs
    MaxToolRounds = 1
    MaxCalls = 2
    MaxStuck = 1
    ToolThreads = 1
SYMMETRY CallSymmetry
INVARIANTS IInv HumanGate RefusedNeverRuns AtMostOnce LateStartBound ThreadBound
PROPERTIES KeepsContract
