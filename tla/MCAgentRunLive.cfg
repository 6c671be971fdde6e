\* One run with every way to end, under the fairness of the event loop.
SPECIFICATION FairSpec
CONSTANTS
    r1 = r1
    c1 = c1
    c2 = c2
    a1 = a1
    a2 = a2
    read = read
    write = write
    reserved = reserved
    NoCall = NoCall
    NoTool = NoTool
    NoArgs = NoArgs
    Run <- OneRun
    CallId <- TwoCalls
    Tool <- AllTools
    ReadOnly <- ReadTools
    NeverAuto <- Reserved
    Verdicts <- YesNo
    Args <- OneArgs
    MaxToolRounds = 2
    MaxCalls = 1
    MaxStuck = 1
    ToolThreads = 1
PROPERTIES BegunRunEnds
