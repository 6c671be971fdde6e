\* One thread, no concurrency: a start, and a start that is to replace it.
SPECIFICATION Spec
CONSTANTS
    Tools = {w1}
    MaxTools = 3
INVARIANTS ReplaceRestarts
CHECK_DEADLOCK FALSE
