CONSTANTS
    Items = {i1, i2}
    Concurrency = 2
    JudgeWorkers = 2
    SinkPerAdapter = TRUE
SPECIFICATION TraceSpec
CHECK_DEADLOCK FALSE
INVARIANT LinesAreWhole
