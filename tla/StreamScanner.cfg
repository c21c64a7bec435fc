\* Every event, three lines, channels at their limits.
CONSTANTS
    MaxSent = 3
    DataSize = 1
    StopSize = 3
    Events = {"gone", "idle", "fail", "panic", "late"}
SPECIFICATION FairScanSpec
CHECK_DEADLOCK FALSE
INVARIANTS
    DoneIsComplete
    OneWriter
PROPERTIES
    EveryStreamReturns
    AllGoroutinesEnd
