CONSTANTS
    N = 3
    Value = {v1}
    InitLog = init
    Timers = {0}
    Unreliable = {}
    MaxTerm = 1
    MaxItems = 2
    MaxRestarts = 0
    MaxCalls = 1
    MaxHearts = 1
    MaxDead = 0
SPECIFICATION Spec
INVARIANTS
    LogWellFormed
    CommitWithinLog
    CommittedHeldTwice
CHECK_DEADLOCK FALSE
