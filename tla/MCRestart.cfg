CONSTANTS
    N = 2
    Value = {v1}
    InitLog = init
    Timers = {0, 1}
    Unreliable = {"Dial", "Election", "Append"}
    MaxTerm = 2
    MaxItems = 1
    MaxRestarts = 1
    MaxCalls = 1
    MaxHearts = 0
    MaxDead = 1
SPECIFICATION FairSpec
INVARIANTS
    TypeOK
    VoteOnce
    Persisted
PROPERTIES
    ElectionReturns
CHECK_DEADLOCK FALSE
