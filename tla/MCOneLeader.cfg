CONSTANTS
    N = 3
    Value = {v1}
    InitLog = init
    Timers = {0, 1, 2}
    Unreliable = {"Election", "Heart"}
    MaxTerm = 2
    MaxItems = 0
    MaxRestarts = 0
    MaxCalls = 0
    MaxHearts = 1
    MaxDead = 1
SPECIFICATION Spec
INVARIANTS
    OneLeaderPerTerm
CHECK_DEADLOCK FALSE
