CONSTANTS
    Size = 2
    MaxIndex = 4
    MaxSent = 4
SPECIFICATION Spec
CONSTRAINT FewSent
CHECK_DEADLOCK FALSE
INVARIANTS
    WithinLog
    WindowBetween
    RoomToAdd
    NothingSkipped
