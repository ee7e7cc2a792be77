CONSTANTS
    Size = 5
    Indices = {1, 2, 3, 4, 5, 6, 7, 8}
SPECIFICATION Spec
INVARIANTS
    WriteInRange
    CountOutstanding
PROPERTY WindowSpec
