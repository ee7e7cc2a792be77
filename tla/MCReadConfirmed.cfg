CONSTANTS
    Incoming = {n1, n2, n3}
    Outgoing = {}
    Self = n1
    Contexts = {c1}
    IsSingleton = TRUE
    Option = "ReadOnlySafe"
    MaxCommit = 1
    MaxPostponed = 1
SPECIFICATION Spec
CHECK_DEADLOCK FALSE
INVARIANT ReadConfirmed
