CONSTANTS
    Incoming = {n1, n2, n3}
    Outgoing = {n1, n3}
    Self = n1
    Contexts = {c1, c2}
    IsSingleton = FALSE
    Option = "ReadOnlySafe"
    MaxCommit = 2
    MaxPostponed = 1
SPECIFICATION MCSpec
CHECK_DEADLOCK FALSE
INVARIANTS
    OneWinner
    ResultIsVerdict
    QueueIsMap
    ReadFresh
PROPERTIES
    VerdictFinal
    LeavesConfirmed
    ReadAnswered
