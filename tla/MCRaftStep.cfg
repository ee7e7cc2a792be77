CONSTANTS
  n1 = n1
  n2 = n2
  None = None
  Nodes = {n1, n2}
  Sole = n1
  Log <- MCLog
  ElectionTimeout = 2
  HeartbeatTimeout = 1
  MaxUncommitted = 1
  MaxTerm = 2
  MaxMsgs = 2
  MaxTransfers = 1
SPECIFICATION FairSpec
CHECK_DEADLOCK FALSE
INVARIANTS PanicsKnown LeadHasReigned
PROPERTIES LeaderUndisturbed VoteKept TransferEnds
