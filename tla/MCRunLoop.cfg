CONSTANTS
  Proposers = {p1}
  Senders = {m1}
  Reporters = {u1}
  Watchers = {s1}
  Stoppers = {x1}
  None = None
  Peer = Peer
SPECIFICATION FairSpec
CHECK_DEADLOCK FALSE
INVARIANTS OneReadyAtATime AnswerTruthful
PROPERTIES CallsReturn
