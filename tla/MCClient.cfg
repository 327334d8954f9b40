CONSTANTS
  None = None
  NoMessage = NoMessage
  Threads = {t1, t2}
  MaxOps = 4
  MaxDepth = 2
  Clients = {c1, c2}
  MaxMessages = 3
SPECIFICATION MCSpec
CHECK_DEADLOCK FALSE
INVARIANTS SectionsInv IntrudersWereEarly ChannelInv
PROPERTIES CallsServed Answered
