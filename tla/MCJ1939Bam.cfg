SPECIFICATION MCSpec
CONSTANTS
  t1 = t1
  t2 = t2
  a1 = a1
  a2 = a2
  b = b
  Senders = {t1, t2}
  Addr <- OwnAddresses
  Sizes = {8, 14}
  Pgns = {1, 2}
  Wanted = {1}
  Announced <- Neighbours
  MaxSessions = 2
  OutDepth = 1
  MaxMsgs <- TwoAndOne
  MaxQueue = 2
  MaxForeign = 1
  MaxFaults = 2
  Ecus = {t1, t2}
  Address <- Addresses
  Requests <- MCRequests
  PgnFilter <- MCPgnFilter
  Others <- MCOthers
  RawDepth = 2
  FramesDepth = 2
  MaxRequests = 2
  MaxOthers = 1
INVARIANTS TypeOK Whole Reaches FramesArrive
PROPERTIES ExpiredIsDead
CHECK_DEADLOCK FALSE
