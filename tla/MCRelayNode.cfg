SPECIFICATION MCSpec
CONSTANTS
  s1 = s1
  s2 = s2
  c1 = c1
  c2 = c2
  Senders = {t1, t2}
  Closers = {c1, c2}
  Subs = {s1, s2}
  Filter <- Filters
  ChanDepth <- TwoAndOne
  Samples <- SampleFrames
  Traffic <- Received
  MaxSends = 1
  ReadMayFail = TRUE
  Messages <- SampleMessages
  Policies <- SomePolicies
  OutDepth <- OneEach
  Leavers = {s2}
INVARIANTS TypeOK NumberedInOrder Forwardable ReaderOwnsSocket WireExact CloseComplete
PROPERTIES NothingSentAfterClose EveryCallReturns
