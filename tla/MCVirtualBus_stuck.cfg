SPECIFICATION FairSpec
CONSTANTS
  t1 = t1
  t2 = t2
  c1 = c1
  d1 = d1
  s1 = s1
  s2 = s2
  x = x
  y = y
  bad = bad
  BadId = bad
  Senders = {t1}
  Closers = {}
  Drainers = {d1}
  Subs = {s1, s2}
  SelfClosers = {}
  Policies <- BlockPolicy
  Filter <- Filters
  Ids <- OneId
  ChanDepth <- Depths
  DefaultDepth = 1
  MaxSends <- TwoEach
PROPERTIES EveryCloseReturns
CHECK_DEADLOCK FALSE
