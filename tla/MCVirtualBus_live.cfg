SPECIFICATION DrainedSpec
CONSTANTS
  t1 = t1
  t2 = t2
  c1 = c1
  d1 = d1
  s1 = s1
  s2 = s2
  x = x
  y = y
  bad = bad
  BadId = bad
  Senders = {t1, t2}
  Closers = {c1}
  Drainers = {d1}
  Subs = {s1, s2}
  SelfClosers = {}
  Policies <- EveryPolicy
  Filter <- Filters
  Ids <- OneId
  ChanDepth <- Depths
  DefaultDepth = 1
  MaxSends <- OneEach
INVARIANTS DrainedBeforeClose
PROPERTIES EveryCallReturns
