SPECIFICATION Spec
CONSTANTS
  t1 = t1
  t2 = t2
  c1 = c1
  d1 = d1
  s1 = s1
  s2 = s2
  x = x
  y = y
  bad = bad
  BadId = bad
  Senders = {t1, t2}
  Closers = {c1}
  Drainers = {}
  Subs = {s1, s2}
  SelfClosers = {s2}
  Policies <- EveryPolicy
  Filter <- Filters
  Ids <- TwoIds
  ChanDepth <- Depths
  DefaultDepth = 1
  MaxSends <- TwoAndOne
INVARIANTS TypeOK OrderedAndFiltered CountersAgree NothingSkipped CloseIsComplete
PROPERTIES NothingAfterClose
