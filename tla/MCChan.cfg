SPECIFICATION FairSpec
CONSTANTS
  p1 = p1
  p2 = p2
  c1 = c1
  c2 = c2
  a = a
  b = b
  Producers <- TwoProducers
  Consumers <- TwoConsumers
  Items <- TwoItems
  NoItem = NoItem
  Capacity = 2
INVARIANTS TypeOK NoLostWakeup
PROPERTIES ImplementsChannel ServesEveryCall
