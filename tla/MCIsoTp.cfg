SPECIFICATION MCFairSpec
CONSTANTS
  A = A
  B = B
  Scenarios = {"one way", "duplex"}
  Lengths = {0, 5, 13, 20, 27, 41, 4096}
  BlockSize = 2
  SnModulus = 4
  Depth = 3
  MaxMsgs <- BothWays
  MaxLoss = 1
  FlowStatus = {"CTS", "Wait", "Overflow"}
  AfterWait = {"CTS", "Overflow"}
  MaxWaits = 2
  Retries = FALSE
  Patient = FALSE
INVARIANTS TypeOK FlowControlled Integrity
PROPERTIES EveryCallReturns
