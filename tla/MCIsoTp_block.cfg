SPECIFICATION MCSpec
CONSTANTS
  A = A
  B = B
  Scenarios = {"any"}
  Lengths = {20}
  BlockSize = 2
  SnModulus = 16
  Depth = 4
  MaxMsgs <- OneWayOnce
  MaxLoss = 0
  FlowStatus = {"CTS"}
  AfterWait = {"CTS"}
  MaxWaits = 0
  Retries = FALSE
  Patient = TRUE
INVARIANTS NoTimeout
