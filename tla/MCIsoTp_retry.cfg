SPECIFICATION MCSpec
CONSTANTS
  A = A
  B = B
  Scenarios = {"any"}
  Lengths = {13, 20}
  BlockSize = 0
  SnModulus = 16
  Depth = 4
  MaxMsgs <- OneWay
  MaxLoss = 0
  FlowStatus = {"CTS"}
  AfterWait = {"CTS"}
  MaxWaits = 0
  Retries = TRUE
  Patient = FALSE
INVARIANTS Integrity
