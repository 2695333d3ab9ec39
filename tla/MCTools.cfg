SPECIFICATION Spec
CONSTANTS
  Tools = {"dbc", "cli", "interop"}
  Inputs <- MCInputs
  Payloads <- MCPayloads
  IntBits = 8
  Mantissa = 6
  Unreadable = Unreadable
  ArgLists <- MCArgLists
  Objects <- MCObjects
  Streamed <- MCStreamed
  MaxStream = 4
  MaxU32 = 536870920
  Writer = writer
  Reader = reader
  Count = 2
  DataLen = 2
  PeerFlags = {"fd", "brs"}
  Noise <- MCNoise
  MaxNoise = 1
  Timed = {writer}
  PipeSize = 2
  ChanSize = 2
INVARIANTS ReadsTheFile DecodesExactly SendsUpToTheFault ConvertFeedsSend OutputWhole PeersAgree
PROPERTIES EveryExecReturns
CHECK_DEADLOCK FALSE
