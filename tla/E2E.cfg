SPECIFICATION Spec
CONSTANTS
  Callers = {r1, r2}
  SeqModulus = 4
  Lifetime = 3
  MaxSends = 7
  Damage = {"none", "short", "ids", "seq", "crc", "payload", "foreign"}
INVARIANTS TypeOK PayloadIntact
PROPERTIES NoFalseGap ImplementsStream
