SPECIFICATION Spec
CONSTANTS
  BASE = 8
  SHORT = 1
  WORD = 2
  LONG = 3
  HASH = 16
  SEQUENCE_FINAL = 48
  LOCKTIME_THRESHOLD = 20
  None = None
  Transaction <- MCTransaction
  AsNode <- MCAsNode
  MaxBlock = 5
  MaxProof = 2
INVARIANTS ParsesBack NonceIdentifies ProofsComplete ProofsSound
CHECK_DEADLOCK FALSE
