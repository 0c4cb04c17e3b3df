SPECIFICATION FairSpec
CONSTANTS
  a = a
  b = b
  s = s
  t1 = t1
  t2 = t2
  o1 = o1
  o2 = o2
  None = None
  VaultAuthority = VaultAuthority
  Wallet = {a, b}
  Mint = {m}
  Party <- TwoParties
  Swap <- SameHash
  Amount = {1}
  Donor = {a}
  Lamport = {0, 1, 3}
  Secret = {s}
  Tx <- NoTx
  DataAccount = {d1}
  RelayIx <- HeightPassed
  Timestamp = {10, 11}
  MaxSwaps = 1
  BLOCKHEIGHT_EXPIRY_THRESHOLD = 10
  MAX_CONFIRMATIONS = 1
  RENT = 2
  U64 = 16
  InitialTokens = 1
  InitialLamports = 3
INVARIANTS EscrowFunded
PROPERTIES EscrowsEnd
CHECK_DEADLOCK FALSE
