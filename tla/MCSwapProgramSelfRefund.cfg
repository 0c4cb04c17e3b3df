SPECIFICATION SwapSpec
CONSTANTS
  a = a
  b = b
  s = s
  t1 = t1
  t2 = t2
  o1 = o1
  o2 = o2
  None = None
  VaultAuthority = VaultAuthority
  Wallet = {a, b}
  Mint = {m}
  Party <- SelfSwaps
  Swap <- SameHash
  Amount = {2}
  Donor = {}
  Lamport = {0}
  Secret = {s}
  Tx <- NoTx
  DataAccount = {}
  RelayIx <- HeightPassed
  Timestamp = {10, 11}
  MaxSwaps = 1
  BLOCKHEIGHT_EXPIRY_THRESHOLD = 10
  MAX_CONFIRMATIONS = 1
  RENT = 1
  U64 = 16
  InitialTokens = 2
  InitialLamports = 2
PROPERTIES LossOnlyIntoVault
CHECK_DEADLOCK FALSE
