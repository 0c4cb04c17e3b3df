SPECIFICATION MCSystemSpec
CONSTANTS
  PRUNING_FACTOR = 3
  Label = {1, 2}
  MaxDifficulty = 1
  MaxDepth = 4
  MaxHeaders = 2
  MaxForks = 1
  InitHeight = 3
  NoCommitment = NoCommitment
  Signer = {s1}
  Header <- MCHeader
  ChainWork <- MCChainWork
  Candidate <- MCGenuine
  Batch <- MCBatch
  a = a
  b = b
  t1 = t1
  o1 = o1
  None = None
  VaultAuthority = VaultAuthority
  Included <- MCIncluded
  Wallet = {a, b}
  Mint = {m}
  Party <- MCParty
  Swap <- MCSwap
  Amount = {}
  Donor = {}
  Lamport = {0}
  Secret = {}
  Tx <- MCTx
  DataAccount = {}
  RelayIx <- MCRelayIx
  Timestamp = {10, 11}
  MaxSwaps = 1
  BLOCKHEIGHT_EXPIRY_THRESHOLD = 10
  MAX_CONFIRMATIONS = 2
  RENT = 1
  U64 = 16
  InitialTokens = 1
  InitialLamports = 1
INVARIANTS ClaimWindowOpen WindowComplete TipRetrievable
PROPERTIES SettledByBitcoin
CHECK_DEADLOCK FALSE
