SPECIFICATION MCSpec
CONSTANTS
  PRUNING_FACTOR = 2
  Label = {1, 4}
  MaxDifficulty = 4
  MaxDepth = 4
  MaxHeaders = 2
  MaxForks = 2
  InitHeight = 2
  NoCommitment = NoCommitment
  Signer = {s1, s2}
  Header <- MCHeader
  ChainWork <- MCChainWork
  Candidate <- MCCandidate
  Batch <- MCBatch
SYMMETRY Symmetry
INVARIANTS TipRetrievable
CHECK_DEADLOCK FALSE
