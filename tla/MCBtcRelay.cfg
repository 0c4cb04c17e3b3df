SPECIFICATION MCSpec
CONSTANTS
  PRUNING_FACTOR = 3
  Label = {1, 2}
  MaxDifficulty = 2
  MaxDepth = 4
  MaxHeaders = 2
  MaxForks = 2
  InitHeight = 3
  NoCommitment = NoCommitment
  Signer = {s1, s2}
  Header <- MCHeader
  ChainWork <- MCChainWork
  Candidate <- MCCandidate
  Batch <- MCBatch
SYMMETRY Symmetry
INVARIANTS TypeOK CommitmentsGenuine RingShape ForksAreBranches ForksNotHeavier ForkIdsUnique ConfirmationsReal
PROPERTIES SoundnessLostOnlyByStaleMerge ImplementsHeaviestChain
CHECK_DEADLOCK FALSE
