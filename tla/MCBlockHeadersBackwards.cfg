SPECIFICATION Spec
CONSTANTS
  BASE = 4
  BYTES = 7
  LEADING = 2
  DIFF_ADJUSTMENT_INTERVAL = 4
  TARGET_TIMESPAN = 4
  MAX_FUTURE_BLOCKTIME = 2
  PREV_TIMESTAMPS = 2
  Timestamp = {0, 1, 2, 3, 4, 6, 9, 20, 30}
  Clock = {4, 30}
  MaxHeight = 8
  FirstTimes <- Increasing
  FirstNbits <- AllNbits
  FirstChains <- MCFirstChains
  Offered <- MCOffered
INVARIANTS AcceptsAllOfBitcoin
CHECK_DEADLOCK FALSE
