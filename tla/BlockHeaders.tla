---------------------------- MODULE BlockHeaders ----------------------------
(***************************************************************************)
(* The header rules of the btc-relay (verify_header and what it calls in   *)
(* utils.rs), on the one committed header that a chain of headers is       *)
(* verified from: its commitment is all the program knows of the past.     *)
(*                                                                         *)
(* The state is that committed header and, beside it, the chain of headers *)
(* that led to it.  The rules read the former only; the latter is what     *)
(* they stand for.  Which header of which fork is extended is left to      *)
(* BtcRelay.  Left out: the check of the topic account, which is an index  *)
(* for readers, and the merkle root and version, which no rule reads.      *)
(***************************************************************************)
EXTENDS U256, SequencesExt

CONSTANTS
  DIFF_ADJUSTMENT_INTERVAL,     \* 2016
  TARGET_TIMESPAN,              \* two weeks, in seconds
  MAX_FUTURE_BLOCKTIME,         \* four hours
  PREV_TIMESTAMPS,              \* 10
  Timestamp,    \* bound: times of blocks
  Clock,        \* bound: times of the clock sysvar
  Offered(_),   \* bound: the headers passed on top of a committed header
  FirstChains,  \* chains of headers that end in the checkpoint
  MaxHeight     \* bound: height of the last header

ASSUME HeaderRuleAssumption ==
  /\ {DIFF_ADJUSTMENT_INTERVAL, TARGET_TIMESPAN, MAX_FUTURE_BLOCKTIME} \subseteq Nat \ {0}
  /\ PREV_TIMESTAMPS \in Nat /\ PREV_TIMESTAMPS % 2 = 0
  /\ TARGET_TIMESPAN % 4 = 0
  /\ MaxHeight \in Nat
  /\ Timestamp \cup Clock \subseteq Nat

\* A header comes with its hash, in the order of the digits of a target.
BlockHeader == [timestamp : Timestamp, nbits : Nbits, block_hash : Array]

\* A header as Bitcoin sees it, with its hash as a number.
Seen(header) == [header EXCEPT !.block_hash = Value(@)]

\* A target that headers of Bitcoin have: no sign, not above the largest one,
\* and with a difficulty.
SoundNbits(nbits) ==
  /\ NbitsToTargetDefined(nbits)
  /\ nbits.word[1] < BASE \div 2
  /\ LteArr(NbitsToTarget(nbits), UNROUNDED_MAX_TARGET)
  /\ GetDifficultyDefined(NbitsToTarget(nbits))

\* The checkpoint has a known past, and the target of a header of Bitcoin.
ASSUME FirstChainAssumption ==
  \A first \in FirstChains :
    /\ first \in Seq(BlockHeader)
    /\ Len(first) > PREV_TIMESTAMPS
    /\ SoundNbits(first[Len(first)].nbits)

VARIABLES
  last,         \* last_commited_header
  chain         \* the headers of its chain as Bitcoin sees them, from height 0

vars == <<last, chain>>

CommittedBlockHeader ==
  [chain_work            : Array,
   header                : BlockHeader,
   last_diff_adjustment  : Timestamp,
   blockheight           : Nat,
   prev_block_timestamps : [1 .. PREV_TIMESTAMPS -> Timestamp]]

-----------------------------------------------------------------------------
(* Difficulty.                                                             *)

TARGET_TIMESPAN_DIV_4 == TARGET_TIMESPAN \div 4
TARGET_TIMESPAN_MUL_4 == TARGET_TIMESPAN * 4

\* u32 subtraction: the instruction aborts below zero.
ComputeNewNbitsDefined(prev_time, start_time) == prev_time >= start_time

ComputeNewNbits(prev_time, start_time, prev_target) ==
  LET time_span == Min({Max({prev_time - start_time, TARGET_TIMESPAN_DIV_4}), TARGET_TIMESPAN_MUL_4})
      target    == DivInPlace(MulInPlace(prev_target, time_span), TARGET_TIMESPAN)
  IN  TargetToNbits(IF GtArr(target, UNROUNDED_MAX_TARGET) THEN UNROUNDED_MAX_TARGET ELSE target)

ShouldDiffAdjust(block_height) == block_height % DIFF_ADJUSTMENT_INTERVAL = 0

HasCorrectDifficultyTarget(prev, current_nbits) ==
  IF ShouldDiffAdjust(prev.blockheight + 1)
  THEN /\ ComputeNewNbitsDefined(prev.header.timestamp, prev.last_diff_adjustment)
       /\ NbitsToTargetDefined(prev.header.nbits)
       /\ current_nbits = ComputeNewNbits(prev.header.timestamp, prev.last_diff_adjustment,
                                          NbitsToTarget(prev.header.nbits))
  ELSE current_nbits = prev.header.nbits

-----------------------------------------------------------------------------
(* The other rules, and the committed header of the next block.            *)

\* Mutant: the last block's own time is forgotten.
IsLargerThanMedianOfTen(arr, additional, curr_timestamp) ==
  Cardinality({i \in DOMAIN arr : curr_timestamp > arr[i]}) > PREV_TIMESTAMPS \div 2

\* Larger than more than half of the past times, of which arr has all but one.
IsLargerThanMedian(arr, additional, curr_timestamp) ==
  Cardinality({i \in DOMAIN arr : curr_timestamp > arr[i]})
  + (IF curr_timestamp > additional THEN 1 ELSE 0) > PREV_TIMESTAMPS \div 2

HeaderPasses(header, prev, now) ==
  /\ HasCorrectDifficultyTarget(prev, header.nbits)
  /\ NbitsToTargetDefined(header.nbits)
  /\ LteArr(header.block_hash, NbitsToTarget(header.nbits))
  /\ IsLargerThanMedian(prev.prev_block_timestamps, prev.header.timestamp, header.timestamp)
  /\ header.timestamp < now + MAX_FUTURE_BLOCKTIME
  /\ GetDifficultyDefined(NbitsToTarget(header.nbits))

\* Mutants: the oldest time is overwritten in place, or not dropped.
PushTimestampInPlace(arr, t) == [arr EXCEPT ![1] = t]
PushTimestampGrow(arr, t) == Append(arr, t)

PushTimestamp(arr, t) ==
  [i \in 1 .. PREV_TIMESTAMPS |-> IF i < PREV_TIMESTAMPS THEN arr[i+1] ELSE t]

CommittedAfter(header, prev) ==
  [chain_work |-> AddInPlace(prev.chain_work, GetDifficulty(NbitsToTarget(header.nbits))),
   header |-> header,
   last_diff_adjustment |-> IF ShouldDiffAdjust(prev.blockheight + 1)
                            THEN header.timestamp ELSE prev.last_diff_adjustment,
   blockheight |-> prev.blockheight + 1,
   prev_block_timestamps |-> PushTimestamp(prev.prev_block_timestamps, prev.header.timestamp)]

VerifyHeader(header, now) ==
  /\ HeaderPasses(header, last, now)
  /\ last' = CommittedAfter(header, last)
  /\ chain' = Append(chain, Seen(header))

\* The checkpoint's committed header, which `initialize' takes as it is given.
CheckpointOf(first) ==
  LET n == Len(first) IN
  [chain_work |-> GetDifficulty(NbitsToTarget(first[n].nbits)),
   header |-> first[n],
   last_diff_adjustment |-> first[n - ((n-1) % DIFF_ADJUSTMENT_INTERVAL)].timestamp,
   blockheight |-> n - 1,
   prev_block_timestamps |-> [i \in 1 .. PREV_TIMESTAMPS |-> first[n - 1 - PREV_TIMESTAMPS + i].timestamp]]

Init ==
  \E first \in FirstChains :
    /\ last = CheckpointOf(first)
    /\ chain = [i \in DOMAIN first |-> Seen(first[i])]

Next ==
  /\ last.blockheight < MaxHeight
  /\ \E header \in Offered(last) \cap BlockHeader, now \in Clock : VerifyHeader(header, now)

Spec == Init /\ [][Next]_vars

-----------------------------------------------------------------------------
(* Properties.                                                             *)

TypeOK == last \in CommittedBlockHeader /\ Len(chain) = last.blockheight + 1

Bitcoin ==
  INSTANCE BitcoinHeaders WITH
    Base     <- BASE,
    PowLimit <- Value(UNROUNDED_MAX_TARGET),
    Interval <- DIFF_ADJUSTMENT_INTERVAL,
    Timespan <- TARGET_TIMESPAN,
    Past     <- PREV_TIMESTAMPS + 1

\* Nothing is lost in front of the first digit: four times the two weeks, and
\* heights, are u32, and the largest target has as many bits in front of it.
ASSUME LeadingAssumption ==
  /\ TARGET_TIMESPAN_MUL_4 <= Bitcoin!Power[LEADING]
  /\ MaxHeight < Bitcoin!Power[LEADING]

\* Whatever header the relay accepts on what is left of the past in the last
\* committed header is one that Bitcoin's rules accept on the whole chain:
\* retargeting with its truncations and limits, proof of work and median time.
ImplementsBitcoin == Bitcoin!Spec

\* The context a committed header carries is that of its chain, over the
\* adjustments, although the first time of a period is only replaced, and the
\* times shifted, header by header (structs.rs:31-40).
ContextMatches ==
  LET n == Len(chain) IN
  /\ last.blockheight = n - 1
  /\ Seen(last.header) = chain[n]
  /\ last.last_diff_adjustment = chain[n - ((n-1) % DIFF_ADJUSTMENT_INTERVAL)].timestamp
  /\ \A i \in 1 .. PREV_TIMESTAMPS :
       last.prev_block_timestamps[i] = chain[n - 1 - PREV_TIMESTAMPS + i].timestamp

\* The relay accepts every header that Bitcoin accepts, with the hash just at
\* the target, that is timely and whose target has a difficulty: "Difficulty
\* increase/decrease multiples are clamped between 0.25 (-75%) and 4 (+300%)"
\* (utils.rs:217), so that there is always a next target.
AcceptsAllOfBitcoin ==
  LET nbits  == Bitcoin!RequiredNbits
      median == Bitcoin!MedianTimePast
      Header(t) == [timestamp |-> t, nbits |-> nbits, block_hash |-> NbitsToTarget(nbits)]
  IN  Bitcoin!Expand(nbits) >= BASE * BASE =>
        \A now \in Clock, t \in Timestamp :
          median < t /\ t < now + MAX_FUTURE_BLOCKTIME => HeaderPasses(Header(t), last, now)

\* The same but after a period whose last header has an earlier time than its
\* first: the relay follows Bitcoin, and never stops, in every other case.
GoesBack == ShouldDiffAdjust(Len(chain)) /\ Bitcoin!PeriodTime < 0

AcceptsBitcoin == GoesBack \/ AcceptsAllOfBitcoin

\* The work of a chain is the sum over its headers of the whole number of times
\* the target fits into the largest one: no digit is lost in the division, the
\* shift and the sum, and every header adds work, so that a longer branch of one
\* difficulty is a heavier one.
Work(header) == Value(MAX_DIFFICULTY) \div Bitcoin!Expand(header.nbits)

WorkIsSum ==
  \E first \in FirstChains :
    LET added == Len(first) .. Len(chain) IN
    /\ \A i \in DOMAIN first : Seen(first[i]) = chain[i]
    /\ Value(last.chain_work) = SumFunctionOnSet([i \in added |-> Work(chain[i])], added)
    /\ \A i \in added : Work(chain[i]) > 0
=============================================================================
