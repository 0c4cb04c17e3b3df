--------------------------- MODULE BitcoinHeaders ---------------------------
(***************************************************************************)
(* Bitcoin's own rules for the next header of a chain, on integers and on  *)
(* the whole chain: what the btc-relay has to decide from the last         *)
(* committed header alone.  Targets, hashes and times are numbers; nbits   *)
(* are a base and three digits, as on the wire.                            *)
(***************************************************************************)
EXTENDS Integers, SequencesExt

CONSTANTS
  Base,         \* of the digits of a compact target
  PowLimit,     \* the largest target
  Interval,     \* blocks between difficulty adjustments
  Timespan,     \* that they should take
  Past          \* the median time is that of this many blocks

VARIABLE chain  \* the headers [timestamp, nbits, block_hash] from height 0

Power[k \in Nat] == IF k = 0 THEN 1 ELSE Base * Power[k-1]

\* The number a compact target stands for, and the compact form of a number,
\* rounded down to three digits of which the first has its top bit clear.
Expand(nbits) ==
  LET n == (nbits.word[1] * Base + nbits.word[2]) * Base + nbits.word[3]
  IN  IF nbits.size >= 3 THEN n * Power[nbits.size - 3] ELSE n \div Power[3 - nbits.size]

Compact(n) ==
  LET size == CHOOSE k \in 0 .. n + 1 : Power[k] > n /\ \A j \in 0 .. k-1 : Power[j] <= n
      top  == IF size >= 1 THEN n \div Power[size - 1] ELSE 0
      full == IF top >= Base \div 2 THEN size + 1 ELSE size
      word == IF full >= 3 THEN n \div Power[full - 3] ELSE n * Power[3 - full]
  IN  [size |-> full,
       word |-> <<word \div (Base * Base), (word \div Base) % Base, word % Base>>]

Tip == chain[Len(chain)]

\* The time that the period now ending took, which may be negative.
PeriodTime == Tip.timestamp - chain[Len(chain) - Interval + 1].timestamp

Clamp(t) == Max({Timespan \div 4, Min({Timespan * 4, t})})

RequiredNbits ==
  IF Len(chain) % Interval = 0
  THEN Compact(Min({PowLimit, (Expand(Tip.nbits) * Clamp(PeriodTime)) \div Timespan}))
  ELSE Tip.nbits

\* The median of the times of the last blocks.
MedianTimePast ==
  LET past == Len(chain) - Past + 1 .. Len(chain)
      Before(t) == {i \in past : chain[i].timestamp < t}
      UpTo(t)   == {i \in past : chain[i].timestamp <= t}
  IN  CHOOSE t \in {chain[i].timestamp : i \in past} :
        /\ Cardinality(Before(t)) <= Past \div 2
        /\ Cardinality(UpTo(t)) > Past \div 2

ValidHeader(header) ==
  /\ header.nbits = RequiredNbits
  /\ header.block_hash <= Expand(header.nbits)
  /\ header.timestamp > MedianTimePast

\* Any chain that is long enough to have a median.
Init == Len(chain) >= Past

Next ==
  /\ ValidHeader(Last(chain'))
  /\ chain' = Append(chain, Last(chain'))

Spec == Init /\ [][Next]_chain
=============================================================================
