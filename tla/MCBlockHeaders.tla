--------------------------- MODULE MCBlockHeaders ---------------------------
(***************************************************************************)
(* Small instances of BlockHeaders: digits to the base 4, targets of up to *)
(* 5 of 7 digits, an adjustment every 4 headers that should take 4 seconds,*)
(* and the median of 3 times.                                              *)
(***************************************************************************)
EXTENDS BlockHeaders

CONSTANTS FirstTimes, FirstNbits

\* Compact targets: the largest, one that any slower period brings to it, one
\* of odd digits, and two of three and four digits.
Limit  == [size |-> 6, word |-> <<0, 3, 3>>]
Middle == [size |-> 5, word |-> <<1, 2, 3>>]
Small  == [size |-> 4, word |-> <<1, 0, 3>>]
Least  == [size |-> 3, word |-> <<1, 0, 1>>]

AllNbits == {Limit, Middle, Small, Least}

\* Before the checkpoint no rule applies but the order of what is known.
FirstOf(times, nbits) ==
  [i \in DOMAIN times |->
     [timestamp |-> times[i], nbits |-> nbits, block_hash |-> NbitsToTarget(nbits)]]

MCFirstChains == {FirstOf(times, nbits) : times \in FirstTimes, nbits \in FirstNbits}

Increasing == {<<0, 1, 2>>}
Ordinary == Increasing \cup {<<2, 0, 1>>, <<0, 0, 9>>, <<9, 0, 0>>}

\* Headers with the target that is asked for and, late enough for every median,
\* ones with the target before, with the largest, and without the work.
One == [i \in 1 .. BYTES |-> IF i = BYTES THEN 1 ELSE 0]

HeaderAt(t, nbits) == [timestamp |-> t, nbits |-> nbits, block_hash |-> NbitsToTarget(nbits)]

MCOffered(prev) ==
  LET required == IF ShouldDiffAdjust(prev.blockheight + 1)
                  THEN ComputeNewNbits(prev.header.timestamp, prev.last_diff_adjustment,
                                       NbitsToTarget(prev.header.nbits))
                  ELSE prev.header.nbits
      late == HeaderAt(Max(Timestamp), required)
  IN  {HeaderAt(t, required) : t \in Timestamp}
      \cup {HeaderAt(late.timestamp, nbits) : nbits \in {prev.header.nbits, Limit}}
      \cup {[late EXCEPT !.block_hash = AddInPlace(@, One)]}
=============================================================================
