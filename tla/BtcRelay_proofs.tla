--------------------------- MODULE BtcRelay_proofs ---------------------------
(***************************************************************************)
(* The invariants of BtcRelay, for every value of its constants.           *)
(*                                                                         *)
(* The instructions loop over vectors of headers, and the model writes the *)
(* loops as recursive functions.  The first two sections say what the two  *)
(* loops do, one storing commitments in the ring buffer and one verifying  *)
(* headers; the third is about ancestry of blocks.  The invariants follow. *)
(***************************************************************************)
EXTENDS BtcRelay, InductionLemmas, SequenceTheorems, TLAPS

USE PruningAssumption

-----------------------------------------------------------------------------
(***************************************************************************)
(* The ring buffer.                                                        *)
(***************************************************************************)

\* A height maps to a slot of the ring or to PRUNING_FACTOR.
LEMMA PositionType ==
  ASSUME NEW m \in MainState, NEW height \in Nat
  PROVE  GetPosition(m, height) \in 0 .. PRUNING_FACTOR
BY DEF GetPosition, MainState

\* Storing commitments leaves the other fields of the main state alone.
SameTip(m, r) ==
  /\ r.block_height = m.block_height
  /\ r.fork_counter = m.fork_counter
  /\ r.tip_commit_hash = m.tip_commit_hash
  /\ r.chain_work = m.chain_work

\* Storing a commitment changes one slot and, with slot 0, the start height.
LEMMA StoreFields ==
  ASSUME NEW m \in MainState, NEW height \in Nat, NEW c \in CommittedBlockHeader,
         NEW r, r = StoreBlockCommitment(m, height, c),
         NEW q, q = GetPosition(m, height)
  PROVE  /\ r \in MainState
         /\ SameTip(m, r)
         /\ q = PRUNING_FACTOR => r = m
         /\ q # PRUNING_FACTOR =>
              /\ q \in 0 .. PRUNING_FACTOR - 1
              /\ r.block_commitments[q] = c
              /\ \A p \in 0 .. PRUNING_FACTOR - 1 :
                   p # q => r.block_commitments[p] = m.block_commitments[p]
              /\ r.start_height = IF q = 0 THEN height ELSE m.start_height
<1>1. q \in 0 .. PRUNING_FACTOR
  BY PositionType
<1>2. CASE q = PRUNING_FACTOR
  BY <1>2 DEF StoreBlockCommitment, SameTip
<1>3. CASE q # PRUNING_FACTOR
  <2>1. q \in 0 .. PRUNING_FACTOR - 1
    BY <1>1, <1>3
  <2> DEFINE bc == [m.block_commitments EXCEPT ![q] = c]
             start == IF q = 0 THEN height ELSE m.start_height
  <2>2. r = [m EXCEPT !.block_commitments = bc, !.start_height = start]
    BY <1>3 DEF StoreBlockCommitment
  <2>3. m.block_commitments \in [0 .. PRUNING_FACTOR - 1 -> Commitment]
    BY DEF MainState
  <2>4. c \in Commitment
    BY DEF Commitment
  <2>5. bc \in [0 .. PRUNING_FACTOR - 1 -> Commitment]
    BY <2>1, <2>3, <2>4
  <2>6. bc[q] = c /\ \A p \in 0 .. PRUNING_FACTOR - 1 :
                        p # q => bc[p] = m.block_commitments[p]
    BY <2>1, <2>3
  <2>7. start \in Nat
    BY DEF MainState
  <2>8. r.block_commitments = bc /\ r.start_height = start /\ r \in MainState /\ SameTip(m, r)
    <3> HIDE DEF bc, start
    <3> QED
      BY <2>2, <2>5, <2>7 DEF MainState, SameTip
  <2> QED
    BY <1>3, <2>1, <2>6, <2>8
<1> QED
  BY <1>2, <1>3

LEMMA StoreType ==
  ASSUME NEW m \in MainState, NEW height \in Nat, NEW c \in CommittedBlockHeader
  PROVE  StoreBlockCommitment(m, height, c) \in MainState
BY StoreFields

\* The states of the main state through the loop that stores commitments.
IsStoring(stored, m, height, cs) ==
  /\ stored \in [0 .. Len(cs) -> MainState]
  /\ stored[0] = m
  /\ \A i \in 1 .. Len(cs) :
       stored[i] = StoreBlockCommitment(stored[i-1], height + i, cs[i])

LEMMA StoreLoop ==
  ASSUME NEW m \in MainState, NEW height \in Nat, NEW cs \in Seq(CommittedBlockHeader)
  PROVE  \E stored : /\ IsStoring(stored, m, height, cs)
                     /\ StoreBlockCommitments(m, height, cs) = stored[Len(cs)]
<1> DEFINE n == Len(cs)
           step == [i \in 1 .. n |->
                      [x \in MainState |-> StoreBlockCommitment(x, height + i, cs[i])]]
           Rec(g) == g = [i \in 0 .. n |->
                            IF i = 0 THEN m
                            ELSE StoreBlockCommitment(g[i-1], height + i, cs[i])]
<1>1. n \in Nat
  OBVIOUS
<1>2. \A i \in 1 .. n : cs[i] \in CommittedBlockHeader /\ height + i \in Nat
  OBVIOUS
<1> HIDE DEF n
<1>3. IsStep(step, n, MainState)
  BY <1>2, StoreType DEF IsStep
<1> HIDE DEF step
<1>4. PICK f : Iterates(f, n, MainState, m, step)
  BY <1>1, <1>3, IterationExists
<1>5. ASSUME NEW i \in 1 .. n
      PROVE  f[i] = StoreBlockCommitment(f[i-1], height + i, cs[i])
  <2>1. f[i-1] \in MainState
    BY <1>1, <1>4 DEF Iterates
  <2>2. step[i][f[i-1]] = StoreBlockCommitment(f[i-1], height + i, cs[i])
    BY <2>1 DEF step
  <2> QED
    BY <1>4, <2>2 DEF Iterates
<1>6. Rec(f)
  BY <1>1, <1>4, <1>5 DEF Iterates
<1>7. StoreBlockCommitments(m, height, cs) = (CHOOSE g : Rec(g))[n]
  BY DEF StoreBlockCommitments, n
<1> DEFINE g == CHOOSE g : Rec(g)
<1>8. Rec(g)
  BY <1>6
<1> HIDE DEF g
<1>9. g = [i \in 0 .. n |->
             IF i = 0 THEN m ELSE StoreBlockCommitment(g[i-1], height + i, cs[i])]
  BY <1>8
<1>10. g[0] = m /\ \A i \in 1 .. n : g[i] = StoreBlockCommitment(g[i-1], height + i, cs[i])
  BY <1>1, <1>9
<1>11. g \in [0 .. n -> MainState]
  <2> DEFINE S == {i \in 0 .. n : g[i] \in MainState}
  <2>1. 0 \in S
    BY <1>1, <1>10
  <2>2. \A i \in 1 .. n : i-1 \in S => i \in S
    <3> SUFFICES ASSUME NEW i \in 1 .. n, g[i-1] \in MainState
                 PROVE  g[i] \in MainState
      BY <1>1
    <3>1. StoreBlockCommitment(g[i-1], height + i, cs[i]) \in MainState
      BY <1>2, StoreType
    <3> QED
      BY <1>10, <3>1
  <2> HIDE DEF S
  <2>3. \A i \in 0 .. n : i \in S
    BY <1>1, <2>1, <2>2, UpTo
  <2>4. DOMAIN g = 0 .. n
    BY <1>9
  <2> QED
    BY <1>9, <2>3, <2>4 DEF S
<1>12. IsStoring(g, m, height, cs)
  BY <1>10, <1>11 DEF IsStoring, n
<1> QED
  BY <1>7, <1>12 DEF g, n

\* Slot by slot, what RingShape says of the ring alone.
SlotsInShape(m) ==
  /\ m.block_commitments[0] # NoCommitment
  /\ m.block_commitments[0].blockheight = m.start_height
  /\ \A p \in 1 .. PRUNING_FACTOR - 1 :
       m.block_commitments[p] # NoCommitment =>
         \/ m.block_commitments[p].blockheight = m.start_height + p
         \/ m.block_commitments[p].blockheight <= m.start_height + p - PRUNING_FACTOR

\* The slots of the current round are written up to height t.
FilledTo(m, t) ==
  \A p \in 0 .. PRUNING_FACTOR - 1 :
    m.start_height + p <= t =>
      /\ m.block_commitments[p] # NoCommitment
      /\ m.block_commitments[p].blockheight = m.start_height + p

\* c is a commitment for height k, in the slot that is read for it.
Holds(m, k, c) ==
  /\ GetPosition(m, k) # PRUNING_FACTOR
  /\ c = m.block_commitments[GetPosition(m, k)]
  /\ c # NoCommitment
  /\ c.blockheight = k

\* Storing the commitment of the next height of a chain, at most one round
\* ahead, keeps the ring in shape, brings nothing else into it, and makes the
\* new commitment the only one for its height.
LEMMA StoreStep ==
  ASSUME NEW m \in MainState, NEW h \in Nat, NEW c \in CommittedBlockHeader,
         c.blockheight = h, h <= m.start_height + PRUNING_FACTOR,
         SlotsInShape(m),
         NEW r, r = StoreBlockCommitment(m, h, c)
  PROVE  /\ SlotsInShape(r)
         /\ r.start_height >= m.start_height
         /\ h < r.start_height + PRUNING_FACTOR
         /\ FilledTo(m, h-1) => FilledTo(r, h)
         /\ \A p \in 0 .. PRUNING_FACTOR - 1 :
              r.block_commitments[p] \in {m.block_commitments[p], c}
         /\ \A k \in Nat : \A d : k < h /\ Holds(r, k, d) => Holds(m, k, d)
         /\ GetPosition(r, h) # PRUNING_FACTOR =>
              r.block_commitments[GetPosition(r, h)] = c
<1> DEFINE q == GetPosition(m, h)
           S == m.start_height
<1>1. /\ r \in MainState
      /\ q = PRUNING_FACTOR => r = m
      /\ q # PRUNING_FACTOR =>
           /\ q \in 0 .. PRUNING_FACTOR - 1
           /\ r.block_commitments[q] = c
           /\ \A p \in 0 .. PRUNING_FACTOR - 1 :
                p # q => r.block_commitments[p] = m.block_commitments[p]
           /\ r.start_height = IF q = 0 THEN h ELSE S
  BY StoreFields
<1>2. S \in Nat /\ r.start_height \in Nat
  BY <1>1 DEF MainState
<1>3. c # NoCommitment
  BY NoCommitmentAssumption
<1>4. CASE h <= S - PRUNING_FACTOR
  <2>1. q = PRUNING_FACTOR
    BY <1>2, <1>4 DEF GetPosition
  <2>2. r = m
    BY <1>1, <2>1
  <2>3. FilledTo(r, h)
    BY <1>2, <1>4, <2>2 DEF FilledTo
  <2>4. GetPosition(r, h) = PRUNING_FACTOR
    BY <2>1, <2>2
  <2> QED
    BY <1>2, <1>4, <2>2, <2>3, <2>4
<1>5. CASE S - PRUNING_FACTOR < h /\ h < S
  <2>1. q = PRUNING_FACTOR - (S - h) /\ q \in 1 .. PRUNING_FACTOR - 1
    BY <1>2, <1>5 DEF GetPosition
  <2>2. r.start_height = S
    BY <1>1, <2>1
  <2>3. \A k \in Nat : GetPosition(r, k) = GetPosition(m, k)
    BY <2>2 DEF GetPosition
  <2>4. r.block_commitments[q] = c
    BY <1>1, <2>1
  <2>5. \A p \in 0 .. PRUNING_FACTOR - 1 :
          p # q => r.block_commitments[p] = m.block_commitments[p]
    BY <1>1, <2>1
  <2> HIDE DEF q
  <2>6. SlotsInShape(r)
    BY <1>2, <1>3, <1>5, <2>1, <2>2, <2>4, <2>5 DEF SlotsInShape
  <2>7. FilledTo(r, h)
    BY <1>2, <1>5, <2>2 DEF FilledTo
  <2>8. ASSUME NEW k \in Nat, NEW d, k < h, Holds(r, k, d) PROVE Holds(m, k, d)
    <3>1. GetPosition(r, k) \in 0 .. PRUNING_FACTOR - 1
      BY <1>1, <2>8, PositionType DEF Holds
    <3>2. GetPosition(r, k) # q
      BY <2>4, <2>8 DEF Holds
    <3> QED
      BY <2>3, <2>5, <2>8, <3>1, <3>2 DEF Holds
  <2>9. r.block_commitments[GetPosition(r, h)] = c
    BY <2>3, <2>4 DEF q
  <2> QED
    BY <1>1, <1>2, <1>5, <2>1, <2>2, <2>4, <2>5, <2>6, <2>7, <2>8, <2>9
<1>6. CASE S <= h /\ h < S + PRUNING_FACTOR
  <2>1. q = h - S /\ q \in 0 .. PRUNING_FACTOR - 1
    BY <1>2, <1>6 DEF GetPosition
  <2>2. r.start_height = S
    BY <1>1, <1>2, <2>1
  <2>3. \A k \in Nat : GetPosition(r, k) = GetPosition(m, k)
    BY <2>2 DEF GetPosition
  <2>4. r.block_commitments[q] = c
    BY <1>1, <2>1
  <2>5. \A p \in 0 .. PRUNING_FACTOR - 1 :
          p # q => r.block_commitments[p] = m.block_commitments[p]
    BY <1>1, <2>1
  <2> HIDE DEF q
  <2>6. SlotsInShape(r)
    BY <1>2, <1>3, <1>6, <2>1, <2>2, <2>4, <2>5 DEF SlotsInShape
  <2>7. FilledTo(m, h-1) => FilledTo(r, h)
    BY <1>2, <1>3, <1>6, <2>1, <2>2, <2>4, <2>5 DEF FilledTo
  <2>8. ASSUME NEW k \in Nat, NEW d, k < h, Holds(r, k, d) PROVE Holds(m, k, d)
    <3>1. GetPosition(r, k) \in 0 .. PRUNING_FACTOR - 1
      BY <1>1, <2>8, PositionType DEF Holds
    <3>2. GetPosition(r, k) # q
      BY <2>4, <2>8 DEF Holds
    <3> QED
      BY <2>3, <2>5, <2>8, <3>1, <3>2 DEF Holds
  <2>9. r.block_commitments[GetPosition(r, h)] = c
    BY <2>3, <2>4 DEF q
  <2> QED
    BY <1>1, <1>2, <1>6, <2>1, <2>2, <2>4, <2>5, <2>6, <2>7, <2>8, <2>9
<1>7. CASE h = S + PRUNING_FACTOR
  <2>1. q = 0
    BY <1>2, <1>7 DEF GetPosition
  <2>2. r.start_height = h
    BY <1>1, <1>2, <2>1
  <2>3. r.block_commitments[0] = c
    BY <1>1, <2>1
  <2>4. \A p \in 1 .. PRUNING_FACTOR - 1 :
          r.block_commitments[p] = m.block_commitments[p]
    BY <1>1, <2>1
  <2>5. SlotsInShape(r)
    <3>1. ASSUME NEW p \in 1 .. PRUNING_FACTOR - 1,
                 m.block_commitments[p] # NoCommitment
          PROVE  m.block_commitments[p].blockheight <= h + p - PRUNING_FACTOR
      <4>1. m.block_commitments[p].blockheight \in Nat
        BY <3>1 DEF MainState, Commitment, CommittedBlockHeader
      <4>2. \/ m.block_commitments[p].blockheight = S + p
            \/ m.block_commitments[p].blockheight <= S + p - PRUNING_FACTOR
        BY <3>1 DEF SlotsInShape
      <4> QED
        BY <1>2, <1>7, <4>1, <4>2
    <3> QED
      BY <1>3, <2>2, <2>3, <2>4, <3>1 DEF SlotsInShape
  <2>6. FilledTo(r, h)
    <3>1. ASSUME NEW p \in 0 .. PRUNING_FACTOR - 1, r.start_height + p <= h
          PROVE  p = 0
      BY <2>2, <3>1
    <3> QED
      BY <1>3, <2>2, <2>3, <3>1 DEF FilledTo
  <2>7. ASSUME NEW k \in Nat, NEW d, k < h, Holds(r, k, d) PROVE Holds(m, k, d)
    <3>1. GetPosition(r, k) = k - S /\ k - S \in 1 .. PRUNING_FACTOR - 1
      BY <1>2, <1>7, <2>2, <2>7 DEF Holds, GetPosition
    <3>2. GetPosition(m, k) = k - S
      BY <1>2, <3>1 DEF GetPosition
    <3> QED
      BY <2>4, <2>7, <3>1, <3>2 DEF Holds
  <2>8. GetPosition(r, h) = 0
    BY <1>2, <2>2 DEF GetPosition
  <2> QED
    BY <1>2, <1>7, <2>2, <2>3, <2>4, <2>5, <2>6, <2>7, <2>8
<1> QED
  BY <1>2, <1>4, <1>5, <1>6, <1>7

\* The main state x after the first i rounds of the loop.
StoredUpTo(m, h, cs, i, x) ==
  /\ SameTip(m, x)
  /\ SlotsInShape(x)
  /\ x.start_height >= m.start_height
  /\ h + i < x.start_height + PRUNING_FACTOR
  /\ FilledTo(m, h) => FilledTo(x, h + i)
  /\ \A p \in 0 .. PRUNING_FACTOR - 1 :
       \/ x.block_commitments[p] = m.block_commitments[p]
       \/ \E j \in 1 .. i : x.block_commitments[p] = cs[j]
  /\ \A k \in Nat : \A d : k <= h /\ Holds(x, k, d) => Holds(m, k, d)
  /\ \A j \in 1 .. i : \A d : Holds(x, h + j, d) => d = cs[j]
  /\ i > 0 /\ GetPosition(x, h + i) # PRUNING_FACTOR =>
       x.block_commitments[GetPosition(x, h + i)] = cs[i]

\* The loops that store the commitments of the heights above h, when h is at
\* most one round ahead: what StoreStep says, for all of them.
LEMMA StoreAll ==
  ASSUME NEW m \in MainState, NEW h \in Nat, NEW cs \in Seq(CommittedBlockHeader),
         \A i \in 1 .. Len(cs) : cs[i].blockheight = h + i,
         SlotsInShape(m), h < m.start_height + PRUNING_FACTOR
  PROVE  /\ StoreBlockCommitments(m, h, cs) \in MainState
         /\ StoredUpTo(m, h, cs, Len(cs), StoreBlockCommitments(m, h, cs))
<1> DEFINE n == Len(cs)
<1>1. n \in Nat /\ \A i \in 1 .. n : cs[i] \in CommittedBlockHeader
  OBVIOUS
<1>2. PICK stored : /\ IsStoring(stored, m, h, cs)
                    /\ StoreBlockCommitments(m, h, cs) = stored[n]
  BY StoreLoop
<1>3. /\ stored \in [0 .. n -> MainState]
      /\ stored[0] = m
      /\ \A i \in 1 .. n :
           stored[i] = StoreBlockCommitment(stored[i-1], h + i, cs[i])
  BY <1>2 DEF IsStoring
<1>4. \A i \in 1 .. n : cs[i].blockheight = h + i
  OBVIOUS
<1> HIDE DEF n
<1> DEFINE S == {i \in 0 .. n : StoredUpTo(m, h, cs, i, stored[i])}
<1>5. 0 \in S
  BY <1>1, <1>3 DEF StoredUpTo, SameTip, MainState
<1>6. ASSUME NEW i \in 1 .. n, i-1 \in S PROVE i \in S
  <2> DEFINE x == stored[i-1]
             y == stored[i]
             c == cs[i]
  <2>1. x \in MainState /\ y \in MainState
    BY <1>1, <1>3
  <2>2. StoredUpTo(m, h, cs, i-1, x)
    BY <1>6
  <2>3. c \in CommittedBlockHeader /\ c.blockheight = h + i /\ h + i \in Nat
    BY <1>1, <1>4
  <2>4. y = StoreBlockCommitment(x, h + i, c)
    BY <1>3
  <2> HIDE DEF S, x, y, c
  <2>5. x.start_height \in Nat /\ m.start_height \in Nat /\ y.start_height \in Nat
    BY <2>1 DEF MainState
  <2>6. SlotsInShape(x) /\ h + i <= x.start_height + PRUNING_FACTOR
    BY <2>2, <2>5 DEF StoredUpTo
  <2>7. /\ SlotsInShape(y)
        /\ y.start_height >= x.start_height
        /\ h + i < y.start_height + PRUNING_FACTOR
        /\ FilledTo(x, h + i - 1) => FilledTo(y, h + i)
        /\ \A p \in 0 .. PRUNING_FACTOR - 1 :
             y.block_commitments[p] \in {x.block_commitments[p], c}
        /\ \A k \in Nat : \A d : k < h + i /\ Holds(y, k, d) => Holds(x, k, d)
        /\ GetPosition(y, h + i) # PRUNING_FACTOR =>
             y.block_commitments[GetPosition(y, h + i)] = c
    BY <2>1, <2>3, <2>4, <2>6, StoreStep
  <2>8. SameTip(m, y)
    <3>1. SameTip(x, y)
      BY <2>1, <2>3, <2>4, StoreFields
    <3> QED
      BY <2>2, <3>1 DEF StoredUpTo, SameTip
  <2>9. FilledTo(m, h) => FilledTo(y, h + i)
    <3>1. h + (i - 1) = h + i - 1
      OBVIOUS
    <3> QED
      BY <2>2, <2>7, <3>1 DEF StoredUpTo
  <2>10. ASSUME NEW p \in 0 .. PRUNING_FACTOR - 1
         PROVE  \/ y.block_commitments[p] = m.block_commitments[p]
                \/ \E j \in 1 .. i : y.block_commitments[p] = cs[j]
    <3>1. CASE y.block_commitments[p] = c
      BY <3>1 DEF c
    <3>2. CASE y.block_commitments[p] = x.block_commitments[p]
      <4>1. \/ x.block_commitments[p] = m.block_commitments[p]
            \/ \E j \in 1 .. i-1 : x.block_commitments[p] = cs[j]
        BY <2>2 DEF StoredUpTo
      <4> QED
        BY <3>2, <4>1
    <3> QED
      BY <2>7, <3>1, <3>2
  <2>11. ASSUME NEW k \in Nat, NEW d, k <= h, Holds(y, k, d) PROVE Holds(m, k, d)
    <3>1. Holds(x, k, d)
      BY <2>7, <2>11
    <3> QED
      BY <2>2, <2>11, <3>1 DEF StoredUpTo
  <2>12. ASSUME NEW j \in 1 .. i, NEW d, Holds(y, h + j, d) PROVE d = cs[j]
    <3>1. CASE j = i
      BY <2>7, <2>12, <3>1 DEF c, Holds
    <3>2. CASE j # i
      <4>1. j \in 1 .. i-1 /\ h + j \in Nat /\ h + j < h + i
        BY <3>2
      <4>2. Holds(x, h + j, d)
        BY <2>7, <2>12, <4>1
      <4> QED
        BY <2>2, <4>1, <4>2 DEF StoredUpTo
    <3> QED
      BY <3>1, <3>2
  <2>13. y.start_height >= m.start_height
    BY <2>2, <2>5, <2>7 DEF StoredUpTo
  <2>14. StoredUpTo(m, h, cs, i, y)
    BY <2>7, <2>8, <2>9, <2>10, <2>11, <2>12, <2>13 DEF StoredUpTo, c
  <2> QED
    BY <2>14 DEF S, y
<1> HIDE DEF S
<1>7. \A i \in 1 .. n : i-1 \in S => i \in S
  BY <1>6
<1>8. \A i \in 0 .. n : i \in S
  BY <1>1, <1>5, <1>7, UpTo
<1>9. n \in S /\ stored[n] \in MainState
  BY <1>1, <1>3, <1>8
<1> QED
  BY <1>2, <1>9 DEF S, n

-----------------------------------------------------------------------------
(***************************************************************************)
(* Headers.                                                                *)
(***************************************************************************)

\* The parent's path: all but the last element.
LEMMA FrontProperties ==
  ASSUME NEW S, NEW s \in Seq(S), s # <<>>
  PROVE  /\ Front(s) \in Seq(S)
         /\ Len(Front(s)) = Len(s) - 1
         /\ \A i \in 1 .. Len(s) - 1 : Front(s)[i] = s[i]
<1> DEFINE k == Len(s) - 1
<1>1. Len(s) \in Nat /\ Len(s) >= 1
  BY EmptySeq
<1>2. k \in Nat /\ 1 \in Int /\ k \in Int /\ \A i \in 1 .. k : s[i] \in S
  BY <1>1
<1> HIDE DEF k
<1>3. SubSeq(s, 1, k) \in Seq(S)
  BY <1>2, SubSeqProperties
<1>4. Len(SubSeq(s, 1, k)) = k
  BY <1>2
<1>5. \A i \in 1 .. k : SubSeq(s, 1, k)[i] = s[i]
  BY <1>2
<1> QED
  BY <1>3, <1>4, <1>5 DEF k, Front

\* A header is one block longer than its parent, which is a known block.
LEMMA HeaderFacts ==
  ASSUME NEW h \in Header
  PROVE  /\ h \in BlockHash
         /\ Front(h) \in BlockHash
         /\ h \in Seq(Label)
         /\ Len(h) \in Nat
         /\ Len(Front(h)) = Len(h) - 1
         /\ Difficulty(h) \in Nat /\ Difficulty(h) > 0
         /\ ChainWork[h] = ChainWork[Front(h)] + Difficulty(h)
<1>1. h \in Seq(Label) /\ h # <<>> /\ Front(h) \in BlockHash /\ h \in BlockHash
  BY HeaderAssumption DEF BlockHash, Checkpoint
<1>2. Len(h) \in Nat \ {0}
  BY <1>1
<1>3. Len(Front(h)) = Len(h) - 1
  BY <1>1, FrontProperties
<1>4. ChainWork[h] \in Nat /\ ChainWork[Front(h)] \in Nat /\ ChainWork[h] > ChainWork[Front(h)]
  BY <1>1, ChainWorkAssumption
<1>5. Difficulty(h) \in Nat /\ Difficulty(h) > 0 /\ ChainWork[h] = ChainWork[Front(h)] + Difficulty(h)
  BY <1>4 DEF Difficulty
<1> QED
  BY <1>1, <1>2, <1>3, <1>5

\* verify_header keeps committed headers well typed.
LEMMA VerifyHeaderType ==
  ASSUME NEW h \in Header, NEW c \in CommittedBlockHeader
  PROVE  VerifyHeader(h, c) \in CommittedBlockHeader
<1>1. Difficulty(h) \in Nat /\ h \in BlockHash
  BY HeaderFacts
<1>2. c.blockheight + 1 \in Nat /\ c.chain_work + Difficulty(h) \in Nat
  BY <1>1 DEF CommittedBlockHeader
<1> QED
  BY <1>1, <1>2 DEF VerifyHeader, CommittedBlockHeader

\* The states of the loop over the headers of `data'.
LEMMA VerifyLoop ==
  ASSUME NEW data \in Seq(Header), NEW c \in CommittedBlockHeader
  PROVE  \E last \in [0 .. Len(data) -> CommittedBlockHeader] :
           /\ last[0] = c
           /\ \A i \in 1 .. Len(data) : last[i] = VerifyHeader(data[i], last[i-1])
           /\ VerifyHeaders(data, c) = [i \in 1 .. Len(data) |-> last[i]]
<1> DEFINE n == Len(data)
           step == [i \in 1 .. n |->
                      [x \in CommittedBlockHeader |-> VerifyHeader(data[i], x)]]
           Rec(g) == g = [i \in 0 .. n |->
                            IF i = 0 THEN c ELSE VerifyHeader(data[i], g[i-1])]
<1>1. n \in Nat /\ \A i \in 1 .. n : data[i] \in Header
  OBVIOUS
<1> HIDE DEF n
<1>2. IsStep(step, n, CommittedBlockHeader)
  BY <1>1, VerifyHeaderType DEF IsStep
<1> HIDE DEF step
<1>3. PICK f : Iterates(f, n, CommittedBlockHeader, c, step)
  BY <1>1, <1>2, IterationExists
<1>4. ASSUME NEW i \in 1 .. n PROVE f[i] = VerifyHeader(data[i], f[i-1])
  <2>1. f[i-1] \in CommittedBlockHeader
    BY <1>1, <1>3 DEF Iterates
  <2>2. step[i][f[i-1]] = VerifyHeader(data[i], f[i-1])
    BY <2>1 DEF step
  <2> QED
    BY <1>3, <2>2 DEF Iterates
<1>5. Rec(f)
  BY <1>1, <1>3, <1>4 DEF Iterates
<1> DEFINE g == CHOOSE g : Rec(g)
<1>6. VerifyHeaders(data, c) = [i \in 1 .. n |-> g[i]]
  BY DEF VerifyHeaders, n
<1>7. Rec(g)
  BY <1>5
<1> HIDE DEF g
<1>8. g = [i \in 0 .. n |-> IF i = 0 THEN c ELSE VerifyHeader(data[i], g[i-1])]
  BY <1>7
<1>9. g[0] = c /\ \A i \in 1 .. n : g[i] = VerifyHeader(data[i], g[i-1])
  BY <1>1, <1>8
<1>10. g \in [0 .. n -> CommittedBlockHeader]
  <2> DEFINE S == {i \in 0 .. n : g[i] \in CommittedBlockHeader}
  <2>1. 0 \in S
    BY <1>1, <1>9
  <2>2. \A i \in 1 .. n : i-1 \in S => i \in S
    <3> SUFFICES ASSUME NEW i \in 1 .. n, g[i-1] \in CommittedBlockHeader
                 PROVE  g[i] \in CommittedBlockHeader
      BY <1>1
    <3>1. VerifyHeader(data[i], g[i-1]) \in CommittedBlockHeader
      BY <1>1, VerifyHeaderType
    <3> QED
      BY <1>9, <3>1
  <2> HIDE DEF S
  <2>3. \A i \in 0 .. n : i \in S
    BY <1>1, <2>1, <2>2, UpTo
  <2>4. DOMAIN g = 0 .. n
    BY <1>8
  <2> QED
    BY <1>8, <2>3, <2>4 DEF S
<1> QED
  BY <1>6, <1>9, <1>10 DEF n

\* What verify_header makes of a linked vector of headers on a genuine
\* committed header: genuine committed headers of the same blocks, of
\* consecutive heights, with more and more work.
LEMMA VerifyAll ==
  ASSUME NEW data \in Seq(Header), NEW c \in CommittedBlockHeader,
         IsLinked(data, c), IsGenuine(c),
         NEW headers, headers = VerifyHeaders(data, c)
  PROVE  /\ headers \in Seq(CommittedBlockHeader)
         /\ Len(headers) = Len(data)
         /\ \A i \in 1 .. Len(data) :
              /\ headers[i].block_hash = data[i]
              /\ headers[i].blockheight = c.blockheight + i
              /\ headers[i].chain_work > c.chain_work
              /\ IsGenuine(headers[i])
<1> DEFINE n == Len(data)
<1>1. n \in Nat /\ \A i \in 1 .. n : data[i] \in Header
  OBVIOUS
<1>2. PICK last \in [0 .. n -> CommittedBlockHeader] :
        /\ last[0] = c
        /\ \A i \in 1 .. n : last[i] = VerifyHeader(data[i], last[i-1])
        /\ headers = [i \in 1 .. n |-> last[i]]
  BY VerifyLoop
<1>3. headers \in Seq(CommittedBlockHeader) /\ Len(headers) = n
  BY <1>1, <1>2
<1>4. \A i \in 1 .. n : Front(data[i]) = IF i = 1 THEN c.block_hash ELSE data[i-1]
  BY DEF IsLinked
<1> HIDE DEF n
<1> DEFINE Good(i) == /\ last[i].block_hash = IF i = 0 THEN c.block_hash ELSE data[i]
                      /\ last[i].blockheight = c.blockheight + i
                      /\ last[i].chain_work >= c.chain_work
                      /\ i > 0 => last[i].chain_work > c.chain_work
                      /\ IsGenuine(last[i])
           S == {i \in 0 .. n : Good(i)}
<1>5. c.blockheight \in Nat /\ c.chain_work \in Nat
  BY DEF CommittedBlockHeader
<1>6. 0 \in S
  BY <1>1, <1>2, <1>5
<1>7. \A i \in 1 .. n : i-1 \in S => i \in S
  <2> SUFFICES ASSUME NEW i \in 1 .. n, Good(i-1) PROVE Good(i)
    BY <1>1
  <2> DEFINE h == data[i]
             prev == last[i-1]
  <2>1. h \in Header /\ prev \in CommittedBlockHeader
    BY <1>1, <1>2
  <2>2. Front(h) = prev.block_hash
    BY <1>1, <1>4
  <2>3. last[i] = VerifyHeader(h, prev)
    BY <1>2
  <2>4. /\ last[i].block_hash = h
        /\ last[i].blockheight = prev.blockheight + 1
        /\ last[i].chain_work = prev.chain_work + Difficulty(h)
    BY <2>3 DEF VerifyHeader
  <2>5. /\ prev.blockheight = c.blockheight + (i-1)
        /\ prev.chain_work >= c.chain_work
        /\ prev.blockheight = InitHeight + Len(prev.block_hash)
        /\ prev.chain_work = ChainWork[prev.block_hash]
    BY DEF IsGenuine
  <2> HIDE DEF h, prev
  <2>6. /\ Len(h) \in Nat
        /\ Len(Front(h)) = Len(h) - 1
        /\ Difficulty(h) \in Nat /\ Difficulty(h) > 0
        /\ ChainWork[h] = ChainWork[Front(h)] + Difficulty(h)
    BY <2>1, HeaderFacts
  <2>7. prev.chain_work \in Nat /\ prev.blockheight \in Nat
    BY <2>1 DEF CommittedBlockHeader
  <2>8. last[i].blockheight = c.blockheight + i /\ last[i].chain_work > c.chain_work
    <3>1. i \in Nat
      BY <1>1
    <3>2. last[i].blockheight = c.blockheight + i
      BY <1>5, <2>4, <2>5, <3>1
    <3>3. last[i].chain_work > c.chain_work
      <4> HIDE DEF Good, S
      <4>1. \A a, b, d \in Nat : a >= b /\ d > 0 => a + d > b
        OBVIOUS
      <4>2. prev.chain_work + Difficulty(h) > c.chain_work
        BY <1>5, <2>5, <2>6, <2>7, <4>1
      <4> QED
        BY <2>4, <4>2
    <3> QED
      BY <3>2, <3>3
  <2>9. IsGenuine(last[i])
    <3>1. last[i].blockheight = InitHeight + Len(h)
      BY <2>2, <2>4, <2>5, <2>6, InitHeightAssumption
    <3>2. last[i].chain_work = ChainWork[h]
      BY <2>2, <2>4, <2>5, <2>6
    <3> QED
      BY <2>4, <3>1, <3>2 DEF IsGenuine
  <2>10. last[i].chain_work >= c.chain_work
    BY <1>1, <1>5, <2>4, <2>5, <2>6, <2>7
  <2> QED
    BY <2>4, <2>8, <2>9, <2>10 DEF h
<1> HIDE DEF S
<1>8. \A i \in 0 .. n : i \in S
  BY <1>1, <1>6, <1>7, UpTo
<1>9. \A i \in 1 .. n : Good(i) /\ headers[i] = last[i]
  BY <1>1, <1>2, <1>8 DEF S
<1> QED
  BY <1>3, <1>9 DEF n

-----------------------------------------------------------------------------
(***************************************************************************)
(* Ancestry.                                                               *)
(***************************************************************************)

LEMMA PrefixPointwise ==
  ASSUME NEW S, NEW s \in Seq(S), NEW t \in Seq(S)
  PROVE  IsPrefix(s, t) <=> /\ Len(s) <= Len(t)
                            /\ \A i \in 1 .. Len(s) : s[i] = t[i]
<1> DEFINE k == Len(s)
<1>1. k \in Nat /\ Len(t) \in Nat
  OBVIOUS
<1>2. ASSUME k <= Len(t)
      PROVE  /\ Len(SubSeq(t, 1, k)) = k
             /\ \A i \in 1 .. k : SubSeq(t, 1, k)[i] = t[i]
             /\ SubSeq(t, 1, k) \in Seq(S)
  <2>1. \A i \in 1 .. k : t[i] \in S
    BY <1>1, <1>2
  <2> HIDE DEF k
  <2>2. SubSeq(t, 1, k) \in Seq(S)
    BY <1>1, <2>1, SubSeqProperties
  <2>3. Len(SubSeq(t, 1, k)) = k
    BY <1>1, <1>2
  <2>4. \A i \in 1 .. k : SubSeq(t, 1, k)[i] = t[i]
    BY <1>1, <1>2
  <2> QED
    BY <2>2, <2>3, <2>4
<1>3. SubSeq(s, 1, k) = s
  OBVIOUS
<1>4. CASE k <= Len(t)
  <2>1. SubSeq(t, 1, k) = s <=> \A i \in 1 .. k : s[i] = t[i]
    BY <1>1, <1>2, <1>4
  <2> QED
    BY <1>3, <1>4, <2>1 DEF IsPrefix
<1>5. CASE ~ (k <= Len(t))
  BY <1>5 DEF IsPrefix
<1> QED
  BY <1>4, <1>5

LEMMA PrefixTransitive ==
  ASSUME NEW S, NEW s \in Seq(S), NEW t \in Seq(S), NEW u \in Seq(S),
         IsPrefix(s, t), IsPrefix(t, u)
  PROVE  IsPrefix(s, u)
<1>1. Len(s) <= Len(t) /\ \A i \in 1 .. Len(s) : s[i] = t[i]
  BY PrefixPointwise
<1>2. Len(t) <= Len(u) /\ \A i \in 1 .. Len(t) : t[i] = u[i]
  BY PrefixPointwise
<1>3. Len(s) \in Nat /\ Len(t) \in Nat /\ Len(u) \in Nat
  OBVIOUS
<1>4. Len(s) <= Len(u) /\ \A i \in 1 .. Len(s) : s[i] = u[i]
  BY <1>1, <1>2, <1>3
<1> QED
  BY <1>4, PrefixPointwise

\* Of two ancestors of a block, the lower one is an ancestor of the other.
LEMMA PrefixOfPrefix ==
  ASSUME NEW S, NEW s \in Seq(S), NEW t \in Seq(S), NEW u \in Seq(S),
         IsPrefix(s, u), IsPrefix(t, u), Len(s) <= Len(t)
  PROVE  IsPrefix(s, t)
<1>1. Len(s) <= Len(u) /\ \A i \in 1 .. Len(s) : s[i] = u[i]
  BY PrefixPointwise
<1>2. Len(t) <= Len(u) /\ \A i \in 1 .. Len(t) : t[i] = u[i]
  BY PrefixPointwise
<1>3. Len(s) \in Nat /\ Len(t) \in Nat
  OBVIOUS
<1>4. \A i \in 1 .. Len(s) : s[i] = t[i]
  BY <1>1, <1>2, <1>3
<1> QED
  BY <1>4, PrefixPointwise

LEMMA PrefixReflexive ==
  ASSUME NEW S, NEW s \in Seq(S)
  PROVE  IsPrefix(s, s)
BY PrefixPointwise

LEMMA FrontIsPrefix ==
  ASSUME NEW S, NEW s \in Seq(S), s # <<>>
  PROVE  IsPrefix(Front(s), s)
<1>1. /\ Front(s) \in Seq(S)
      /\ Len(Front(s)) = Len(s) - 1
      /\ \A i \in 1 .. Len(s) - 1 : Front(s)[i] = s[i]
  BY FrontProperties
<1>2. Len(s) \in Nat
  OBVIOUS
<1>3. Len(Front(s)) <= Len(s) /\ \A i \in 1 .. Len(Front(s)) : Front(s)[i] = s[i]
  BY <1>1, <1>2
<1> QED
  BY <1>1, <1>3, PrefixPointwise

\* A block hash is the path of labels from the checkpoint.
LEMMA BlockHashType == BlockHash \subseteq Seq(Label)
<1>1. Header \subseteq Seq(Label)
  BY HeaderAssumption
<1>2. <<>> \in Seq(Label)
  OBVIOUS
<1> QED
  BY <1>1, <1>2 DEF BlockHash, Checkpoint

\* cs is a chain of genuine committed headers for the heights above h, where
\* the block of height h is b.
IsBranch(b, h, cs) ==
  /\ cs \in Seq(CommittedBlockHeader)
  /\ \A i \in 1 .. Len(cs) :
       /\ cs[i].blockheight = h + i
       /\ IsGenuine(cs[i])
       /\ cs[i].block_hash \in Header
       /\ Front(cs[i].block_hash) = IF i = 1 THEN b ELSE cs[i-1].block_hash

\* The blocks of a branch, and what it branches off from, are ancestors of its
\* last block.
LEMMA BranchAncestry ==
  ASSUME NEW b \in BlockHash, NEW h \in Nat, NEW cs, IsBranch(b, h, cs), Len(cs) >= 1
  PROVE  /\ \A i \in 1 .. Len(cs) : IsPrefix(cs[i].block_hash, Last(cs).block_hash)
         /\ IsPrefix(b, Last(cs).block_hash)
<1> DEFINE n == Len(cs)
           H(i) == cs[i].block_hash
<1>1. n \in Nat /\ n >= 1
  BY DEF IsBranch
<1>2. \A i \in 1 .. n : /\ H(i) \in Header
                        /\ Front(H(i)) = IF i = 1 THEN b ELSE H(i-1)
  BY DEF IsBranch
<1>3. \A i \in 1 .. n : H(i) \in Seq(Label) /\ H(i) # <<>>
  BY <1>2, HeaderAssumption DEF Checkpoint
<1>4. Last(cs).block_hash = H(n)
  BY DEF Last
<1> HIDE DEF n, H
<1> DEFINE S == {j \in 0 .. n : j < n => IsPrefix(H(n-j), H(n))}
<1>5. 0 \in S
  BY <1>1, <1>3, PrefixReflexive
<1>6. \A j \in 1 .. n : j-1 \in S => j \in S
  <2> SUFFICES ASSUME NEW j \in 1 .. n, j-1 \in S, j < n
               PROVE  IsPrefix(H(n-j), H(n))
    BY <1>1
  <2> DEFINE k == n-(j-1)
  <2>1. k \in 1 .. n /\ k # 1 /\ k-1 = n-j /\ k-1 \in 1 .. n /\ j-1 < n
    BY <1>1
  <2>2. IsPrefix(H(k), H(n))
    BY <2>1
  <2> HIDE DEF k
  <2>3. Front(H(k)) = H(k-1)
    BY <1>2, <2>1
  <2>4. IsPrefix(H(k-1), H(k))
    BY <1>3, <2>1, <2>3, FrontIsPrefix
  <2>5. H(k-1) \in Seq(Label) /\ H(k) \in Seq(Label) /\ H(n) \in Seq(Label)
    BY <1>1, <1>3, <2>1
  <2>6. IsPrefix(H(k-1), H(n))
    BY <2>2, <2>4, <2>5, PrefixTransitive
  <2> QED
    BY <2>1, <2>6
<1> HIDE DEF S
<1>7. \A j \in 0 .. n : j \in S
  BY <1>1, <1>5, <1>6, UpTo
<1>8. ASSUME NEW i \in 1 .. n PROVE IsPrefix(H(i), H(n))
  <2>1. n-i \in 0 .. n /\ n-i < n /\ n-(n-i) = i
    BY <1>1
  <2> QED
    BY <1>7, <2>1 DEF S
<1>9. IsPrefix(b, H(n))
  <2>1. 1 \in 1 .. n
    BY <1>1
  <2>2. IsPrefix(H(1), H(n)) /\ Front(H(1)) = b /\ IsPrefix(Front(H(1)), H(1))
    BY <1>2, <1>3, <1>8, <2>1, FrontIsPrefix
  <2>3. b \in Seq(Label) /\ H(1) \in Seq(Label) /\ H(n) \in Seq(Label)
    BY <1>1, <1>3, BlockHashType
  <2>4. IsPrefix(b, H(1)) /\ IsPrefix(H(1), H(n))
    BY <2>2
  <2> QED
    BY <2>3, <2>4, PrefixTransitive
<1> QED
  BY <1>4, <1>8, <1>9 DEF n, H

-----------------------------------------------------------------------------
(***************************************************************************)
(* The main state.                                                         *)
(***************************************************************************)

\* What CommitmentsGenuine says of the main state alone.
MainGenuine(m) ==
  /\ IsGenuine(m.tip_commit_hash)
  /\ m.block_height = m.tip_commit_hash.blockheight
  /\ m.chain_work = m.tip_commit_hash.chain_work
  /\ \A p \in 0 .. PRUNING_FACTOR - 1 :
       m.block_commitments[p] # NoCommitment => IsGenuine(m.block_commitments[p])

\* What RingShape says of the main state alone.
MainInShape(m) ==
  /\ SlotsInShape(m)
  /\ GetPosition(m, m.block_height) # PRUNING_FACTOR =>
       m.block_commitments[GetPosition(m, m.block_height)] = m.tip_commit_hash
  /\ m.block_height < m.start_height + PRUNING_FACTOR

\* r is x with another tip.
HasTip(r, x, height, last) ==
  /\ r \in MainState
  /\ r.start_height = x.start_height
  /\ r.fork_counter = x.fork_counter
  /\ r.block_commitments = x.block_commitments
  /\ r.block_height = height
  /\ r.chain_work = last.chain_work
  /\ r.tip_commit_hash = last

\* What moving the tip leaves alone.
LEMMA SetTipFields ==
  ASSUME NEW x \in MainState, NEW height \in Nat, NEW last \in CommittedBlockHeader
  PROVE  HasTip(SetTip(x, height, last), x, height, last)
BY DEF HasTip, SetTip, MainState, CommittedBlockHeader

\* Using up a fork id leaves everything but the counter alone.
LEMMA UseForkIdFields ==
  ASSUME NEW m \in MainState, NEW r, r = UseForkId(m)
  PROVE  /\ r \in MainState
         /\ r.fork_counter = m.fork_counter + 1
         /\ r.start_height = m.start_height
         /\ r.block_height = m.block_height
         /\ r.chain_work = m.chain_work
         /\ r.tip_commit_hash = m.tip_commit_hash
         /\ r.block_commitments = m.block_commitments
BY DEF UseForkId, MainState

\* The slot of a height depends on the start height only.
LEMMA SamePosition ==
  ASSUME NEW m, NEW r, r.start_height = m.start_height, NEW k
  PROVE  GetPosition(r, k) = GetPosition(m, k)
BY DEF GetPosition

\* The counter of fork ids plays no part in the rest of the main state.
LEMMA UseForkIdInv ==
  ASSUME NEW m \in MainState, MainGenuine(m), MainInShape(m),
         NEW r, r = UseForkId(m)
  PROVE  MainGenuine(r) /\ MainInShape(r)
<1>1. /\ r.start_height = m.start_height
      /\ r.block_height = m.block_height
      /\ r.chain_work = m.chain_work
      /\ r.tip_commit_hash = m.tip_commit_hash
      /\ r.block_commitments = m.block_commitments
  BY UseForkIdFields
<1>2. MainGenuine(r)
  BY <1>1 DEF MainGenuine
<1>3. GetPosition(r, r.block_height) = GetPosition(m, m.block_height)
  BY <1>1, SamePosition
<1>4. MainInShape(r)
  BY <1>1, <1>3 DEF MainInShape, SlotsInShape
<1> QED
  BY <1>2, <1>4

\* The main state r after the blocks cs above height h became the main chain.
LEMMA Advance ==
  ASSUME NEW m \in MainState, MainGenuine(m), MainInShape(m),
         NEW b \in BlockHash, NEW h \in Nat, h < m.start_height + PRUNING_FACTOR,
         NEW cs, IsBranch(b, h, cs), Len(cs) >= 1,
         NEW r, r = SetTip(StoreBlockCommitments(m, h, cs), h + Len(cs), Last(cs))
  PROVE  /\ r \in MainState
         /\ MainGenuine(r)
         /\ MainInShape(r)
         /\ r.start_height >= m.start_height
         /\ r.fork_counter = m.fork_counter
         /\ r.chain_work = Last(cs).chain_work
<1> DEFINE n == Len(cs)
           x == StoreBlockCommitments(m, h, cs)
<1>1. /\ n \in Nat /\ n >= 1 /\ n \in 1 .. n
      /\ cs \in Seq(CommittedBlockHeader)
      /\ \A i \in 1 .. n : /\ cs[i] \in CommittedBlockHeader
                           /\ cs[i].blockheight = h + i
                           /\ IsGenuine(cs[i])
  BY DEF IsBranch
<1>2. Last(cs) = cs[n]
  BY DEF Last
<1>3. x \in MainState /\ StoredUpTo(m, h, cs, n, x)
  BY <1>1, StoreAll DEF MainInShape
<1> DEFINE last == cs[n]
           height == h + n
<1>4. r = SetTip(x, height, last)
  BY <1>2
<1>5. height \in Nat /\ last \in CommittedBlockHeader /\ x \in MainState
  BY <1>1, <1>3
<1> HIDE DEF n, x, last, height
<1>6. HasTip(r, x, height, last)
  BY <1>4, <1>5, SetTipFields
<1>7. /\ r \in MainState
      /\ r.start_height = x.start_height
      /\ r.fork_counter = x.fork_counter
      /\ r.block_commitments = x.block_commitments
      /\ r.block_height = height
      /\ r.chain_work = last.chain_work
      /\ r.tip_commit_hash = last
  BY <1>6 DEF HasTip
<1> USE DEF last, height
<1>8. MainGenuine(r)
  <2>1. ASSUME NEW p \in 0 .. PRUNING_FACTOR - 1,
               r.block_commitments[p] # NoCommitment
        PROVE  IsGenuine(r.block_commitments[p])
    <3>1. \/ x.block_commitments[p] = m.block_commitments[p]
          \/ \E j \in 1 .. n : x.block_commitments[p] = cs[j]
      BY <1>3 DEF StoredUpTo
    <3> QED
      BY <1>1, <1>7, <2>1, <3>1 DEF MainGenuine
  <2> QED
    BY <1>1, <1>7, <2>1 DEF MainGenuine
<1>9. MainInShape(r)
  <2>1. GetPosition(r, h + n) = GetPosition(x, h + n)
    BY <1>7, SamePosition
  <2>2. /\ SlotsInShape(x)
        /\ h + n < x.start_height + PRUNING_FACTOR
        /\ GetPosition(x, h + n) # PRUNING_FACTOR =>
             x.block_commitments[GetPosition(x, h + n)] = cs[n]
    BY <1>1, <1>3 DEF StoredUpTo
  <2>3. SlotsInShape(r)
    BY <1>7, <2>2 DEF SlotsInShape
  <2> QED
    BY <1>7, <2>1, <2>2, <2>3 DEF MainInShape
<1> QED
  BY <1>2, <1>3, <1>7, <1>8, <1>9 DEF StoredUpTo, SameTip

\* A commitment that a caller reads back from the ring is genuine, and not of
\* a height above the tip.
LEMMA ReadBack ==
  ASSUME NEW m \in MainState, MainGenuine(m),
         NEW height \in Nat, NEW c \in Candidate, c = GetCommitment(m, height)
  PROVE  /\ c \in CommittedBlockHeader
         /\ IsGenuine(c)
         /\ height <= m.block_height
         /\ m.block_height >= PRUNING_FACTOR
         /\ height > m.block_height - PRUNING_FACTOR
         /\ GetPosition(m, height) \in 0 .. PRUNING_FACTOR - 1
         /\ c = m.block_commitments[GetPosition(m, height)]
<1>1. c \in CommittedBlockHeader /\ c # NoCommitment
  BY InputAssumption, NoCommitmentAssumption
<1>2. m.block_height \in Nat
  BY DEF MainState
<1>3. /\ height <= m.block_height
      /\ m.block_height >= PRUNING_FACTOR
      /\ height > m.block_height - PRUNING_FACTOR
      /\ GetPosition(m, height) # PRUNING_FACTOR
      /\ c = m.block_commitments[GetPosition(m, height)]
  BY <1>1, <1>2 DEF GetCommitment
<1>4. GetPosition(m, height) \in 0 .. PRUNING_FACTOR - 1
  BY <1>3, PositionType
<1>5. IsGenuine(c)
  BY <1>1, <1>3, <1>4 DEF MainGenuine
<1> QED
  BY <1>1, <1>3, <1>4, <1>5

\* What is read back for the height of the tip is the tip.
LEMMA ReadTip ==
  ASSUME NEW m \in MainState, MainGenuine(m), MainInShape(m),
         NEW c \in Candidate, c = GetCommitment(m, m.block_height)
  PROVE  c = m.tip_commit_hash /\ c.blockheight = m.block_height
<1>1. m.block_height \in Nat
  BY DEF MainState
<1>2. /\ GetPosition(m, m.block_height) \in 0 .. PRUNING_FACTOR - 1
      /\ c = m.block_commitments[GetPosition(m, m.block_height)]
  BY <1>1, ReadBack
<1>3. c = m.tip_commit_hash
  BY <1>2 DEF MainInShape
<1> QED
  BY <1>3 DEF MainGenuine

-----------------------------------------------------------------------------
(***************************************************************************)
(* Branches and forks.                                                     *)
(***************************************************************************)

\* The headers that an instruction builds on a genuine committed header are a
\* branch.
LEMMA HeadersAreBranch ==
  ASSUME NEW data \in Batch \ {<<>>}, NEW c \in CommittedBlockHeader,
         IsGenuine(c), IsLinked(data, c),
         NEW headers, headers = VerifyHeaders(data, c)
  PROVE  /\ IsBranch(c.block_hash, c.blockheight, headers)
         /\ Len(headers) = Len(data)
         /\ Len(headers) >= 1
         /\ Last(headers).chain_work > c.chain_work
<1>1. data \in Seq(Header) /\ data # <<>>
  BY InputAssumption
<1>2. /\ headers \in Seq(CommittedBlockHeader)
      /\ Len(headers) = Len(data)
      /\ \A i \in 1 .. Len(data) :
           /\ headers[i].block_hash = data[i]
           /\ headers[i].blockheight = c.blockheight + i
           /\ headers[i].chain_work > c.chain_work
           /\ IsGenuine(headers[i])
  BY <1>1, VerifyAll
<1> DEFINE n == Len(data)
<1>3. n \in Nat /\ n >= 1 /\ \A i \in 1 .. n : data[i] \in Header
  BY <1>1
<1>4. \A i \in 1 .. n : Front(data[i]) = IF i = 1 THEN c.block_hash ELSE data[i-1]
  BY DEF IsLinked
<1>5. \A i \in 1 .. n : i # 1 => i-1 \in 1 .. n
  BY <1>3
<1>6. \A i \in 1 .. n :
        Front(headers[i].block_hash) =
          IF i = 1 THEN c.block_hash ELSE headers[i-1].block_hash
  BY <1>2, <1>4, <1>5
<1>7. IsBranch(c.block_hash, c.blockheight, headers)
  BY <1>2, <1>3, <1>6 DEF IsBranch
<1>8. Last(headers) = headers[n] /\ n \in 1 .. n
  BY <1>2, <1>3 DEF Last
<1> QED
  BY <1>2, <1>3, <1>7, <1>8

\* The height of a fork's base is that of the block.
LEMMA BaseHeight ==
  ASSUME NEW b, NEW h \in Nat, NEW cs, IsBranch(b, h, cs), Len(cs) >= 1
  PROVE  h = InitHeight + Len(b)
<1>1. 1 \in 1 .. Len(cs)
  BY DEF IsBranch
<1> DEFINE s == cs[1].block_hash
<1>2. /\ cs[1].blockheight = h + 1
      /\ cs[1].blockheight = InitHeight + Len(s)
      /\ s \in Header
      /\ Front(s) = b
  BY <1>1 DEF IsBranch, IsGenuine
<1>3. Len(s) \in Nat /\ Len(b) = Len(s) - 1
  BY <1>2, HeaderFacts
<1> QED
  BY <1>2, <1>3, InitHeightAssumption

\* The last block of a branch is a genuine one, and strictly above its base.
LEMMA BranchTip ==
  ASSUME NEW b \in BlockHash, NEW h \in Nat, NEW cs, IsBranch(b, h, cs), Len(cs) >= 1
  PROVE  /\ Last(cs) \in CommittedBlockHeader /\ IsGenuine(Last(cs))
         /\ Last(cs).block_hash \in BlockHash
         /\ Last(cs).blockheight = h + Len(cs)
         /\ IsStrictPrefix(b, Last(cs).block_hash)
<1> DEFINE n == Len(cs)
           last == Last(cs)
<1>1. n \in Nat /\ n \in 1 .. n /\ last = cs[n] /\ cs[n] \in CommittedBlockHeader
  BY DEF IsBranch, Last
<1>2. IsGenuine(last) /\ last.blockheight = h + n /\ last.block_hash \in Header
  BY <1>1 DEF IsBranch
<1>3. h = InitHeight + Len(b)
  BY BaseHeight
<1>4. IsPrefix(b, last.block_hash)
  BY BranchAncestry
<1> HIDE DEF n, last
<1>5. b # last.block_hash
  <2>1. last.blockheight = InitHeight + Len(last.block_hash)
    BY <1>2 DEF IsGenuine
  <2>2. n >= 1
    BY DEF n
  <2> QED
    BY <1>1, <1>2, <1>3, <2>1, <2>2
<1>6. last.block_hash \in BlockHash
  BY <1>2 DEF BlockHash
<1> QED
  BY <1>1, <1>2, <1>4, <1>5, <1>6 DEF IsStrictPrefix, n, last

\* A branch on the last block of a branch makes a longer branch.
LEMMA BranchAppend ==
  ASSUME NEW b, NEW h \in Nat, NEW cs, IsBranch(b, h, cs),
         NEW a, NEW ds, IsBranch(a, h + Len(cs), ds), Len(ds) >= 1,
         a = IF Len(cs) = 0 THEN b ELSE Last(cs).block_hash
  PROVE  /\ IsBranch(b, h, cs \o ds)
         /\ Len(cs \o ds) = Len(cs) + Len(ds)
         /\ Last(cs \o ds) = Last(ds)
<1> DEFINE n == Len(cs)
           k == Len(ds)
           es == cs \o ds
<1>1. /\ cs \in Seq(CommittedBlockHeader) /\ ds \in Seq(CommittedBlockHeader)
      /\ n \in Nat /\ k \in Nat
  BY DEF IsBranch
<1>2. /\ es \in Seq(CommittedBlockHeader)
      /\ Len(es) = n + k
      /\ \A i \in 1 .. n : es[i] = cs[i]
      /\ \A i \in 1 .. k : es[n + i] = ds[i]
  BY <1>1
<1>3. Last(ds) = ds[k] /\ Last(es) = es[n + k] /\ Last(cs) = cs[n]
  BY <1>2 DEF Last
<1>4. \A i \in 1 .. n : /\ cs[i].blockheight = h + i
                        /\ IsGenuine(cs[i])
                        /\ cs[i].block_hash \in Header
                        /\ Front(cs[i].block_hash) =
                             IF i = 1 THEN b ELSE cs[i-1].block_hash
  BY DEF IsBranch
<1>5. \A i \in 1 .. k : /\ ds[i].blockheight = h + n + i
                        /\ IsGenuine(ds[i])
                        /\ ds[i].block_hash \in Header
                        /\ Front(ds[i].block_hash) =
                             IF i = 1 THEN a ELSE ds[i-1].block_hash
  BY DEF IsBranch
<1>6. a = IF n = 0 THEN b ELSE cs[n].block_hash
  BY <1>3
<1> HIDE DEF n, k, es
<1>7. ASSUME NEW i \in 1 .. n + k
      PROVE  /\ es[i].blockheight = h + i
             /\ IsGenuine(es[i])
             /\ es[i].block_hash \in Header
             /\ Front(es[i].block_hash) = IF i = 1 THEN b ELSE es[i-1].block_hash
  <2>1. CASE i <= n
    <3>1. i \in 1 .. n /\ (i # 1 => i-1 \in 1 .. n)
      BY <1>1, <2>1
    <3>2. es[i] = cs[i] /\ (i # 1 => es[i-1] = cs[i-1])
      BY <1>2, <3>1
    <3> QED
      BY <1>4, <3>1, <3>2
  <2>2. CASE i = n + 1
    <3>1. 1 \in 1 .. k /\ es[i] = ds[1]
      BY <1>1, <1>2, <2>2
    <3>2. /\ ds[1].blockheight = h + n + 1
          /\ IsGenuine(ds[1])
          /\ ds[1].block_hash \in Header
          /\ Front(ds[1].block_hash) = a
      BY <1>5, <3>1
    <3>3. h + n + 1 = h + i
      BY <1>1, <2>2
    <3>4. a = IF i = 1 THEN b ELSE es[i-1].block_hash
      BY <1>1, <1>2, <1>6, <2>2
    <3> QED
      BY <3>1, <3>2, <3>3, <3>4
  <2>3. CASE i > n + 1
    <3> DEFINE j == i - n
    <3>1. /\ j \in 1 .. k /\ j # 1 /\ j-1 \in 1 .. k /\ i # 1
          /\ n + j = i /\ n + (j-1) = i-1 /\ h + n + j = h + i
      BY <1>1, <2>3
    <3> HIDE DEF j
    <3>2. es[i] = ds[j] /\ es[i-1] = ds[j-1]
      BY <1>2, <3>1
    <3> QED
      BY <1>5, <3>1, <3>2
  <2> QED
    BY <1>1, <2>1, <2>2, <2>3
<1>8. IsBranch(b, h, es)
  BY <1>2, <1>7 DEF IsBranch
<1>9. Last(es) = Last(ds)
  <2>1. k \in 1 .. k
    BY <1>1 DEF k
  <2> QED
    BY <1>2, <1>3, <2>1
<1> QED
  BY <1>2, <1>8, <1>9 DEF n, k, es

\* What an open fork f is, next to the main state m.
ForkOK(f, m) ==
  /\ f \in ForkState
  /\ Len(f.block_commitments) \in 1 .. PRUNING_FACTOR
  /\ IsBranch(ForkBase(f), f.start_height, f.block_commitments)
  /\ f.tip_commit_hash = Last(f.block_commitments)
  /\ f.start_height < m.start_height + PRUNING_FACTOR
  /\ f.tip_commit_hash.chain_work <= m.chain_work

\* The forks stay as they should when the main state moves forward.
LEMMA ForkStaysOK ==
  ASSUME NEW m \in MainState, NEW r \in MainState,
         r.start_height >= m.start_height, r.chain_work >= m.chain_work,
         NEW f, ForkOK(f, m)
  PROVE  ForkOK(f, r)
<1>1. /\ m.start_height \in Nat /\ r.start_height \in Nat
      /\ m.chain_work \in Nat /\ r.chain_work \in Nat
      /\ f.start_height \in Nat /\ f.tip_commit_hash.chain_work \in Nat
  BY DEF MainState, ForkState, ForkOK, CommittedBlockHeader
<1> QED
  BY <1>1 DEF ForkOK

\* The block a branch is built on is a block.
LEMMA BaseType ==
  ASSUME NEW b, NEW h, NEW cs, IsBranch(b, h, cs), Len(cs) >= 1
  PROVE  b \in BlockHash
<1>1. 1 \in 1 .. Len(cs)
  BY DEF IsBranch
<1>2. cs[1].block_hash \in Header /\ Front(cs[1].block_hash) = b
  BY <1>1 DEF IsBranch
<1> QED
  BY <1>2, HeaderFacts

-----------------------------------------------------------------------------
(***************************************************************************)
(* The inductive invariant.                                                *)
(***************************************************************************)

\* The ids of open forks were handed out by the counter, each once.
IdsOK(m, forks) ==
  /\ DOMAIN forks \subseteq Nat \X Signer
  /\ \A k \in DOMAIN forks : k[1] < m.fork_counter
  /\ \A k, l \in DOMAIN forks : k[1] = l[1] => k = l

IndInv(m, forks) ==
  /\ m \in MainState
  /\ MainGenuine(m)
  /\ MainInShape(m)
  /\ IdsOK(m, forks)
  /\ \A k \in DOMAIN forks : ForkOK(forks[k], m)

\* It implies each of the invariants that the runs check, and is closed under
\* the steps because it adds to them that the blocks of a fork are headers
\* built on its base (ForkOK).
IInv == IndInv(main_state, fork_state)

\* Closing a fork account.
LEMMA WithoutFork ==
  ASSUME NEW m, NEW forks, IndInv(m, forks), NEW key,
         NEW rest, rest = [k \in DOMAIN forks \ {key} |-> forks[k]]
  PROVE  IndInv(m, rest)
<1>1. DOMAIN rest = DOMAIN forks \ {key} /\ \A k \in DOMAIN rest : rest[k] = forks[k]
  OBVIOUS
<1>2. IdsOK(m, rest)
  BY <1>1 DEF IndInv, IdsOK
<1> QED
  BY <1>1, <1>2 DEF IndInv

\* The main chain moves forward; the forks stay.
LEMMA MainMoves ==
  ASSUME NEW m, NEW forks, IndInv(m, forks),
         NEW r \in MainState, MainGenuine(r), MainInShape(r),
         r.start_height >= m.start_height, r.chain_work >= m.chain_work,
         r.fork_counter >= m.fork_counter
  PROVE  IndInv(r, forks)
<1>1. m \in MainState
  BY DEF IndInv
<1>2. \A k \in DOMAIN forks : ForkOK(forks[k], r)
  BY <1>1, ForkStaysOK DEF IndInv
<1>3. IdsOK(r, forks)
  <2>1. m.fork_counter \in Nat /\ r.fork_counter \in Nat
    BY <1>1 DEF MainState
  <2>2. \A k \in DOMAIN forks : k[1] \in Nat /\ k[1] < m.fork_counter
    BY DEF IndInv, IdsOK
  <2>3. \A k \in DOMAIN forks : k[1] < r.fork_counter
    BY <2>1, <2>2
  <2> QED
    BY <2>3 DEF IndInv, IdsOK
<1> QED
  BY <1>2, <1>3 DEF IndInv

\* The fork account f, a branch on block b, can be continued after c.
CanAppend(f, b, m, c) ==
  /\ f \in ForkState
  /\ f.start_height < m.start_height + PRUNING_FACTOR
  /\ b \in BlockHash
  /\ IsBranch(b, f.start_height, f.block_commitments)
  /\ c \in CommittedBlockHeader
  /\ IsGenuine(c)
  /\ c.blockheight = f.start_height + Len(f.block_commitments)
  /\ c.block_hash = IF Len(f.block_commitments) = 0
                    THEN b ELSE Last(f.block_commitments).block_hash

\* The headers made of data continue the fork account f after c.
IsContinued(f, b, c, data, headers) ==
  LET blocks == f.block_commitments \o headers
  IN  /\ IsBranch(b, f.start_height, blocks)
      /\ Len(blocks) \in Nat /\ Len(blocks) >= 1
      /\ Last(blocks) = Last(headers)
      /\ c.blockheight + Len(data) = f.start_height + Len(blocks)
      /\ Front(blocks[1].block_hash) = b
      /\ Last(blocks) \in CommittedBlockHeader

\* The blocks of a fork account after headers were appended.
LEMMA AppendedBlocks ==
  ASSUME NEW f, NEW b, NEW m, NEW c, CanAppend(f, b, m, c),
         NEW data \in Batch \ {<<>>}, IsLinked(data, c)
  PROVE  IsContinued(f, b, c, data, VerifyHeaders(data, c))
<1> DEFINE headers == VerifyHeaders(data, c)
           blocks == f.block_commitments \o headers
<1>1. /\ IsBranch(c.block_hash, c.blockheight, headers)
      /\ Len(headers) = Len(data)
      /\ Len(headers) >= 1
  BY HeadersAreBranch DEF CanAppend
<1> DEFINE h == f.start_height
           cs == f.block_commitments
           a == c.block_hash
<1>2. /\ h \in Nat /\ IsBranch(b, h, cs)
      /\ c.blockheight = h + Len(cs)
      /\ a = IF Len(cs) = 0 THEN b ELSE Last(cs).block_hash
  BY DEF CanAppend, ForkState
<1>3. blocks = cs \o headers /\ IsBranch(a, h + Len(cs), headers)
  BY <1>1, <1>2
<1>4. Len(cs) \in Nat /\ Len(headers) \in Nat
  BY <1>2, <1>3 DEF IsBranch
<1>5. /\ h \in Nat /\ c.blockheight \in Nat
      /\ c.blockheight = h + Len(cs)
      /\ Len(headers) = Len(data) /\ Len(headers) >= 1
  BY <1>1, <1>2 DEF CanAppend, CommittedBlockHeader
<1> HIDE DEF h, cs, a, headers, blocks
<1>6. /\ IsBranch(b, h, cs \o headers)
      /\ Len(cs \o headers) = Len(cs) + Len(headers)
      /\ Last(cs \o headers) = Last(headers)
  <2>1. IsBranch(b, h, cs) /\ h \in Nat
    BY <1>2
  <2>2. IsBranch(a, h + Len(cs), headers)
    BY <1>3
  <2>3. Len(headers) >= 1
    BY <1>5
  <2>4. a = IF Len(cs) = 0 THEN b ELSE Last(cs).block_hash
    BY <1>2
  <2> QED
    BY <2>1, <2>2, <2>3, <2>4, BranchAppend
<1>7. /\ IsBranch(b, h, blocks)
      /\ Len(blocks) = Len(cs) + Len(headers)
      /\ Last(blocks) = Last(headers)
      /\ Len(blocks) \in Nat /\ Len(blocks) >= 1
      /\ c.blockheight + Len(data) = h + Len(blocks)
  <2>1. blocks = cs \o headers
    BY <1>3
  <2>2. Len(blocks) = Len(cs) + Len(headers)
    BY <1>6, <2>1
  <2>3. /\ Len(blocks) \in Nat /\ Len(blocks) >= 1
        /\ c.blockheight + Len(data) = h + Len(blocks)
    BY <1>4, <1>5, <2>2
  <2> QED
    BY <1>6, <2>1, <2>2, <2>3
<1>8. Front(blocks[1].block_hash) = b
  <2>1. 1 \in 1 .. Len(blocks)
    BY <1>7
  <2> QED
    BY <1>7, <2>1 DEF IsBranch
<1>9. Last(blocks) \in CommittedBlockHeader
  <2>1. blocks \in Seq(CommittedBlockHeader) /\ Len(blocks) \in 1 .. Len(blocks)
    BY <1>7 DEF IsBranch
  <2> QED
    BY <2>1 DEF Last
<1> QED
  BY <1>7, <1>8, <1>9 DEF h, headers, blocks, IsContinued

\* The end of submit_fork_headers keeps the invariant.
LEMMA AppendStep ==
  ASSUME NEW m, IndInv(m, fork_state),
         NEW key \in Nat \X Signer, key[1] < m.fork_counter,
         \A k \in DOMAIN fork_state : k[1] = key[1] => k = key,
         NEW f, NEW b, NEW c, CanAppend(f, b, m, c),
         AppendToFork(key, f, m, c)
  PROVE  IInv'
<1>1. PICK data \in Batch \ {<<>>} :
        LET headers == VerifyHeaders(data, c)
            blocks  == f.block_commitments \o headers
            tip     == Last(headers)
        IN  /\ IsLinked(data, c)
            /\ FitsForkAccount(blocks)
            /\ \/ /\ HasMoreWork(tip, m)
                  /\ main_state' =
                       SetTip(StoreBlockCommitments(m, f.start_height, blocks),
                              c.blockheight + Len(data), tip)
                  /\ fork_state' = [k \in DOMAIN fork_state \ {key} |-> fork_state[k]]
               \/ /\ ~ HasMoreWork(tip, m)
                  /\ main_state' = m
                  /\ fork_state' =
                       [k \in DOMAIN fork_state \cup {key} |->
                          IF k = key
                          THEN [f EXCEPT !.block_commitments = blocks,
                                         !.tip_commit_hash = tip]
                          ELSE fork_state[k]]
  BY DEF AppendToFork
<1> DEFINE headers == VerifyHeaders(data, c)
           blocks == f.block_commitments \o headers
           tip == Last(headers)
<1>2. IsLinked(data, c) /\ FitsForkAccount(blocks)
  BY <1>1
<1>3. \/ /\ HasMoreWork(tip, m)
         /\ main_state' =
              SetTip(StoreBlockCommitments(m, f.start_height, blocks),
                     c.blockheight + Len(data), tip)
         /\ fork_state' = [k \in DOMAIN fork_state \ {key} |-> fork_state[k]]
      \/ /\ ~ HasMoreWork(tip, m)
         /\ main_state' = m
         /\ fork_state' =
              [k \in DOMAIN fork_state \cup {key} |->
                 IF k = key
                 THEN [f EXCEPT !.block_commitments = blocks,
                                !.tip_commit_hash = tip]
                 ELSE fork_state[k]]
  BY <1>1
<1>4. /\ IsBranch(b, f.start_height, blocks)
      /\ Len(blocks) \in Nat /\ Len(blocks) >= 1
      /\ Last(blocks) = tip
      /\ c.blockheight + Len(data) = f.start_height + Len(blocks)
      /\ Front(blocks[1].block_hash) = b
      /\ tip \in CommittedBlockHeader
  <2>1. CanAppend(f, b, m, c) /\ IsLinked(data, c) /\ data \in Batch \ {<<>>}
    BY <1>2
  <2>2. IsContinued(f, b, c, data, headers)
    BY <2>1, AppendedBlocks
  <2> QED
    BY <2>2 DEF IsContinued
<1> HIDE DEF headers, blocks, tip
<1>5. m \in MainState /\ MainGenuine(m) /\ MainInShape(m)
  BY DEF IndInv
<1>6. /\ f \in ForkState /\ f.start_height \in Nat /\ b \in BlockHash
      /\ f.start_height < m.start_height + PRUNING_FACTOR
  BY DEF CanAppend, ForkState
<1>7. m.chain_work \in Nat /\ tip.chain_work \in Nat
  BY <1>4, <1>5 DEF MainState, CommittedBlockHeader
<1>8. CASE /\ HasMoreWork(tip, m)
           /\ main_state' =
                SetTip(StoreBlockCommitments(m, f.start_height, blocks),
                       c.blockheight + Len(data), tip)
           /\ fork_state' = [k \in DOMAIN fork_state \ {key} |-> fork_state[k]]
  <2> DEFINE r == main_state'
  <2>1. r = SetTip(StoreBlockCommitments(m, f.start_height, blocks),
                   f.start_height + Len(blocks), Last(blocks))
    BY <1>4, <1>8
  <2> HIDE DEF r
  <2>2. /\ r \in MainState /\ MainGenuine(r) /\ MainInShape(r)
        /\ r.start_height >= m.start_height
        /\ r.fork_counter = m.fork_counter
        /\ r.chain_work = tip.chain_work
    BY <1>4, <1>5, <1>6, <2>1, Advance
  <2>3. r.chain_work >= m.chain_work /\ r.fork_counter >= m.fork_counter
    BY <1>5, <1>7, <1>8, <2>2 DEF HasMoreWork, MainState
  <2>4. IndInv(r, fork_state)
    BY <2>2, <2>3, MainMoves
  <2>5. IndInv(r, fork_state')
    BY <1>8, <2>4, WithoutFork
  <2> QED
    BY <2>5 DEF IInv, r
<1>9. CASE /\ ~ HasMoreWork(tip, m)
           /\ main_state' = m
           /\ fork_state' =
                [k \in DOMAIN fork_state \cup {key} |->
                   IF k = key
                   THEN [f EXCEPT !.block_commitments = blocks,
                                  !.tip_commit_hash = tip]
                   ELSE fork_state[k]]
  <2> DEFINE g == [f EXCEPT !.block_commitments = blocks, !.tip_commit_hash = tip]
  <2>1. /\ DOMAIN fork_state' = DOMAIN fork_state \cup {key}
        /\ fork_state'[key] = g
        /\ \A k \in DOMAIN fork_state : k # key => fork_state'[k] = fork_state[k]
    BY <1>9
  <2>2. /\ g \in ForkState
        /\ g.block_commitments = blocks
        /\ g.tip_commit_hash = tip
        /\ g.start_height = f.start_height
    BY <1>4, <1>6 DEF ForkState, IsBranch
  <2> HIDE DEF g
  <2>3. ForkBase(g) = b
    BY <1>4, <2>2 DEF ForkBase
  <2>4. Len(blocks) \in 1 .. PRUNING_FACTOR
    BY <1>2, <1>4 DEF FitsForkAccount
  <2>5. tip.chain_work <= m.chain_work
    BY <1>7, <1>9 DEF HasMoreWork
  <2>6. ForkOK(g, m)
    BY <1>4, <1>6, <2>2, <2>3, <2>4, <2>5 DEF ForkOK
  <2>7. \A k \in DOMAIN fork_state' : ForkOK(fork_state'[k], m)
    BY <2>1, <2>6 DEF IndInv
  <2>8. IdsOK(m, fork_state')
    BY <2>1 DEF IndInv, IdsOK
  <2> QED
    BY <1>5, <1>9, <2>7, <2>8 DEF IInv, IndInv
<1> QED
  BY <1>3, <1>8, <1>9

LEMMA InitInv == Init => IInv
<1> SUFFICES ASSUME Init PROVE IInv
  OBVIOUS
<1> DEFINE m == main_state
<1>1. /\ m.start_height = InitHeight
      /\ m.block_height = InitHeight
      /\ m.fork_counter = 0
      /\ m.tip_commit_hash = CheckpointHeader
      /\ m.chain_work = ChainWork[Checkpoint]
      /\ m.block_commitments = [p \in 0 .. PRUNING_FACTOR - 1 |->
                                  IF p = 0 THEN CheckpointHeader ELSE NoCommitment]
  BY DEF Init
<1>2. InitHeight \in Nat
  BY InitHeightAssumption
<1>3. CheckpointHeader \in CommittedBlockHeader /\ IsGenuine(CheckpointHeader)
  <2>1. Checkpoint \in BlockHash /\ Len(Checkpoint) = 0
    BY DEF BlockHash, Checkpoint
  <2>2. ChainWork[Checkpoint] \in Nat
    BY <2>1, ChainWorkAssumption
  <2> QED
    BY <1>2, <2>1, <2>2 DEF CheckpointHeader, CommittedBlockHeader, IsGenuine
<1>4. m \in MainState
  <2>1. ChainWork[Checkpoint] \in Nat
    BY <1>3 DEF CheckpointHeader, CommittedBlockHeader
  <2>2. m.block_commitments \in [0 .. PRUNING_FACTOR - 1 -> Commitment]
    BY <1>1, <1>3 DEF Commitment
  <2> QED
    BY <1>1, <1>2, <1>3, <2>1, <2>2 DEF Init, MainState
<1>5. CheckpointHeader # NoCommitment
  BY <1>3, NoCommitmentAssumption
<1>6. MainGenuine(m)
  BY <1>1, <1>3 DEF MainGenuine, CheckpointHeader
<1>7. GetPosition(m, m.block_height) = 0
  BY <1>1, <1>2 DEF GetPosition
<1>8. MainInShape(m)
  <2>1. CheckpointHeader.blockheight = InitHeight
    BY DEF CheckpointHeader
  <2> QED
    BY <1>1, <1>2, <1>5, <1>7, <2>1 DEF MainInShape, SlotsInShape
<1>9. DOMAIN fork_state = {}
  BY DEF Init
<1> QED
  BY <1>4, <1>6, <1>8, <1>9 DEF IInv, IndInv, IdsOK

\* submit_block_headers: a branch on the tip.
LEMMA SubmitBlockHeadersStep ==
  ASSUME IInv, NEW c \in Candidate, SubmitBlockHeaders(c)
  PROVE  IInv'
<1> DEFINE m == main_state
           h == m.block_height
<1>1. PICK data \in Batch \ {<<>>} :
        /\ IsLinked(data, c)
        /\ main_state' =
             SetTip(StoreBlockCommitments(m, h, VerifyHeaders(data, c)),
                    h + Len(data), Last(VerifyHeaders(data, c)))
  BY DEF SubmitBlockHeaders
<1>2. IndInv(m, fork_state) /\ fork_state' = fork_state
  BY DEF IInv, SubmitBlockHeaders
<1> DEFINE headers == VerifyHeaders(data, c)
           r == main_state'
<1>3. m \in MainState /\ MainGenuine(m) /\ MainInShape(m)
  BY <1>2 DEF IndInv
<1>4. h \in Nat /\ c = GetCommitment(m, h) /\ c \in CommittedBlockHeader
  BY <1>3, InputAssumption DEF MainState, SubmitBlockHeaders
<1> HIDE DEF m
<1>5. c = m.tip_commit_hash /\ c.blockheight = h /\ IsGenuine(c)
  BY <1>3, <1>4, ReadTip, ReadBack
<1>6. IsLinked(data, c)
  BY <1>1
<1>7. /\ IsBranch(c.block_hash, h, headers)
      /\ Len(headers) = Len(data)
      /\ Len(headers) >= 1
      /\ Last(headers).chain_work > c.chain_work
  BY <1>4, <1>5, <1>6, HeadersAreBranch
<1>8. c.block_hash \in BlockHash /\ h < m.start_height + PRUNING_FACTOR
  BY <1>3, <1>4 DEF CommittedBlockHeader, MainInShape
<1>9. r = SetTip(StoreBlockCommitments(m, h, headers), h + Len(headers), Last(headers))
  BY <1>1, <1>7
<1> HIDE DEF headers, r, h
<1>10. /\ r \in MainState /\ MainGenuine(r) /\ MainInShape(r)
       /\ r.start_height >= m.start_height
       /\ r.fork_counter = m.fork_counter
       /\ r.chain_work = Last(headers).chain_work
  BY <1>3, <1>4, <1>7, <1>8, <1>9, Advance
<1>11. r.chain_work >= m.chain_work /\ r.fork_counter >= m.fork_counter
  <2>1. c.chain_work = m.chain_work
    BY <1>3, <1>5 DEF MainGenuine
  <2>2. /\ m.chain_work \in Nat /\ r.chain_work \in Nat
        /\ m.fork_counter \in Nat
    BY <1>3, <1>10 DEF MainState
  <2> QED
    BY <1>7, <1>10, <2>1, <2>2
<1>12. IndInv(r, fork_state)
  BY <1>2, <1>10, <1>11, MainMoves
<1> QED
  BY <1>2, <1>12 DEF IInv, r

\* submit_short_fork_headers: a heavier branch on a block of the window.
LEMMA SubmitShortForkHeadersStep ==
  ASSUME IInv, NEW c \in Candidate, SubmitShortForkHeaders(c)
  PROVE  IInv'
<1> DEFINE m == main_state
           h == c.blockheight
<1>1. PICK data \in Batch \ {<<>>} :
        /\ IsLinked(data, c)
        /\ HasMoreWork(Last(VerifyHeaders(data, c)), m)
        /\ main_state' =
             UseForkId(SetTip(StoreBlockCommitments(m, h, VerifyHeaders(data, c)),
                              h + Len(data), Last(VerifyHeaders(data, c))))
  BY DEF SubmitShortForkHeaders
<1>2. IndInv(m, fork_state) /\ fork_state' = fork_state
  BY DEF IInv, SubmitShortForkHeaders
<1> DEFINE headers == VerifyHeaders(data, c)
           x == SetTip(StoreBlockCommitments(m, h, headers),
                       h + Len(headers), Last(headers))
           r == main_state'
<1>3. m \in MainState /\ MainGenuine(m) /\ MainInShape(m)
  BY <1>2 DEF IndInv
<1>4. c = GetCommitment(m, h) /\ c \in CommittedBlockHeader /\ h \in Nat
  BY InputAssumption DEF SubmitShortForkHeaders, CommittedBlockHeader
<1> HIDE DEF m
<1>5. IsGenuine(c) /\ h <= m.block_height
  BY <1>3, <1>4, ReadBack
<1>6. IsLinked(data, c)
  BY <1>1
<1>7. /\ IsBranch(c.block_hash, h, headers)
      /\ Len(headers) = Len(data)
      /\ Len(headers) >= 1
  BY <1>4, <1>5, <1>6, HeadersAreBranch
<1>8. c.block_hash \in BlockHash /\ h < m.start_height + PRUNING_FACTOR
  <2>1. m.block_height \in Nat /\ m.start_height \in Nat
    BY <1>3 DEF MainState
  <2> QED
    BY <1>3, <1>4, <1>5, <2>1 DEF CommittedBlockHeader, MainInShape
<1>9. HasMoreWork(Last(headers), m) /\ r = UseForkId(x)
  BY <1>1, <1>7
<1>10. x = SetTip(StoreBlockCommitments(m, h, headers), h + Len(headers), Last(headers))
  OBVIOUS
<1> HIDE DEF headers, r, h, x
<1>11. /\ x \in MainState /\ MainGenuine(x) /\ MainInShape(x)
       /\ x.start_height >= m.start_height
       /\ x.fork_counter = m.fork_counter
       /\ x.chain_work = Last(headers).chain_work
  BY <1>3, <1>4, <1>7, <1>8, <1>10, Advance
<1>12. /\ r \in MainState /\ MainGenuine(r) /\ MainInShape(r)
       /\ r.start_height = x.start_height
       /\ r.fork_counter = x.fork_counter + 1
       /\ r.chain_work = x.chain_work
  BY <1>9, <1>11, UseForkIdFields, UseForkIdInv
<1>13. /\ r.start_height >= m.start_height
       /\ r.chain_work >= m.chain_work
       /\ r.fork_counter >= m.fork_counter
  <2>1. /\ m.chain_work \in Nat /\ r.chain_work \in Nat
        /\ m.fork_counter \in Nat
    BY <1>3, <1>12 DEF MainState
  <2> QED
    BY <1>9, <1>11, <1>12, <2>1 DEF HasMoreWork
<1>14. IndInv(r, fork_state)
  BY <1>2, <1>12, <1>13, MainMoves
<1> QED
  BY <1>2, <1>14 DEF IInv, r

\* What submit_fork_headers appends to with init = true: a new fork account,
\* above a block of the main chain.
LEMMA OpenForkAppends ==
  ASSUME IInv, NEW signer, NEW c \in Candidate, OpenFork(signer, c)
  PROVE  LET m   == UseForkId(main_state)
             key == <<main_state.fork_counter, signer>>
             f   == [start_height      |-> c.blockheight,
                     tip_commit_hash   |-> c,
                     block_commitments |-> <<>>]
         IN  /\ IndInv(m, fork_state)
             /\ key \notin DOMAIN fork_state
             /\ c.blockheight <= m.block_height
             /\ CanAppend(f, c.block_hash, m, c)
             /\ AppendToFork(key, f, m, c)
<1> DEFINE m == UseForkId(main_state)
           key == <<main_state.fork_counter, signer>>
           f == [start_height      |-> c.blockheight,
                 tip_commit_hash   |-> c,
                 block_commitments |-> <<>>]
<1>1. IndInv(main_state, fork_state)
  BY DEF IInv
<1>2. main_state \in MainState /\ MainGenuine(main_state) /\ MainInShape(main_state)
  BY <1>1 DEF IndInv
<1>3. c \in CommittedBlockHeader /\ c.blockheight \in Nat /\ c.block_hash \in BlockHash
  BY InputAssumption DEF CommittedBlockHeader
<1>4. /\ key \notin DOMAIN fork_state
      /\ c = GetCommitment(main_state, c.blockheight) /\ AppendToFork(key, f, m, c)
  BY DEF OpenFork
<1>5. IsGenuine(c) /\ c.blockheight <= main_state.block_height
  BY <1>2, <1>3, <1>4, ReadBack
<1>6. /\ m \in MainState
      /\ m.start_height = main_state.start_height
      /\ m.chain_work = main_state.chain_work
      /\ m.block_height = main_state.block_height
      /\ m.fork_counter = main_state.fork_counter + 1
      /\ MainGenuine(m) /\ MainInShape(m)
  BY <1>2, UseForkIdFields, UseForkIdInv
<1> HIDE DEF m
<1>7. /\ main_state.fork_counter \in Nat /\ main_state.start_height \in Nat
      /\ main_state.chain_work \in Nat /\ main_state.block_height \in Nat
  BY <1>2 DEF MainState
<1>8. IndInv(m, fork_state)
  <2>1. /\ m.start_height >= main_state.start_height
        /\ m.chain_work >= main_state.chain_work
        /\ m.fork_counter >= main_state.fork_counter
    BY <1>6, <1>7
  <2> QED
    BY <1>1, <1>6, <2>1, MainMoves
<1>9. CanAppend(f, c.block_hash, m, c)
  <2>1. f \in ForkState
    BY <1>3 DEF ForkState
  <2>2. f.start_height < m.start_height + PRUNING_FACTOR
    BY <1>2, <1>3, <1>5, <1>6, <1>7 DEF MainInShape
  <2>3. Len(f.block_commitments) = 0 /\ f.block_commitments = <<>>
    OBVIOUS
  <2>4. IsBranch(c.block_hash, f.start_height, f.block_commitments)
    BY <2>3 DEF IsBranch
  <2> QED
    BY <1>3, <1>5, <2>1, <2>2, <2>3, <2>4 DEF CanAppend
<1>10. c.blockheight <= m.block_height
  BY <1>5, <1>6
<1> QED
  BY <1>4, <1>8, <1>9, <1>10 DEF m

\* With init = false: an open one, above its tip.
LEMMA ExtendForkAppends ==
  ASSUME IInv, NEW key \in DOMAIN fork_state, NEW c \in Candidate, ExtendFork(key, c)
  PROVE  LET f == fork_state[key]
         IN  /\ c = f.tip_commit_hash
             /\ CanAppend(f, ForkBase(f), main_state, c)
             /\ AppendToFork(key, f, main_state, c)
<1> DEFINE f == fork_state[key]
           cs == f.block_commitments
<1>1. ForkOK(f, main_state)
  BY DEF IInv, IndInv
<1>2. c = f.tip_commit_hash /\ AppendToFork(key, f, main_state, c)
  BY DEF ExtendFork
<1>3. /\ f \in ForkState
      /\ Len(cs) \in Nat /\ Len(cs) >= 1
      /\ IsBranch(ForkBase(f), f.start_height, cs)
      /\ f.start_height < main_state.start_height + PRUNING_FACTOR
      /\ c = Last(cs)
  BY <1>1, <1>2 DEF ForkOK
<1> HIDE DEF f
<1>4. ForkBase(f) \in BlockHash /\ f.start_height \in Nat
  BY <1>3, BaseType DEF ForkState
<1>5. c \in CommittedBlockHeader /\ IsGenuine(c) /\ c.blockheight = f.start_height + Len(cs)
  BY <1>3, <1>4, BranchTip
<1>6. CanAppend(f, ForkBase(f), main_state, c)
  BY <1>3, <1>4, <1>5 DEF CanAppend
<1> QED
  BY <1>2, <1>6 DEF f

\* submit_fork_headers with a new fork account.
LEMMA OpenForkStep ==
  ASSUME IInv, NEW signer \in Signer, NEW c \in Candidate, OpenFork(signer, c)
  PROVE  IInv'
<1> DEFINE m == UseForkId(main_state)
           key == <<main_state.fork_counter, signer>>
           f == [start_height      |-> c.blockheight,
                 tip_commit_hash   |-> c,
                 block_commitments |-> <<>>]
<1>1. /\ IndInv(m, fork_state)
      /\ CanAppend(f, c.block_hash, m, c) /\ AppendToFork(key, f, m, c)
  BY OpenForkAppends
<1>2. /\ main_state \in MainState /\ main_state.fork_counter \in Nat
      /\ \A k \in DOMAIN fork_state : k[1] \in Nat /\ k[1] < main_state.fork_counter
  BY DEF IInv, IndInv, IdsOK, MainState
<1>3. m.fork_counter = main_state.fork_counter + 1
  BY <1>2, UseForkIdFields
<1> HIDE DEF m, f
<1>4. key \in Nat \X Signer /\ key[1] < m.fork_counter
  BY <1>2, <1>3
<1>5. \A k \in DOMAIN fork_state : k[1] = key[1] => k = key
  BY <1>2
<1> HIDE DEF key
<1> QED
  BY <1>1, <1>4, <1>5, AppendStep

\* submit_fork_headers with an open fork account.
LEMMA ExtendForkStep ==
  ASSUME IInv, NEW key \in DOMAIN fork_state, NEW c \in Candidate, ExtendFork(key, c)
  PROVE  IInv'
<1>1. IndInv(main_state, fork_state)
  BY DEF IInv
<1>2. /\ key \in Nat \X Signer /\ key[1] < main_state.fork_counter
      /\ \A k \in DOMAIN fork_state : k[1] = key[1] => k = key
  BY <1>1 DEF IndInv, IdsOK
<1> QED
  BY <1>1, <1>2, ExtendForkAppends, AppendStep

\* close_fork_account.
LEMMA CloseForkAccountStep ==
  ASSUME IInv, NEW key \in DOMAIN fork_state, CloseForkAccount(key)
  PROVE  IInv'
BY WithoutFork DEF IInv, CloseForkAccount

\* Every step keeps the invariant.
LEMMA NextInv == IInv /\ [Next]_vars => IInv'
<1> SUFFICES ASSUME IInv, [Next]_vars PROVE IInv'
  OBVIOUS
<1>1. ASSUME NEW c \in Candidate, SubmitBlockHeaders(c) PROVE IInv'
  BY <1>1, SubmitBlockHeadersStep
<1>2. ASSUME NEW c \in Candidate, SubmitShortForkHeaders(c) PROVE IInv'
  BY <1>2, SubmitShortForkHeadersStep
<1>3. ASSUME NEW signer \in Signer, NEW c \in Candidate, OpenFork(signer, c) PROVE IInv'
  BY <1>3, OpenForkStep
<1>4. ASSUME NEW key \in DOMAIN fork_state, NEW c \in Candidate, ExtendFork(key, c)
      PROVE  IInv'
  BY <1>4, ExtendForkStep
<1>5. ASSUME NEW key \in DOMAIN fork_state, CloseForkAccount(key) PROVE IInv'
  BY <1>5, CloseForkAccountStep
<1>6. CASE UNCHANGED vars
  BY <1>6 DEF vars, IInv
<1> QED
  BY <1>1, <1>2, <1>3, <1>4, <1>5, <1>6 DEF Next

\* The inductive invariant holds in every state the relay can reach.
THEOREM InductiveInvariant == Spec => []IInv
BY InitInv, NextInv, PTL DEF Spec

-----------------------------------------------------------------------------
(***************************************************************************)
(* What the inductive invariant implies.                                   *)
(***************************************************************************)

LEMMA IInvTypeOK == IInv => TypeOK
BY DEF IInv, IndInv, IdsOK, ForkOK, TypeOK

\* The two kinds of account have their types, and a fork account never needs
\* more slots than its array has (state.rs:94).
THEOREM TypeCorrect == Spec => []TypeOK
BY InductiveInvariant, IInvTypeOK, PTL

LEMMA IInvCommitmentsGenuine == IInv => CommitmentsGenuine
<1> SUFFICES ASSUME IInv PROVE CommitmentsGenuine
  OBVIOUS
<1>1. MainGenuine(main_state)
  BY DEF IInv, IndInv
<1>2. ASSUME NEW k \in DOMAIN fork_state
      PROVE  /\ IsGenuine(fork_state[k].tip_commit_hash)
             /\ \A i \in DOMAIN fork_state[k].block_commitments :
                  IsGenuine(fork_state[k].block_commitments[i])
  <2> DEFINE f == fork_state[k]
             cs == f.block_commitments
  <2>1. /\ IsBranch(ForkBase(f), f.start_height, cs)
        /\ Len(cs) \in Nat /\ Len(cs) >= 1
        /\ f.tip_commit_hash = Last(cs)
    BY DEF IInv, IndInv, ForkOK
  <2>2. DOMAIN cs = 1 .. Len(cs) /\ \A i \in 1 .. Len(cs) : IsGenuine(cs[i])
    BY <2>1 DEF IsBranch
  <2>3. Last(cs) = cs[Len(cs)] /\ Len(cs) \in 1 .. Len(cs)
    BY <2>1 DEF Last
  <2> QED
    BY <2>1, <2>2, <2>3
<1> QED
  BY <1>1, <1>2 DEF CommitmentsGenuine, MainGenuine

\* No forged height or chain work is ever committed to, however many
\* instructions, forks and callers there are.
THEOREM CommitmentsStayGenuine == Spec => []CommitmentsGenuine
BY InductiveInvariant, IInvCommitmentsGenuine, PTL

LEMMA IInvRingShape == IInv => RingShape
BY DEF IInv, IndInv, ForkOK, MainInShape, SlotsInShape, RingShape

\* The ring buffer is written without gaps for every capacity, also where it
\* wraps around and after the tip was lowered by a shorter, heavier chain.
THEOREM RingStaysInShape == Spec => []RingShape
BY InductiveInvariant, IInvRingShape, PTL

LEMMA IInvForksAreBranches == IInv => ForksAreBranches
<1> SUFFICES ASSUME IInv, NEW k \in DOMAIN fork_state
             PROVE  LET fork   == fork_state[k]
                        blocks == fork.block_commitments
                    IN  /\ fork.tip_commit_hash = Last(blocks)
                        /\ \A i \in DOMAIN blocks :
                             /\ blocks[i].blockheight = fork.start_height + i
                             /\ i > 1 => Front(blocks[i].block_hash) =
                                           blocks[i-1].block_hash
  BY DEF ForksAreBranches
<1> DEFINE f == fork_state[k]
           cs == f.block_commitments
<1>1. /\ IsBranch(ForkBase(f), f.start_height, cs)
      /\ f.tip_commit_hash = Last(cs)
  BY DEF IInv, IndInv, ForkOK
<1>2. DOMAIN cs = 1 .. Len(cs)
  BY <1>1 DEF IsBranch
<1>3. \A i \in 1 .. Len(cs) :
        /\ cs[i].blockheight = f.start_height + i
        /\ i > 1 => Front(cs[i].block_hash) = cs[i-1].block_hash
  BY <1>1 DEF IsBranch
<1> QED
  BY <1>1, <1>2, <1>3

\* A fork account holds one chain of blocks, although it is extended over many
\* transactions.
THEOREM ForksStayBranches == Spec => []ForksAreBranches
BY InductiveInvariant, IInvForksAreBranches, PTL

LEMMA IInvForksNotHeavier == IInv => ForksNotHeavier
BY DEF IInv, IndInv, ForkOK, ForksNotHeavier

\* No fork with more work than the main chain is ever left open.
THEOREM HeaviestIsMain == Spec => []ForksNotHeavier
BY InductiveInvariant, IInvForksNotHeavier, PTL

LEMMA IInvForkIdsUnique == IInv => ForkIdsUnique
BY DEF IInv, IndInv, IdsOK, ForkIdsUnique

\* No two open forks share a fork id, whoever signed for them.
THEOREM ForkIdsStayUnique == Spec => []ForkIdsUnique
BY InductiveInvariant, IInvForkIdsUnique, PTL

LEMMA IInvConfirmationsReal == IInv => ConfirmationsReal
<1> SUFFICES ASSUME IInv, NEW c \in Candidate, NEW n \in 1 .. PRUNING_FACTOR,
                    VerifyTransaction(c, n)
             PROVE  /\ IsGenuine(c)
                    /\ Len(TipHash) - Len(c.block_hash) + 1 >= n
  BY DEF ConfirmationsReal
<1> DEFINE m == main_state
           t == m.tip_commit_hash
<1>1. m \in MainState /\ MainGenuine(m)
  BY DEF IInv, IndInv
<1>2. /\ c = GetCommitment(m, c.blockheight)
      /\ m.block_height - c.blockheight + 1 >= n
  BY DEF VerifyTransaction
<1>3. c \in CommittedBlockHeader /\ c.blockheight \in Nat
  BY InputAssumption DEF CommittedBlockHeader
<1> HIDE DEF m
<1>4. IsGenuine(c)
  BY <1>1, <1>2, <1>3, ReadBack
<1>5. /\ m.block_height = InitHeight + Len(t.block_hash)
      /\ c.blockheight = InitHeight + Len(c.block_hash)
  BY <1>1, <1>4 DEF MainGenuine, IsGenuine
<1>6. Len(t.block_hash) \in Nat /\ Len(c.block_hash) \in Nat
  <2>1. t.block_hash \in BlockHash /\ c.block_hash \in BlockHash
    BY <1>1, <1>3 DEF MainState, CommittedBlockHeader
  <2> QED
    BY <2>1, BlockHashType
<1> QED
  BY <1>2, <1>4, <1>5, <1>6, InitHeightAssumption DEF TipHash, m

\* verify_transaction never counts a confirmation that is not there.
THEOREM ConfirmationsAreReal == Spec => []ConfirmationsReal
BY InductiveInvariant, IInvConfirmationsReal, PTL

-----------------------------------------------------------------------------
(***************************************************************************)
(* The window of readable heights.                                         *)
(***************************************************************************)

\* WindowIsSound for the main state alone: the round is written up to the tip,
\* and the commitments in the window are ancestors of the tip.
SoundAt(m) ==
  /\ FilledTo(m, m.block_height)
  /\ \A k \in Nat : \A d :
       /\ k <= m.block_height
       /\ k > m.block_height - PRUNING_FACTOR
       /\ Holds(m, k, d)
       => IsPrefix(d.block_hash, m.tip_commit_hash.block_hash)

\* The window stays sound when the new blocks are built on an ancestor of the
\* tip.  The case to worry about is a commitment of an earlier round that comes
\* back into the window when the tip is lowered: there is none, because the
\* slots of the current round are written up to the tip.
LEMMA AdvanceSound ==
  ASSUME NEW m \in MainState, MainGenuine(m), MainInShape(m), SoundAt(m),
         NEW b \in BlockHash, NEW h \in Nat, h < m.start_height + PRUNING_FACTOR,
         h = InitHeight + Len(b), IsPrefix(b, m.tip_commit_hash.block_hash),
         NEW cs, IsBranch(b, h, cs), Len(cs) >= 1
  PROVE  SoundAt(SetTip(StoreBlockCommitments(m, h, cs), h + Len(cs), Last(cs)))
<1> DEFINE n == Len(cs)
           x == StoreBlockCommitments(m, h, cs)
           last == Last(cs)
           r == SetTip(x, h + n, last)
           T == m.tip_commit_hash.block_hash
<1>1. /\ n \in Nat /\ n >= 1 /\ n \in 1 .. n
      /\ cs \in Seq(CommittedBlockHeader)
      /\ \A i \in 1 .. n : cs[i].blockheight = h + i
  BY DEF IsBranch
<1>2. last = cs[n] /\ last \in CommittedBlockHeader
  BY <1>1 DEF Last
<1>3. x \in MainState /\ StoredUpTo(m, h, cs, n, x)
  BY <1>1, StoreAll DEF MainInShape
<1>4. /\ \A i \in 1 .. n : IsPrefix(cs[i].block_hash, last.block_hash)
      /\ IsPrefix(b, last.block_hash)
  BY BranchAncestry
<1>5. T \in BlockHash /\ m.block_height \in Nat /\ m.start_height \in Nat
  BY DEF MainState, CommittedBlockHeader
<1>6. m.block_height = InitHeight + Len(T)
  BY DEF MainGenuine, IsGenuine
<1>7. T \in Seq(Label) /\ b \in Seq(Label) /\ last.block_hash \in Seq(Label)
  BY <1>2, <1>5, BlockHashType DEF CommittedBlockHeader
<1>8. h <= m.block_height
  <2>1. Len(b) <= Len(T)
    BY <1>7, PrefixPointwise
  <2>2. Len(b) \in Nat /\ Len(T) \in Nat
    BY <1>7
  <2> QED
    BY <1>6, <2>1, <2>2, InitHeightAssumption
<1>9. h + n \in Nat
  BY <1>1
<1> HIDE DEF n, x, last, T
<1>10. HasTip(r, x, h + n, last)
  BY <1>2, <1>3, <1>9, SetTipFields
<1>11. /\ r.start_height = x.start_height
       /\ r.block_commitments = x.block_commitments
       /\ r.block_height = h + n
       /\ r.tip_commit_hash = last
  BY <1>10 DEF HasTip
<1> HIDE DEF r
<1>12. FilledTo(r, h + n)
  <2>1. FilledTo(m, h)
    BY <1>5, <1>8 DEF SoundAt, FilledTo
  <2>2. FilledTo(x, h + n)
    BY <1>3, <2>1 DEF StoredUpTo
  <2> QED
    BY <1>11, <2>2 DEF FilledTo
<1>13. ASSUME NEW k \in Nat, NEW d, k <= r.block_height,
              k > r.block_height - PRUNING_FACTOR, Holds(r, k, d)
       PROVE  IsPrefix(d.block_hash, last.block_hash)
  <2>0. k <= h + n
    BY <1>11, <1>13
  <2>1. Holds(x, k, d)
    <3>1. GetPosition(r, k) = GetPosition(x, k)
      BY <1>11, SamePosition
    <3> QED
      BY <1>11, <1>13, <3>1 DEF Holds
  <2>2. CASE k > h
    <3> DEFINE j == k - h
    <3>1. j \in 1 .. n /\ h + j = k
      BY <1>1, <2>0, <2>2
    <3> HIDE DEF j
    <3>2. d = cs[j]
      BY <1>3, <2>1, <3>1 DEF StoredUpTo
    <3> QED
      BY <1>4, <3>1, <3>2
  <2>3. CASE k <= h
    <3>1. Holds(m, k, d)
      BY <1>3, <2>1, <2>3 DEF StoredUpTo
    <3>2. CASE k > m.block_height - PRUNING_FACTOR
      <4>1. k <= m.block_height
        BY <1>5, <1>8, <2>3
      <4>2. IsPrefix(d.block_hash, T)
        BY <3>1, <3>2, <4>1 DEF SoundAt, T
      <4>3. d \in CommittedBlockHeader /\ IsGenuine(d) /\ d.blockheight = k
        <5>1. GetPosition(m, k) \in 0 .. PRUNING_FACTOR - 1
          BY <3>1, PositionType DEF Holds
        <5> QED
          BY <3>1, <5>1 DEF Holds, MainGenuine, MainState, Commitment
      <4>4. d.block_hash \in Seq(Label)
        BY <4>3, BlockHashType DEF CommittedBlockHeader
      <4>5. Len(d.block_hash) <= Len(b)
        <5>1. k = InitHeight + Len(d.block_hash)
          BY <4>3 DEF IsGenuine
        <5>2. Len(b) \in Nat /\ Len(d.block_hash) \in Nat
          BY <1>7, <4>4
        <5> QED
          BY <2>3, <5>1, <5>2, InitHeightAssumption
      <4>6. IsPrefix(b, T)
        BY DEF T
      <4>7. IsPrefix(d.block_hash, b)
        BY <1>7, <4>2, <4>4, <4>5, <4>6, PrefixOfPrefix
      <4> QED
        BY <1>4, <1>7, <4>4, <4>7, PrefixTransitive
    <3>3. CASE k <= m.block_height - PRUNING_FACTOR
      <4> DEFINE S == m.start_height
                 t == m.block_height
                 p == GetPosition(m, k)
      <4>1. t < S + PRUNING_FACTOR
        BY DEF MainInShape
      <4>2. k < S
        BY <1>5, <3>3, <4>1
      <4>3. S - k < PRUNING_FACTOR /\ p = PRUNING_FACTOR - (S - k)
        BY <1>5, <3>1, <4>2 DEF Holds, GetPosition
      <4>4. p \in 0 .. PRUNING_FACTOR - 1 /\ S + p = k + PRUNING_FACTOR /\ S + p <= t
        BY <1>5, <3>3, <4>2, <4>3
      <4>5. m.block_commitments[p].blockheight = k
        BY <3>1 DEF Holds
      <4> HIDE DEF p
      <4>6. m.block_commitments[p].blockheight = S + p
        BY <4>4 DEF SoundAt, FilledTo
      <4> QED
        BY <4>4, <4>5, <4>6
    <3> QED
      BY <1>5, <3>2, <3>3
  <2> QED
    BY <1>13, <2>2, <2>3
<1>14. SoundAt(r)
  <2>1. FilledTo(r, r.block_height)
    BY <1>11, <1>12
  <2>2. last = r.tip_commit_hash
    BY <1>11
  <2> QED
    BY <1>13, <2>1, <2>2 DEF SoundAt
<1>15. r = SetTip(StoreBlockCommitments(m, h, cs), h + Len(cs), Last(cs))
  BY DEF r, x, n, last
<1> QED
  BY <1>14, <1>15

\* WindowIsAncestry of any main state.
WindowAt(m) ==
  \A h \in m.block_height - PRUNING_FACTOR + 1 .. m.block_height :
    LET c == GetCommitment(m, h)
    IN  c # NoCommitment /\ c.blockheight = h =>
          IsPrefix(c.block_hash, m.tip_commit_hash.block_hash)

\* SoundAt is WindowIsSound in terms of slots.
LEMMA SoundWindow ==
  ASSUME NEW m \in MainState, m.block_height >= PRUNING_FACTOR
  PROVE  SoundAt(m) <=> WindowAt(m) /\ FilledTo(m, m.block_height)
<1>1. m.block_height \in Nat
  BY DEF MainState
<1>2. ASSUME NEW k \in Nat, k <= m.block_height, k > m.block_height - PRUNING_FACTOR, NEW d
      PROVE  Holds(m, k, d) <=> /\ d = GetCommitment(m, k)
                                /\ d # NoCommitment
                                /\ d.blockheight = k
  <2>1. ~ (k > m.block_height) /\ ~ (k <= m.block_height - PRUNING_FACTOR)
    BY <1>1, <1>2
  <2>2. ~ (m.block_height < PRUNING_FACTOR)
    BY <1>1
  <2> QED
    BY <2>1, <2>2 DEF Holds, GetCommitment
<1>3. ASSUME SoundAt(m) PROVE WindowAt(m)
  <2> SUFFICES ASSUME NEW k \in m.block_height - PRUNING_FACTOR + 1 .. m.block_height,
                      GetCommitment(m, k) # NoCommitment,
                      GetCommitment(m, k).blockheight = k
               PROVE  IsPrefix(GetCommitment(m, k).block_hash,
                               m.tip_commit_hash.block_hash)
    BY DEF WindowAt
  <2>1. k \in Nat /\ k <= m.block_height /\ k > m.block_height - PRUNING_FACTOR
    BY <1>1
  <2>2. Holds(m, k, GetCommitment(m, k))
    BY <1>2, <2>1
  <2> QED
    BY <1>3, <2>1, <2>2 DEF SoundAt
<1>4. ASSUME WindowAt(m), FilledTo(m, m.block_height) PROVE SoundAt(m)
  <2>1. ASSUME NEW k \in Nat, NEW d, k <= m.block_height,
               k > m.block_height - PRUNING_FACTOR, Holds(m, k, d)
        PROVE  IsPrefix(d.block_hash, m.tip_commit_hash.block_hash)
    <3>1. k \in m.block_height - PRUNING_FACTOR + 1 .. m.block_height
      BY <1>1, <2>1
    <3>2. d = GetCommitment(m, k) /\ d # NoCommitment /\ d.blockheight = k
      BY <1>2, <2>1
    <3> QED
      BY <1>4, <3>1, <3>2 DEF WindowAt
  <2> QED
    BY <1>4, <2>1 DEF SoundAt
<1>5. SoundAt(m) => FilledTo(m, m.block_height)
  BY DEF SoundAt
<1> QED
  BY <1>3, <1>4, <1>5

\* Soundness does not depend on the counter of fork ids.
LEMMA UseForkIdSound ==
  ASSUME NEW m \in MainState, SoundAt(m)
  PROVE  SoundAt(UseForkId(m))
<1> DEFINE r == UseForkId(m)
<1>1. /\ r.start_height = m.start_height
      /\ r.block_height = m.block_height
      /\ r.tip_commit_hash = m.tip_commit_hash
      /\ r.block_commitments = m.block_commitments
  BY UseForkIdFields
<1> HIDE DEF r
<1>2. FilledTo(r, r.block_height)
  BY <1>1 DEF SoundAt, FilledTo
<1>3. ASSUME NEW k \in Nat, NEW d, Holds(r, k, d) PROVE Holds(m, k, d)
  <2>1. GetPosition(r, k) = GetPosition(m, k)
    BY <1>1, SamePosition
  <2> QED
    BY <1>1, <1>3, <2>1 DEF Holds
<1>4. SoundAt(r)
  BY <1>1, <1>2, <1>3 DEF SoundAt
<1> QED
  BY <1>4 DEF r

\* A commitment that is read back under its own height is an ancestor of the
\* tip when the window is sound.
LEMMA ReadBackSound ==
  ASSUME NEW m \in MainState, MainGenuine(m), SoundAt(m),
         NEW c \in Candidate, c = GetCommitment(m, c.blockheight)
  PROVE  IsPrefix(c.block_hash, m.tip_commit_hash.block_hash)
<1>1. c \in CommittedBlockHeader /\ c.blockheight \in Nat /\ c # NoCommitment
  BY InputAssumption, NoCommitmentAssumption DEF CommittedBlockHeader
<1> DEFINE k == c.blockheight
<1>2. /\ k <= m.block_height
      /\ k > m.block_height - PRUNING_FACTOR
      /\ GetPosition(m, k) \in 0 .. PRUNING_FACTOR - 1
      /\ c = m.block_commitments[GetPosition(m, k)]
  BY <1>1, ReadBack
<1>3. GetPosition(m, k) # PRUNING_FACTOR
  BY <1>2
<1>4. Holds(m, k, c)
  BY <1>1, <1>2, <1>3 DEF Holds
<1> HIDE DEF k
<1> QED
  BY <1>1, <1>2, <1>4 DEF SoundAt, k

\* A relay initialised at a height below PRUNING_FACTOR never moves, because
\* get_commitment then panics for every height.
Stuck ==
  InitHeight < PRUNING_FACTOR =>
    main_state.block_height = InitHeight /\ DOMAIN fork_state = {}

LEMMA InitStuck == Init => Stuck
BY DEF Init, Stuck

\* A relay that can take a step was initialised high enough, and all its
\* commitments can be read.
LEMMA NotStuck ==
  ASSUME IInv, Stuck, Next
  PROVE  InitHeight >= PRUNING_FACTOR /\ main_state.block_height >= PRUNING_FACTOR
<1>1. main_state \in MainState /\ MainGenuine(main_state)
  BY DEF IInv, IndInv
<1>2. main_state.block_height \in Nat
  BY <1>1 DEF MainState
<1>3. main_state.block_height >= InitHeight
  <2>1. main_state.tip_commit_hash.block_hash \in Seq(Label)
    BY <1>1, BlockHashType DEF MainState, CommittedBlockHeader
  <2>2. Len(main_state.tip_commit_hash.block_hash) \in Nat
    BY <2>1
  <2>3. main_state.block_height =
          InitHeight + Len(main_state.tip_commit_hash.block_hash)
    BY <1>1 DEF MainGenuine, IsGenuine
  <2> QED
    BY <2>2, <2>3, InitHeightAssumption
<1>4. \A c \in Candidate : c # NoCommitment
  BY InputAssumption, NoCommitmentAssumption
<1>5. InitHeight >= PRUNING_FACTOR
  <2> SUFFICES ASSUME InitHeight < PRUNING_FACTOR PROVE FALSE
    BY InitHeightAssumption
  <2>1. main_state.block_height < PRUNING_FACTOR /\ DOMAIN fork_state = {}
    BY DEF Stuck
  <2>2. \A height : GetCommitment(main_state, height) = NoCommitment
    BY <2>1 DEF GetCommitment
  <2> QED
    BY <1>4, <2>1, <2>2
       DEF Next, SubmitBlockHeaders, SubmitShortForkHeaders, OpenFork
<1> QED
  BY <1>2, <1>3, <1>5, InitHeightAssumption

LEMMA NextStuck == IInv /\ Stuck /\ [Next]_vars => Stuck'
<1> SUFFICES ASSUME IInv, Stuck, [Next]_vars PROVE Stuck'
  OBVIOUS
<1>1. CASE Next
  BY <1>1, NotStuck, InitHeightAssumption DEF Stuck
<1>2. CASE UNCHANGED vars
  BY <1>2 DEF vars, Stuck
<1> QED
  BY <1>1, <1>2

\* The end of submit_fork_headers keeps the window sound, if the base of a fork
\* that it merges is still in the main chain.
LEMMA AppendSound ==
  ASSUME NEW m, IndInv(m, fork_state), SoundAt(m),
         NEW key, NEW f, NEW b, NEW c, CanAppend(f, b, m, c),
         f.start_height = InitHeight + Len(b),
         main_state' # m /\ key \notin DOMAIN fork_state' =>
           IsPrefix(b, m.tip_commit_hash.block_hash),
         AppendToFork(key, f, m, c)
  PROVE  SoundAt(main_state')
<1>1. PICK data \in Batch \ {<<>>} :
        LET headers == VerifyHeaders(data, c)
            blocks  == f.block_commitments \o headers
            tip     == Last(headers)
        IN  /\ IsLinked(data, c)
            /\ \/ /\ HasMoreWork(tip, m)
                  /\ main_state' =
                       SetTip(StoreBlockCommitments(m, f.start_height, blocks),
                              c.blockheight + Len(data), tip)
                  /\ fork_state' = [k \in DOMAIN fork_state \ {key} |-> fork_state[k]]
               \/ main_state' = m
  BY DEF AppendToFork
<1> DEFINE headers == VerifyHeaders(data, c)
           blocks == f.block_commitments \o headers
           tip == Last(headers)
           h == f.start_height
           r == main_state'
<1>2. IsLinked(data, c)
  BY <1>1
<1>3. \/ /\ HasMoreWork(tip, m)
         /\ r = SetTip(StoreBlockCommitments(m, h, blocks),
                       c.blockheight + Len(data), tip)
         /\ key \notin DOMAIN fork_state'
      \/ r = m
  BY <1>1
<1>4. /\ IsBranch(b, h, blocks)
      /\ Len(blocks) \in Nat /\ Len(blocks) >= 1
      /\ Last(blocks) = tip
      /\ c.blockheight + Len(data) = h + Len(blocks)
      /\ tip \in CommittedBlockHeader
  <2>1. CanAppend(f, b, m, c) /\ IsLinked(data, c) /\ data \in Batch \ {<<>>}
    BY <1>2
  <2>2. IsContinued(f, b, c, data, headers)
    BY <2>1, AppendedBlocks
  <2> QED
    BY <2>2 DEF IsContinued
<1>5. m \in MainState /\ MainGenuine(m) /\ MainInShape(m)
  BY DEF IndInv
<1>6. /\ h \in Nat /\ b \in BlockHash
      /\ h < m.start_height + PRUNING_FACTOR
      /\ h = InitHeight + Len(b)
  BY DEF CanAppend, ForkState
<1> HIDE DEF headers, blocks, tip, h
<1>7. CASE r = m
  BY <1>7
<1>8. CASE /\ HasMoreWork(tip, m)
           /\ r = SetTip(StoreBlockCommitments(m, h, blocks),
                         c.blockheight + Len(data), tip)
           /\ key \notin DOMAIN fork_state'
  <2>1. r = SetTip(StoreBlockCommitments(m, h, blocks), h + Len(blocks), Last(blocks))
    BY <1>4, <1>8
  <2>2. r.chain_work = tip.chain_work
    BY <1>4, <1>5, <1>6, <2>1, Advance
  <2>3. m.chain_work \in Nat /\ tip.chain_work \in Nat
    BY <1>4, <1>5 DEF MainState, CommittedBlockHeader
  <2>4. r # m
    BY <1>8, <2>2, <2>3 DEF HasMoreWork
  <2>5. IsPrefix(b, m.tip_commit_hash.block_hash)
    BY <1>8, <2>4
  <2> HIDE DEF r
  <2>6. SoundAt(SetTip(StoreBlockCommitments(m, h, blocks),
                       h + Len(blocks), Last(blocks)))
    BY <1>4, <1>5, <1>6, <2>5, AdvanceSound
  <2>7. SoundAt(r)
    BY <2>1, <2>6
  <2> QED
    BY <2>7 DEF r
<1> QED
  BY <1>3, <1>7, <1>8

\* Only the merge of a stale fork can end the soundness of the window.
LEMMA StepSound ==
  ASSUME IInv, Next, ~ MergesStaleFork, SoundAt(main_state)
  PROVE  SoundAt(main_state')
<1> DEFINE m == main_state
           r == main_state'
<1>1. IndInv(m, fork_state)
  BY DEF IInv
<1>2. m \in MainState /\ MainGenuine(m) /\ MainInShape(m) /\ SoundAt(m)
  BY <1>1 DEF IndInv
<1>3. m.block_height \in Nat /\ m.start_height \in Nat
  BY <1>2 DEF MainState
<1> HIDE DEF m
\* A branch on a block that the caller reads back.
<1>4. ASSUME NEW c \in Candidate, c = GetCommitment(m, c.blockheight),
             NEW data \in Batch \ {<<>>}, IsLinked(data, c)
      PROVE  SoundAt(SetTip(StoreBlockCommitments(m, c.blockheight, VerifyHeaders(data, c)),
                            c.blockheight + Len(data), Last(VerifyHeaders(data, c))))
  <2> DEFINE headers == VerifyHeaders(data, c)
             h == c.blockheight
             b == c.block_hash
  <2>1. c \in CommittedBlockHeader /\ h \in Nat /\ b \in BlockHash
    BY InputAssumption DEF CommittedBlockHeader
  <2>2. IsGenuine(c) /\ h <= m.block_height
    BY <1>2, <1>4, <2>1, ReadBack
  <2>3. IsPrefix(b, m.tip_commit_hash.block_hash)
    BY <1>2, <1>4, ReadBackSound
  <2>4. IsBranch(b, h, headers) /\ Len(headers) = Len(data) /\ Len(headers) >= 1
    BY <1>4, <2>1, <2>2, HeadersAreBranch
  <2>5. h < m.start_height + PRUNING_FACTOR
    BY <1>2, <1>3, <2>1, <2>2 DEF MainInShape
  <2>6. h = InitHeight + Len(b)
    BY <2>2 DEF IsGenuine
  <2> HIDE DEF headers, h, b
  <2>7. SoundAt(SetTip(StoreBlockCommitments(m, h, headers),
                       h + Len(headers), Last(headers)))
    BY <1>2, <2>1, <2>3, <2>4, <2>5, <2>6, AdvanceSound
  <2> QED
    BY <2>4, <2>7 DEF headers, h
<1>5. ASSUME NEW c \in Candidate, SubmitBlockHeaders(c) PROVE SoundAt(r)
  <2>1. c = GetCommitment(m, m.block_height)
    BY <1>5 DEF SubmitBlockHeaders, m
  <2>2. c.blockheight = m.block_height
    BY <1>2, <2>1, ReadTip
  <2>3. PICK data \in Batch \ {<<>>} :
          /\ IsLinked(data, c)
          /\ r = SetTip(StoreBlockCommitments(m, m.block_height, VerifyHeaders(data, c)),
                        m.block_height + Len(data), Last(VerifyHeaders(data, c)))
    BY <1>5 DEF SubmitBlockHeaders, m
  <2> QED
    BY <1>4, <2>1, <2>2, <2>3
<1>6. ASSUME NEW c \in Candidate, SubmitShortForkHeaders(c) PROVE SoundAt(r)
  <2>1. c = GetCommitment(m, c.blockheight)
    BY <1>6 DEF SubmitShortForkHeaders, m
  <2> DEFINE x(data) ==
               SetTip(StoreBlockCommitments(m, c.blockheight, VerifyHeaders(data, c)),
                      c.blockheight + Len(data), Last(VerifyHeaders(data, c)))
  <2>2. PICK data \in Batch \ {<<>>} : IsLinked(data, c) /\ r = UseForkId(x(data))
    BY <1>6 DEF SubmitShortForkHeaders, m
  <2>3. SoundAt(x(data))
    BY <1>4, <2>1, <2>2
  <2>4. x(data) \in MainState
    <3> DEFINE headers == VerifyHeaders(data, c)
               h == c.blockheight
               b == c.block_hash
    <3>1. c \in CommittedBlockHeader /\ h \in Nat /\ b \in BlockHash
      BY InputAssumption DEF CommittedBlockHeader
    <3>2. IsGenuine(c) /\ h <= m.block_height
      BY <1>2, <2>1, <3>1, ReadBack
    <3>3. IsBranch(b, h, headers) /\ Len(headers) = Len(data) /\ Len(headers) >= 1
      BY <2>2, <3>1, <3>2, HeadersAreBranch
    <3>4. h < m.start_height + PRUNING_FACTOR
      BY <1>2, <1>3, <3>1, <3>2 DEF MainInShape
    <3>5. x(data) = SetTip(StoreBlockCommitments(m, h, headers),
                           h + Len(headers), Last(headers))
      BY <3>3
    <3> HIDE DEF headers, h, b, x
    <3> QED
      BY <1>2, <3>1, <3>3, <3>4, <3>5, Advance
  <2> HIDE DEF x
  <2> QED
    BY <2>2, <2>3, <2>4, UseForkIdSound
<1>7. ASSUME NEW signer \in Signer, NEW c \in Candidate, OpenFork(signer, c)
      PROVE  SoundAt(r)
  <2> DEFINE u == UseForkId(main_state)
             key == <<main_state.fork_counter, signer>>
             f == [start_height      |-> c.blockheight,
                   tip_commit_hash   |-> c,
                   block_commitments |-> <<>>]
  <2>1. c = GetCommitment(m, c.blockheight) /\ AppendToFork(key, f, u, c)
    BY <1>7 DEF OpenFork, m
  <2>2. c \in CommittedBlockHeader /\ c.blockheight \in Nat /\ c.block_hash \in BlockHash
    BY InputAssumption DEF CommittedBlockHeader
  <2>3. IsGenuine(c) /\ c.blockheight <= m.block_height
    BY <1>2, <2>1, <2>2, ReadBack
  <2>4. /\ u \in MainState /\ MainGenuine(u) /\ MainInShape(u) /\ SoundAt(u)
        /\ u.start_height = m.start_height
        /\ u.chain_work = m.chain_work
        /\ u.tip_commit_hash = m.tip_commit_hash
        /\ u.fork_counter = m.fork_counter + 1
    BY <1>2, UseForkIdFields, UseForkIdInv, UseForkIdSound DEF m
  <2> HIDE DEF u
  <2>5. IndInv(u, fork_state)
    <3>1. m.chain_work \in Nat /\ m.fork_counter \in Nat
      BY <1>2 DEF MainState
    <3>2. /\ u.start_height >= m.start_height
          /\ u.chain_work >= m.chain_work
          /\ u.fork_counter >= m.fork_counter
      BY <1>3, <2>4, <3>1
    <3> QED
      BY <1>1, <2>4, <3>2, MainMoves
  <2>6. CanAppend(f, c.block_hash, u, c)
    <3>1. f \in ForkState
      BY <2>2 DEF ForkState
    <3>2. f.start_height < u.start_height + PRUNING_FACTOR
      BY <1>2, <1>3, <2>2, <2>3, <2>4 DEF MainInShape
    <3>3. Len(f.block_commitments) = 0 /\ f.block_commitments = <<>>
      OBVIOUS
    <3>4. IsBranch(c.block_hash, f.start_height, f.block_commitments)
      BY <3>3 DEF IsBranch
    <3> QED
      BY <2>2, <2>3, <3>1, <3>2, <3>3, <3>4 DEF CanAppend
  <2>7. f.start_height = InitHeight + Len(c.block_hash)
    BY <2>3 DEF IsGenuine
  <2>8. IsPrefix(c.block_hash, u.tip_commit_hash.block_hash)
    BY <1>2, <2>1, <2>4, ReadBackSound
  <2> HIDE DEF f, key
  <2> QED
    BY <2>1, <2>4, <2>5, <2>6, <2>7, <2>8, AppendSound
<1>8. ASSUME NEW key \in DOMAIN fork_state, NEW c \in Candidate, ExtendFork(key, c)
      PROVE  SoundAt(r)
  <2> DEFINE f == fork_state[key]
             cs == f.block_commitments
             b == ForkBase(f)
  <2>1. c = f.tip_commit_hash /\ AppendToFork(key, f, m, c)
    BY <1>8 DEF ExtendFork, m
  <2>2. ForkOK(f, m)
    BY <1>1 DEF IndInv
  <2>3. main_state' # m /\ key \notin DOMAIN fork_state' =>
          IsPrefix(b, m.tip_commit_hash.block_hash)
    BY DEF MergesStaleFork, TipHash, m
  <2> HIDE DEF f
  <2>4. /\ f \in ForkState /\ f.start_height \in Nat
        /\ Len(cs) \in Nat /\ Len(cs) >= 1
        /\ IsBranch(b, f.start_height, cs)
        /\ f.start_height < m.start_height + PRUNING_FACTOR
        /\ c = Last(cs)
    BY <2>1, <2>2 DEF ForkOK, ForkState
  <2> HIDE DEF b
  <2>5. /\ c \in CommittedBlockHeader
        /\ IsGenuine(c)
        /\ c.blockheight = f.start_height + Len(cs)
    <3>1. Len(cs) \in 1 .. Len(cs) /\ c = cs[Len(cs)]
      BY <2>4 DEF Last
    <3>2. cs \in Seq(CommittedBlockHeader)
      BY <2>4 DEF IsBranch
    <3>3. cs[Len(cs)] \in CommittedBlockHeader
      BY <3>1, <3>2
    <3> QED
      BY <2>4, <3>1, <3>3 DEF IsBranch
  <2>6. b \in BlockHash
    BY <2>4, BaseType
  <2>7. CanAppend(f, b, m, c)
    BY <2>4, <2>5, <2>6 DEF CanAppend
  <2>8. f.start_height = InitHeight + Len(b)
    BY <2>4, BaseHeight
  <2> QED
    BY <1>1, <1>2, <2>1, <2>3, <2>7, <2>8, AppendSound
<1>9. ASSUME NEW key \in DOMAIN fork_state, CloseForkAccount(key) PROVE SoundAt(r)
  BY <1>2, <1>9 DEF CloseForkAccount, m
<1> QED
  BY <1>5, <1>6, <1>7, <1>8, <1>9 DEF Next

\* The window follows the ancestry of the tip through every step but the merge
\* of a fork whose base has left the main chain.
THEOREM OnlyStaleMergesHurt == Spec => SoundnessLostOnlyByStaleMerge
<1>1. IInv /\ Stuck /\ [Next]_vars =>
        [WindowIsSound /\ ~ MergesStaleFork => WindowIsSound']_vars
  <2> SUFFICES ASSUME IInv, Stuck, Next, ~ MergesStaleFork, WindowIsSound
               PROVE  WindowIsSound'
    OBVIOUS
  <2>1. main_state \in MainState /\ main_state.block_height >= PRUNING_FACTOR
    BY NotStuck DEF IInv, IndInv
  <2>2. SoundAt(main_state)
    <3>1. WindowAt(main_state) /\ FilledTo(main_state, main_state.block_height)
      BY DEF WindowIsSound, WindowIsAncestry, RoundIsFilled, Window, TipHash,
             WindowAt, FilledTo
    <3> QED
      BY <2>1, <3>1, SoundWindow
  <2>3. SoundAt(main_state')
    BY <2>2, StepSound
  <2>4. main_state' \in MainState /\ MainGenuine(main_state')
    BY NextInv DEF IInv, IndInv
  <2>5. main_state'.block_height >= PRUNING_FACTOR
    <3>1. InitHeight >= PRUNING_FACTOR
      BY NotStuck
    <3>2. main_state'.tip_commit_hash.block_hash \in Seq(Label)
      BY <2>4, BlockHashType DEF MainState, CommittedBlockHeader
    <3>3. Len(main_state'.tip_commit_hash.block_hash) \in Nat
      BY <3>2
    <3>4. main_state'.block_height =
            InitHeight + Len(main_state'.tip_commit_hash.block_hash)
      BY <2>4 DEF MainGenuine, IsGenuine
    <3> QED
      BY <3>1, <3>3, <3>4, InitHeightAssumption
  <2>6. WindowAt(main_state') /\ FilledTo(main_state', main_state'.block_height)
    BY <2>3, <2>4, <2>5, SoundWindow
  <2> QED
    BY <2>6 DEF WindowIsSound, WindowIsAncestry, RoundIsFilled, Window, TipHash,
                WindowAt, FilledTo
<1>2. Init => IInv /\ Stuck
  BY InitInv, InitStuck
<1>3. IInv /\ Stuck /\ [Next]_vars => IInv' /\ Stuck'
  BY NextInv, NextStuck
<1> QED
  BY <1>1, <1>2, <1>3, PTL DEF Spec, SoundnessLostOnlyByStaleMerge

\* As long as no stale fork is merged, every header that verify_transaction
\* accepts is on the chain that leads to the current tip.
THEOREM FreshRelayIsSound == FreshSpec => []AcceptedOnMainChain
<1>1. Init => SoundAt(main_state)
  <2> SUFFICES ASSUME Init PROVE SoundAt(main_state)
    OBVIOUS
  <2> DEFINE m == main_state
  <2>1. /\ m.start_height = InitHeight
        /\ m.block_height = InitHeight
        /\ m.tip_commit_hash = CheckpointHeader
        /\ m.block_commitments = [p \in 0 .. PRUNING_FACTOR - 1 |->
                                    IF p = 0 THEN CheckpointHeader ELSE NoCommitment]
    BY DEF Init
  <2>2. m \in MainState /\ MainGenuine(m) /\ CheckpointHeader \in CommittedBlockHeader
    BY <2>1, InitInv DEF IInv, IndInv, MainState
  <2>3. CheckpointHeader # NoCommitment /\ CheckpointHeader.blockheight = InitHeight
    BY <2>2, NoCommitmentAssumption DEF CheckpointHeader
  <2>4. FilledTo(m, m.block_height)
    BY <2>1, <2>3, InitHeightAssumption DEF FilledTo
  <2>5. CheckpointHeader.block_hash \in Seq(Label)
    BY <2>2, BlockHashType DEF CommittedBlockHeader
  <2> HIDE DEF m
  <2>6. ASSUME NEW k \in Nat, NEW d, Holds(m, k, d)
        PROVE  IsPrefix(d.block_hash, m.tip_commit_hash.block_hash)
    <3>1. GetPosition(m, k) \in 0 .. PRUNING_FACTOR - 1
      BY <2>2, <2>6, PositionType DEF Holds
    <3>2. d = CheckpointHeader
      BY <2>1, <2>6, <3>1 DEF Holds
    <3> QED
      BY <2>1, <2>5, <3>2, PrefixReflexive
  <2>7. SoundAt(m)
    BY <2>4, <2>6 DEF SoundAt
  <2> QED
    BY <2>7 DEF m
<1>2. IInv /\ SoundAt(main_state) /\ [Next /\ ~ MergesStaleFork]_vars =>
        IInv' /\ SoundAt(main_state)'
  <2> SUFFICES ASSUME IInv, SoundAt(main_state), [Next /\ ~ MergesStaleFork]_vars
               PROVE  IInv' /\ SoundAt(main_state')
    OBVIOUS
  <2>1. IInv'
    BY NextInv
  <2>2. CASE Next /\ ~ MergesStaleFork
    BY <2>1, <2>2, StepSound
  <2>3. CASE UNCHANGED vars
    BY <2>1, <2>3 DEF vars
  <2> QED
    BY <2>2, <2>3
<1>3. IInv /\ SoundAt(main_state) => AcceptedOnMainChain
  <2> SUFFICES ASSUME IInv, SoundAt(main_state),
                      NEW c \in Candidate, VerifyTransaction(c, 1)
               PROVE  IsPrefix(c.block_hash, TipHash)
    BY DEF AcceptedOnMainChain
  <2>1. main_state \in MainState /\ MainGenuine(main_state)
    BY DEF IInv, IndInv
  <2>2. c = GetCommitment(main_state, c.blockheight)
    BY DEF VerifyTransaction
  <2> QED
    BY <2>1, <2>2, ReadBackSound DEF TipHash
<1> QED
  BY <1>1, <1>2, <1>3, InitInv, PTL DEF FreshSpec

=============================================================================
