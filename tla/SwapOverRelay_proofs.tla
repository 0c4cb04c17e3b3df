------------------------- MODULE SwapOverRelay_proofs -------------------------
(***************************************************************************)
(* The two programs together: what the relay's invariants and the swap     *)
(* program's say, joined by what a transaction carries over from its first *)
(* instruction to the one that settles.                                    *)
(***************************************************************************)
EXTENDS SwapOverRelay, RelayChain_proofs, SwapAtomic_proofs

-----------------------------------------------------------------------------
(***************************************************************************)
(* Confirmations.                                                          *)
(***************************************************************************)

\* A chain holds a transaction in one block at most.
LEMMA OneBlock ==
  ASSUME NEW tip \in BlockHash, NEW b \in BlockHash, NEW c \in BlockHash, NEW txid,
         IsPrefix(b, tip), IsPrefix(c, tip), txid \in Included[b], txid \in Included[c]
  PROVE  b = c
<1>1. b \in Seq(Label) /\ c \in Seq(Label) /\ tip \in Seq(Label)
  BY BlockHashType
<1>2. Len(b) \in Nat /\ Len(c) \in Nat
  BY <1>1
<1>3. IsPrefix(b, c) \/ IsPrefix(c, b)
  BY <1>1, <1>2, PrefixOfPrefix
<1> QED
  BY <1>3, IncludedAssumption DEF IsStrictPrefix

LEMMA ConfirmationsCount ==
  ASSUME NEW tip \in BlockHash, NEW b \in BlockHash, NEW txid,
         IsPrefix(b, tip), txid \in Included[b]
  PROVE  Confirmations(txid, tip) = Len(tip) - Len(b) + 1
<1> DEFINE blocks == {c \in BlockHash : IsPrefix(c, tip) /\ txid \in Included[c]}
<1>1. b \in blocks
  OBVIOUS
<1>2. \A c \in blocks : c = b
  BY OneBlock
<1>3. Confirmations(txid, tip)
      = IF blocks = {} THEN 0 ELSE Len(tip) - Len(CHOOSE c \in blocks : TRUE) + 1
  BY DEF Confirmations
<1> HIDE DEF blocks
<1>4. (CHOOSE c \in blocks : TRUE) = b
  BY <1>1, <1>2
<1> QED
  BY <1>1, <1>3, <1>4

\* A transaction with confirmations is in a block of the chain.
LEMMA ConfirmedBlock ==
  ASSUME NEW tip \in BlockHash, NEW txid, Confirmations(txid, tip) > 0
  PROVE  \E b \in BlockHash : IsPrefix(b, tip) /\ txid \in Included[b]
<1>1. ~ 0 > 0
  OBVIOUS
<1> QED
  BY <1>1 DEF Confirmations

-----------------------------------------------------------------------------
(***************************************************************************)
(* What the relay has accepted as instruction 0 of a transaction stays     *)
(* true of the relay as the transaction met it.                            *)
(***************************************************************************)

Says(ix, seen) ==
  IF ix.ix = "verify_transaction"
  THEN seen.sound => /\ Confirmations(ix.txid, seen.tip) >= ix.confirmations
                     /\ Confirmations(ix.txid, seen.tip) > 0
  ELSE Compares(InitHeight + Len(seen.tip), ix.value, ix.operation)

RelayChecked == begun.tip \in BlockHash /\ (ix0 \in RelayIx => Says(ix0, begun))

LEMMA TipFields ==
  ASSUME IInv
  PROVE  /\ TipHash \in BlockHash /\ Len(TipHash) \in Nat
         /\ main_state.block_height = InitHeight + Len(TipHash)
         /\ main_state \in MainState /\ MainGenuine(main_state)
<1>1. main_state \in MainState /\ MainGenuine(main_state)
  BY DEF IInv, IndInv
<1>2. TipHash \in BlockHash
  BY <1>1 DEF TipHash, MainState, CommittedBlockHeader
<1>3. Len(TipHash) \in Nat
  BY <1>2, BlockHashType
<1> QED
  BY <1>1, <1>2, <1>3 DEF TipHash, MainGenuine, IsGenuine

LEMMA AcceptedIsOnChain ==
  ASSUME IInv, WindowIsSound, NEW c \in Candidate, NEW n, VerifyTransaction(c, n)
  PROVE  /\ c.block_hash \in BlockHash /\ IsPrefix(c.block_hash, TipHash)
         /\ Len(TipHash) - Len(c.block_hash) + 1 >= n
<1> DEFINE m == main_state
           h == c.blockheight
<1>1. /\ m \in MainState /\ MainGenuine(m)
      /\ m.block_height = InitHeight + Len(TipHash) /\ Len(TipHash) \in Nat
  BY TipFields
<1>2. /\ c = GetCommitment(m, h) /\ m.block_height - h + 1 >= n
      /\ c \in CommittedBlockHeader /\ h \in Nat /\ c # NoCommitment
      /\ c.block_hash \in BlockHash
  BY InputAssumption, NoCommitmentAssumption DEF VerifyTransaction, CommittedBlockHeader
<1> HIDE DEF m, h
<1>3. /\ IsGenuine(c) /\ h <= m.block_height /\ h > m.block_height - PRUNING_FACTOR
  BY <1>1, <1>2, ReadBack
<1>4. h \in m.block_height - PRUNING_FACTOR + 1 .. m.block_height
  BY <1>1, <1>2, <1>3, InitHeightAssumption, PruningAssumption
<1>5. IsPrefix(c.block_hash, TipHash)
  BY <1>2, <1>4 DEF WindowIsSound, WindowIsAncestry, Window, m, h
<1>6. h = InitHeight + Len(c.block_hash) /\ Len(c.block_hash) \in Nat
  BY <1>2, <1>3, BlockHashType DEF IsGenuine, h
<1>7. m.block_height - h = Len(TipHash) - Len(c.block_hash)
  BY <1>1, <1>6, InitHeightAssumption
<1> QED
  BY <1>2, <1>5, <1>7

\* At the beginning of a transaction.
LEMMA AcceptedIsSaid ==
  ASSUME IInv, NEW ix, RelayAccepts(ix)
  PROVE  Says(ix, Seen)
<1>1. Seen.tip = TipHash /\ Seen.sound = WindowIsSound
  BY DEF Seen
<1>2. TipHash \in BlockHash /\ Len(TipHash) \in Nat
  BY TipFields
<1>3. CASE ix.ix = "verify_transaction"
  <2> SUFFICES ASSUME WindowIsSound
               PROVE  /\ Confirmations(ix.txid, TipHash) >= ix.confirmations
                      /\ Confirmations(ix.txid, TipHash) > 0
    BY <1>1, <1>3 DEF Says
  <2>1. PICK c \in Candidate :
          ix.txid \in Included[c.block_hash] /\ VerifyTransaction(c, ix.confirmations)
    BY <1>3 DEF RelayAccepts
  <2> DEFINE b == c.block_hash
  <2>2. /\ b \in BlockHash /\ IsPrefix(b, TipHash)
        /\ Len(TipHash) - Len(b) + 1 >= ix.confirmations
    BY <2>1, AcceptedIsOnChain
  <2> HIDE DEF b
  <2>3. Confirmations(ix.txid, TipHash) = Len(TipHash) - Len(b) + 1
    BY <1>2, <2>1, <2>2, ConfirmationsCount DEF b
  <2>4. Len(b) <= Len(TipHash) /\ Len(b) \in Nat
    <3>1. b \in Seq(Label) /\ TipHash \in Seq(Label)
      BY <1>2, <2>2, BlockHashType
    <3> QED
      BY <2>2, <3>1, PrefixPointwise
  <2> QED
    BY <1>2, <2>2, <2>3, <2>4
<1>4. CASE ix.ix # "verify_transaction"
  BY <1>1, <1>4, TipFields DEF RelayAccepts, BlockHeight, Says
<1> QED
  BY <1>3, <1>4

LEMMA CheckedStep ==
  IInv /\ RelayChecked /\ [SystemNext]_systemVars => RelayChecked'
<1> SUFFICES ASSUME IInv, RelayChecked, [SystemNext]_systemVars PROVE RelayChecked'
  OBVIOUS
<1>1. CASE UNCHANGED <<ix0, begun>>
  BY <1>1 DEF RelayChecked
<1>2. CASE begun' = Seen /\ (ix0' \in RelayIx => RelayAccepts(ix0'))
  <2>1. Seen.tip \in BlockHash
    BY TipFields DEF Seen
  <2>2. ix0' \in RelayIx => Says(ix0', begun')
    BY <1>2, AcceptedIsSaid
  <2> QED
    BY <1>2, <2>1, <2>2 DEF RelayChecked
<1>3. UNCHANGED <<ix0, begun>> \/ (begun' = Seen /\ (ix0' \in RelayIx => RelayAccepts(ix0')))
  BY DEF SystemNext, RelayStep, SwapStep, systemVars, swapVars
<1> QED
  BY <1>1, <1>2, <1>3

-----------------------------------------------------------------------------
(***************************************************************************)
(* The behaviours of the system, seen from each of the two programs.       *)
(***************************************************************************)

LEMMA RelayInSystem == SystemSpec => Spec
<1>1. SystemInit => Init
  BY DEF SystemInit
<1>2. [SystemNext]_systemVars => [Next]_vars
  BY DEF SystemNext, RelayStep, SwapStep, systemVars, vars
<1> QED
  BY <1>1, <1>2, PTL DEF SystemSpec, Spec

LEMMA SwapInSystem == SystemSpec => SwapSpec
<1>1. SystemInit => SwapInit
  BY DEF SystemInit
<1>2. [SystemNext]_systemVars => [SwapNext]_swapVars
  BY DEF SystemNext, RelayStep, SwapStep, systemVars, swapVars
<1> QED
  BY <1>1, <1>2, PTL DEF SystemSpec, SwapSpec

LEMMA SystemHolds == SystemSpec => [](IInv /\ Atomic /\ RelayChecked)
<1>1. SystemInit /\ IInv => RelayChecked
  <2> SUFFICES ASSUME SystemInit, IInv PROVE RelayChecked
    OBVIOUS
  <2>1. ix0 \notin RelayIx
    BY RelayInstructions DEF SystemInit, SwapInit, OtherIx
  <2>2. begun.tip \in BlockHash
    BY TipFields DEF SystemInit, Seen
  <2> QED
    BY <2>1, <2>2 DEF RelayChecked
<1> QED
  BY <1>1, RelayInSystem, SwapInSystem, InductiveInvariant, AtomicHolds, CheckedStep, PTL
     DEF SystemSpec

-----------------------------------------------------------------------------
(***************************************************************************)
(* Settlements.                                                            *)
(***************************************************************************)

\* An escrow goes only by its own refund or claim.
LEMMA ClosedBySettlement ==
  ASSUME [SwapNext]_swapVars, NEW h \in DOMAIN escrow_state, h \notin DOMAIN escrow_state'
  PROVE  RefundOf(h) \/ ClaimOf(h)
<1>1. ASSUME InitializeAny PROVE h \in DOMAIN escrow_state'
  BY <1>1, AnyInitializeOpens DEF OpensEscrow, With
<1>2. ASSUME NEW k, RefundOf(k) \/ ClaimOf(k) PROVE escrow_state' = Without(escrow_state, k)
  BY <1>2 DEF RefundOf, OffererRefund, OffererRefundPayIn,
     ClaimOf, ClaimerClaim, ClaimerClaimPayOut
<1>3. CASE \E k \in DOMAIN escrow_state : RefundOf(k) \/ ClaimOf(k)
  <2>1. PICK k \in DOMAIN escrow_state : RefundOf(k) \/ ClaimOf(k)
    BY <1>3
  <2>2. k = h
    BY <1>2, <2>1 DEF Without, Restrict
  <2> QED
    BY <2>1, <2>2
<1>4. CASE ~ \E k \in DOMAIN escrow_state : RefundOf(k) \/ ClaimOf(k)
  <2>1. UNCHANGED escrow_state
    BY <1>1, <1>4 DEF SwapNext, swapVars, Deposit, Withdraw, DataNext, CreateData, InitData, WriteData,
       CloseData, Tick, BeginAny, BeginTransaction, SignRefund, Donate
  <2> QED
    BY <2>1
<1> QED
  BY <1>3, <1>4

\* What a settlement is told by the relay, through instruction 0.
LEMMA PaidIsPaidOn ==
  ASSUME RelayChecked, begun.sound, NEW d \in Swap, d.kind # "Htlc", Paid(d)
  PROVE  PaidOn(begun.tip, d)
<1>1. PICK tx \in Tx : Pays(tx, d) /\ Confirmed(tx.txid, d.confirmations)
  BY DEF Paid
<1> DEFINE n == Confirmations(tx.txid, begun.tip)
<1>2. /\ ix0 \in RelayIx /\ ix0.ix = "verify_transaction"
      /\ ix0.txid = tx.txid /\ ix0.confirmations >= d.confirmations
  BY <1>1 DEF Confirmed
<1>3. n >= ix0.confirmations /\ n > 0
  BY <1>2 DEF RelayChecked, Says
<1>4. ix0.confirmations \in Nat /\ d.confirmations \in Nat
  BY <1>2, RelayInstructions, SwapData
<1>5. n \in Int
  <2>1. PICK b \in BlockHash : IsPrefix(b, begun.tip) /\ tx.txid \in Included[b]
    BY <1>3, ConfirmedBlock DEF RelayChecked
  <2>2. n = Len(begun.tip) - Len(b) + 1
    BY <2>1, ConfirmationsCount DEF RelayChecked
  <2>3. Len(begun.tip) \in Nat /\ Len(b) \in Nat
    BY BlockHashType DEF RelayChecked
  <2> HIDE DEF n
  <2> QED
    BY <2>2, <2>3
<1>6. n >= d.confirmations
  BY <1>2, <1>3, <1>4, <1>5
<1> QED
  BY <1>1, <1>3, <1>6 DEF PaidOn

\* The relay's check of its height lets only larger heights through.
LEMMA HeightIsAbove ==
  ASSUME RelayChecked, NEW height \in Nat, HeightAbove(height)
  PROVE  InitHeight + Len(begun.tip) > height
<1> DEFINE tip_height == InitHeight + Len(begun.tip)
<1>1. tip_height \in Nat
  <2>1. Len(begun.tip) \in Nat
    BY BlockHashType DEF RelayChecked
  <2> QED
    BY <2>1, InitHeightAssumption
<1>2. /\ ix0 \in RelayIx /\ ix0.ix = "block_height"
      /\ \/ ix0.operation = 2 /\ ix0.value >= height
         \/ ix0.operation \in {3, 4} /\ ix0.value > height
  BY DEF HeightAbove
<1>3. ix0.value \in Nat
  BY <1>2, RelayInstructions
<1>4. Compares(tip_height, ix0.value, ix0.operation)
  BY <1>2 DEF RelayChecked, Says
<1> HIDE DEF tip_height
<1>5. tip_height > height
  BY <1>1, <1>2, <1>3, <1>4 DEF Compares
<1> QED
  BY <1>5 DEF tip_height

LEMMA DueIsExpired ==
  ASSUME Base, RelayChecked, NEW h \in DOMAIN escrow_state, Due(escrow_state[h])
  PROVE  LET e == escrow_state[h]
         IN  Expired(e, InitHeight + Len(begun.tip)) \/ Consented(e)
<1> DEFINE e == escrow_state[h]
<1>1. e.data.expiry \in Nat /\ BLOCKHEIGHT_EXPIRY_THRESHOLD \in Nat
  BY EscrowFields, SwapData, Arguments DEF Base
<1>2. Len(begun.tip) \in Nat /\ now \in Nat
  BY BlockHashType, Arguments DEF RelayChecked, Base, OutsideTyped
<1>3. CASE e.data.expiry >= BLOCKHEIGHT_EXPIRY_THRESHOLD
  BY <1>1, <1>2, <1>3 DEF Due, Expired
<1>4. CASE ~ (e.data.expiry >= BLOCKHEIGHT_EXPIRY_THRESHOLD)
  <2>1. HeightAbove(e.data.expiry) => InitHeight + Len(begun.tip) > e.data.expiry
    BY <1>1, HeightIsAbove
  <2>2. HeightAbove(e.data.expiry) \/ Consented(e)
    BY <1>4 DEF Due
  <2> HIDE DEF e
  <2> QED
    BY <1>1, <1>2, <1>4, <2>1, <2>2, InitHeightAssumption DEF Expired, e
<1> QED
  BY <1>3, <1>4

\* The two ways an escrow of a swap for bitcoin goes.
LEMMA SettledStep ==
  ASSUME \A party \in Party : party[1] # party[2],
         Atomic, RelayChecked, [SwapNext]_swapVars, begun.sound,
         NEW h \in DOMAIN escrow_state, h \notin DOMAIN escrow_state',
         escrow_state[h].data.kind # "Htlc"
  PROVE  LET e == escrow_state[h]
         IN  \/ Receives(Deal(e).payee, e.data.amount) /\ PaidOn(begun.tip, e.data)
             \/ Receives(Deal(e).payer, e.data.amount)
                /\ (Expired(e, InitHeight + Len(begun.tip)) \/ Consented(e))
<1> DEFINE e == escrow_state[h]
<1>1. Solvent /\ Base /\ Base' /\ PaidInByOfferer /\ ClaimersSigned
  BY BaseStep DEF Atomic, Solvent
<1>2. e.data \in Swap /\ Deals[h] = Deal(e)
  BY <1>1, EscrowFields DEF Base, Deals
<1>3. ASSUME NEW o, Settles(h, o) PROVE Receives(o, e.data.amount)
  BY <1>3 DEF Settles, Receives
<1>4. CASE ClaimOf(h)
  <2>1. PICK signer \in Wallet, secret \in Witness, account \in DataAccount \cup {None} :
          \/ ClaimerClaim(signer, h, secret, account)
          \/ ClaimerClaimPayOut(signer, h, secret, account)
    BY <1>4 DEF ClaimOf
  <2>2. h \in Payable /\ Settles(h, Deals[h].payee)
    BY <1>1, <2>1, ClaimSettles
  <2>3. PaidOn(begun.tip, e.data)
    BY <1>2, <2>2, PaidIsPaidOn DEF Payable
  <2> QED
    BY <1>2, <1>3, <2>2, <2>3
<1>5. CASE RefundOf(h)
  <2>1. PICK auth_expiry \in {0} \cup Timestamp, claimer_passed \in BOOLEAN :
          \/ OffererRefund(h, auth_expiry, claimer_passed)
          \/ OffererRefundPayIn(h, auth_expiry, claimer_passed)
    BY <1>5 DEF RefundOf
  <2>2. e.offerer # e.claimer
    <3>1. <<e.offerer, e.claimer>> \in Party
      BY <1>1 DEF Base, EscrowsTyped
    <3> QED
      BY <3>1
  <2>3. h \in Refundable /\ Settles(h, Deals[h].payer)
    BY <1>1, <2>1, <2>2, RefundSettles
  <2>4. Expired(e, InitHeight + Len(begun.tip)) \/ Consented(e)
    BY <1>1, <2>3, DueIsExpired DEF Refundable
  <2> QED
    BY <1>2, <1>3, <2>3, <2>4
<1> QED
  BY <1>4, <1>5, ClosedBySettlement

\* When no wallet swaps with itself, every swap for bitcoin is settled by what
\* the Bitcoin chain of the relay says when the transaction begins, unless a
\* stale fork was merged before.
THEOREM BitcoinSettlesSwaps ==
  ASSUME \A party \in Party : party[1] # party[2]
  PROVE  SystemSpec => SettledByBitcoin
<1> DEFINE Settlement ==
      \A h \in DOMAIN escrow_state \ DOMAIN escrow_state' :
        LET e == escrow_state[h] IN
          begun.sound /\ e.data.kind # "Htlc" =>
            \/ Receives(Deal(e).payee, e.data.amount) /\ PaidOn(begun.tip, e.data)
            \/ Receives(Deal(e).payer, e.data.amount)
               /\ (Expired(e, InitHeight + Len(begun.tip)) \/ Consented(e))
<1>1. Atomic /\ RelayChecked /\ [SystemNext]_systemVars => Settlement
  <2> SUFFICES ASSUME Atomic, RelayChecked, [SystemNext]_systemVars PROVE Settlement
    OBVIOUS
  <2>1. [SwapNext]_swapVars
    BY DEF SystemNext, RelayStep, SwapStep, systemVars, swapVars
  <2> QED
    BY <2>1, SettledStep
<1> HIDE DEF Settlement
<1>2. Atomic /\ RelayChecked /\ [SystemNext]_systemVars => [Settlement]_systemVars
  BY <1>1
<1>3. SystemSpec => [][Settlement]_systemVars
  BY <1>2, SystemHolds, PTL DEF SystemSpec
<1> QED
  BY <1>3 DEF SettledByBitcoin, Settlement

-----------------------------------------------------------------------------
(***************************************************************************)
(* The other direction: the relay accepts what Bitcoin has confirmed.      *)
(***************************************************************************)

\* Callers can pass every header that is on the chain.
CallersKnowTheChain == \A c \in CommittedBlockHeader : IsGenuine(c) => c \in Candidate

\* What a complete and sound window has for the height of a block of the chain
\* is the header of that block.
LEMMA WindowHasBlock ==
  ASSUME IInv, WindowComplete, WindowIsSound, main_state.block_height >= PRUNING_FACTOR,
         NEW b \in BlockHash, IsPrefix(b, TipHash), Len(TipHash) - Len(b) < PRUNING_FACTOR
  PROVE  LET c == GetCommitment(main_state, InitHeight + Len(b))
         IN  /\ c \in CommittedBlockHeader /\ IsGenuine(c) /\ c.block_hash = b
             /\ c.blockheight = InitHeight + Len(b)
<1> DEFINE m == main_state
           k == InitHeight + Len(b)
           c == GetCommitment(m, k)
<1>1. /\ m \in MainState /\ MainGenuine(m) /\ TipHash \in BlockHash
      /\ m.block_height = InitHeight + Len(TipHash) /\ Len(TipHash) \in Nat
  BY TipFields
<1>2. b \in Seq(Label) /\ TipHash \in Seq(Label)
  BY <1>1, BlockHashType
<1>3. Len(b) \in Nat /\ Len(b) <= Len(TipHash)
  BY <1>2, PrefixPointwise
<1>4. k \in Nat /\ k >= InitHeight /\ k \in m.block_height - PRUNING_FACTOR + 1 .. m.block_height
  BY <1>1, <1>3, InitHeightAssumption, PruningAssumption
<1>5. c # NoCommitment /\ c.blockheight = k
  BY <1>4 DEF WindowComplete, Window
<1>6. IsPrefix(c.block_hash, TipHash)
  BY <1>4, <1>5 DEF WindowIsSound, WindowIsAncestry, Window
<1> HIDE DEF m, k
<1>7. GetPosition(m, k) # PRUNING_FACTOR /\ c = m.block_commitments[GetPosition(m, k)]
  BY <1>5 DEF GetCommitment
<1>8. GetPosition(m, k) \in 0 .. PRUNING_FACTOR - 1
  BY <1>1, <1>4, <1>7, PositionType, PruningAssumption
<1>9. c \in CommittedBlockHeader /\ IsGenuine(c)
  BY <1>1, <1>5, <1>7, <1>8 DEF MainState, MainGenuine, Commitment
<1> HIDE DEF c
<1>10. c.block_hash \in Seq(Label) /\ Len(c.block_hash) \in Nat
  BY <1>9, BlockHashType DEF CommittedBlockHeader
<1>11. Len(c.block_hash) = Len(b)
  BY <1>3, <1>5, <1>9, <1>10, InitHeightAssumption DEF IsGenuine, k
<1>12. IsPrefix(c.block_hash, b)
  BY <1>2, <1>3, <1>6, <1>10, <1>11, PrefixOfPrefix
<1>13. c.block_hash = b
  BY <1>2, <1>10, <1>11, <1>12, PrefixPointwise
<1> QED
  BY <1>5, <1>9, <1>13 DEF c, k, m

\* A payment that has its confirmations on the main chain, and not more than
\* the ring holds, lets the claimer claim.  This is so where a heavier chain is
\* a longer one (a window of one difficulty).
THEOREM PaidSwapsCanBeClaimed ==
  ASSUME HeavierIsLonger, CallersKnowTheChain
  PROVE  SystemSpec => []ClaimWindowOpen
<1>1. IInv /\ Base /\ WindowComplete => ClaimWindowOpen
  <2> SUFFICES ASSUME IInv, Base, WindowComplete,
                      WindowIsSound, main_state.block_height >= PRUNING_FACTOR,
                      NEW h \in DOMAIN escrow_state, NEW tx \in Tx,
                      Confirmations(tx.txid, TipHash)
                        \in Max({1, escrow_state[h].data.confirmations}) .. PRUNING_FACTOR
               PROVE  RelayAccepts(VerifyTransactionIx(tx.txid, escrow_state[h].data.confirmations))
    BY DEF ClaimWindowOpen
  <2> DEFINE confirmations == escrow_state[h].data.confirmations
             n == Confirmations(tx.txid, TipHash)
             ix == VerifyTransactionIx(tx.txid, confirmations)
  <2>1. confirmations \in Nat
    BY EscrowFields, SwapData DEF Base
  <2>2. Max({1, confirmations}) \in Int /\ Max({1, confirmations}) >= 1
        /\ Max({1, confirmations}) >= confirmations
    BY <2>1 DEF Max
  <2>3. n \in Int /\ n > 0 /\ n >= confirmations /\ n <= PRUNING_FACTOR
    <3> HIDE DEF confirmations
    <3> QED
      BY <2>1, <2>2, PruningAssumption DEF confirmations
  <2>4. TipHash \in BlockHash /\ Len(TipHash) \in Nat
        /\ main_state.block_height = InitHeight + Len(TipHash)
    BY TipFields
  <2>5. PICK b \in BlockHash : IsPrefix(b, TipHash) /\ tx.txid \in Included[b]
    BY <2>3, <2>4, ConfirmedBlock
  <2>6. n = Len(TipHash) - Len(b) + 1 /\ Len(b) \in Nat
    BY <2>4, <2>5, ConfirmationsCount, BlockHashType
  <2> DEFINE c == GetCommitment(main_state, InitHeight + Len(b))
  <2> HIDE DEF n, confirmations
  <2>7. Len(TipHash) - Len(b) < PRUNING_FACTOR
    BY <2>3, <2>4, <2>6, PruningAssumption
  <2>8. /\ c \in CommittedBlockHeader /\ IsGenuine(c) /\ c.block_hash = b
        /\ c.blockheight = InitHeight + Len(b)
    BY <2>5, <2>7, WindowHasBlock
  <2>9. c = GetCommitment(main_state, c.blockheight)
    BY <2>8
  <2> HIDE DEF c
  <2>10. VerifyTransaction(c, confirmations)
    BY <2>1, <2>3, <2>4, <2>6, <2>8, <2>9, InitHeightAssumption DEF VerifyTransaction
  <2>11. c \in Candidate /\ tx.txid \in Included[c.block_hash]
    BY <2>5, <2>8 DEF CallersKnowTheChain
  <2>12. ix.ix = "verify_transaction" /\ ix.txid = tx.txid /\ ix.confirmations = confirmations
    BY DEF VerifyTransactionIx
  <2> HIDE DEF ix
  <2>13. RelayAccepts(ix)
    BY <2>10, <2>11, <2>12 DEF RelayAccepts
  <2> QED
    BY <2>13 DEF ix, confirmations
<1>2. Solvent => Base
  BY DEF Solvent
<1>3. Spec => []WindowComplete
  BY WindowStaysComplete
<1> QED
  BY <1>1, <1>2, <1>3, RelayInSystem, SystemHolds, PTL DEF Atomic
=============================================================================
