---------------------------- MODULE SwapOverRelay ----------------------------
(***************************************************************************)
(* The two programs on one Solana: escrows of the swap program that are    *)
(* claimed, or refunded by height, in transactions whose instruction 0 the *)
(* relay has really accepted.  Headers come in between transactions and    *)
(* within them, forks win, and the ring forgets.                           *)
(***************************************************************************)
EXTENDS BtcRelay, SwapAtomic

CONSTANT Included   \* the ids of the transactions of each block

VARIABLE begun      \* the relay when the transaction began: its tip, and
                    \* whether its window was sound

systemVars == <<vars, swapVars, begun>>

\* A block holds a transaction at most once on each chain, whose blocks are all
\* at hand: the proof of inclusion is the module Merkle's matter.
ASSUME IncludedAssumption ==
  /\ Included \in [BlockHash -> SUBSET Txid]
  /\ \A b, c \in BlockHash : IsStrictPrefix(b, c) => Included[b] \cap Included[c] = {}

-----------------------------------------------------------------------------
Compares(block_height, value, operation) ==
  \/ operation = 0 /\ block_height < value
  \/ operation = 1 /\ block_height <= value
  \/ operation = 2 /\ block_height > value
  \/ operation = 3 /\ block_height >= value
  \/ operation = 4 /\ block_height = value

\* The relay's instruction block_height.
BlockHeight(value, operation) == Compares(main_state.block_height, value, operation)

RelayAccepts(ix) ==
  IF ix.ix = "verify_transaction"
  THEN \E c \in Candidate :
         ix.txid \in Included[c.block_hash] /\ VerifyTransaction(c, ix.confirmations)
  ELSE BlockHeight(ix.value, ix.operation)

Seen == [tip |-> TipHash, sound |-> WindowIsSound]

SystemInit == Init /\ SwapInit /\ begun = Seen

\* Instructions of the relay that change it, first of a transaction or not.
RelayStep == Next /\ UNCHANGED <<swapVars, begun>>

\* Instructions of the swap program, and the beginning of a transaction, at
\* which the relay is asked.
SwapStep ==
  /\ SwapNext
  /\ IF ix0' = ix0 THEN UNCHANGED begun
     ELSE begun' = Seen /\ (ix0' \in RelayIx => RelayAccepts(ix0'))
  /\ UNCHANGED vars

SystemNext == RelayStep \/ SwapStep

SystemSpec == SystemInit /\ [][SystemNext]_systemVars

-----------------------------------------------------------------------------
(* Properties.                                                             *)

\* Number of confirmations of a transaction on the chain that ends in tip.
Confirmations(txid, tip) ==
  LET blocks == {b \in BlockHash : IsPrefix(b, tip) /\ txid \in Included[b]}
  IN  IF blocks = {} THEN 0 ELSE Len(tip) - Len(CHOOSE b \in blocks : TRUE) + 1

PaidOn(tip, d) ==
  \E tx \in Tx : Pays(tx, d) /\ Confirmations(tx.txid, tip) >= d.confirmations
                             /\ Confirmations(tx.txid, tip) > 0

Expired(e, block_height) ==
  e.data.expiry < IF e.data.expiry < BLOCKHEIGHT_EXPIRY_THRESHOLD THEN block_height ELSE now

Receives(o, amount) == Funds' = [Funds EXCEPT ![o] = @ + amount]

\* A swap for bitcoin is settled by what Bitcoin says when the transaction
\* begins: for the claimer if a payment has its confirmations on the main chain,
\* and for the offerer, unless the claimer consents, if the clock or the main
\* chain is past the expiry; in full, and nothing else changes hands.  This is
\* so although the check is another program's, on headers the caller brings,
\* whatever instructions lie between it and the settlement; but not after a
\* stale fork was merged (claim.rs:135-140).
SettledByBitcoin ==
  [][\A h \in DOMAIN escrow_state \ DOMAIN escrow_state' :
       LET e == escrow_state[h] IN
         begun.sound /\ e.data.kind # "Htlc" =>
           \/ Receives(Deal(e).payee, e.data.amount) /\ PaidOn(begun.tip, e.data)
           \/ Receives(Deal(e).payer, e.data.amount)
              /\ (Expired(e, InitHeight + Len(begun.tip)) \/ Consented(e))]_systemVars

\* A paid swap can be claimed: the relay accepts the payment from its last
\* confirmation until the ring forgets its block.  A swap may ask for no more
\* confirmations than that (MAX_CONFIRMATIONS, lib.rs:41, is below the capacity),
\* so that the claimer has PRUNING_FACTOR - confirmations + 1 blocks to claim.
\* This is for a ring that no merge of a stale fork has spoilt, and for headers
\* of one difficulty, with which chains get heavier only by getting higher.
ClaimWindowOpen ==
  WindowIsSound /\ main_state.block_height >= PRUNING_FACTOR =>
    \A h \in DOMAIN escrow_state, tx \in Tx :
      LET d == escrow_state[h].data
          n == Confirmations(tx.txid, TipHash)
      IN  Pays(tx, d) /\ n \in Max({1, d.confirmations}) .. PRUNING_FACTOR
          => RelayAccepts(VerifyTransactionIx(tx.txid, d.confirmations))

\* Every swap that can be opened has such blocks at all.
ASSUME ConfirmationsAssumption == MAX_CONFIRMATIONS < PRUNING_FACTOR
=============================================================================
