----------------------------- MODULE SwapAtomic -----------------------------
(***************************************************************************)
(* The swap program as an atomic swap, for swaps between two wallets.      *)
(* What proves a payment and what makes a refund due is stated here from   *)
(* the outside.                                                            *)
(***************************************************************************)
EXTENDS SwapProgram

Confirmed(txid, confirmations) ==
  /\ ix0 \in {ix \in RelayIx : ix.ix = "verify_transaction"}
  /\ ix0.txid = txid /\ ix0.confirmations >= confirmations

\* The relay's check of its height lets only larger heights through.
HeightAbove(height) ==
  /\ ix0 \in {ix \in RelayIx : ix.ix = "block_height"}
  /\ \/ ix0.operation = 2 /\ ix0.value >= height
     \/ ix0.operation \in {3, 4} /\ ix0.value > height

\* The transactions that pay a swap: by their id, or with an output.
Pays(tx, d) ==
  \/ d.kind = "ChainTxhash" /\ d.hash = tx.txid
  \/ d.kind \in {"Chain", "ChainNonced"}
     /\ \E output \in tx.outputs : d.hash = Sha256(<<d.nonce, output>>)
     /\ d.kind = "ChainNonced" => d.nonce = tx.nonce

\* The preimage exists, or a confirmed transaction pays the swap.
Paid(d) ==
  IF d.kind = "Htlc" THEN \E x \in Secret : d.hash = Sha256(x)
  ELSE \E tx \in Tx : Pays(tx, d) /\ Confirmed(tx.txid, d.confirmations)

\* The claimer has signed this swap away, by a message that is still good.
Consented(e) ==
  \E sig \in signed :
    /\ sig[1] = e.claimer /\ sig[2].auth_expiry > now
    /\ <<sig[2].hash, sig[2].amount, sig[2].expiry, sig[2].sequence>>
       = <<e.data.hash, e.data.amount, e.data.expiry, e.data.sequence>>

\* The expiry has passed, or the claimer consents.
Due(e) ==
  \/ IF e.data.expiry >= BLOCKHEIGHT_EXPIRY_THRESHOLD THEN e.data.expiry < now
     ELSE HeightAbove(e.data.expiry)
  \/ Consented(e)

Deal(e) ==
  [payer  |-> OffererAccount(e),
   payee  |-> <<IF e.data.pay_out THEN e.claimer_ata ELSE e.claimer, e.mint>>,
   amount |-> e.data.amount]

\* Tokens that the program has paid to its own vault are out of reach.
Funds ==
  [o \in TokenAccount |-> IF o[1] = VaultAuthority THEN Slack(o[2]) ELSE ata[o] + UserData(o).amount]
Deals == [h \in DOMAIN escrow_state |-> Deal(escrow_state[h])]
Payable == {h \in DOMAIN escrow_state : Paid(escrow_state[h].data)}
Refundable == {h \in DOMAIN escrow_state : Due(escrow_state[h])}

Abstract ==
  INSTANCE AtomicSwap WITH
    Account <- TokenAccount, Dead <- {VaultAuthority} \X Mint, Id <- Hash, Start <- InitialTokens,
    funds <- Funds, deal <- Deals, payable <- Payable, refundable <- Refundable

\* Every escrow settles in one step, in full, once: with a proof of payment to
\* the claimer, or to the token account that the escrow names, which may be the
\* vault itself, and when a refund is due to the offerer: claim.rs, refund.rs
\* and the transfers of lib.rs together.  Not that a claim is in time: claim.rs
\* never looks at the expiry, although swaps/README.md:20 wants the secret "in
\* under locktime T".  Nor that a consent is to one escrow: refund.rs:63 compares
\* the sequence with that of the escrow only, so that the message also closes one
\* reopened with the same terms, although by structs.rs:27 the sequence "Uniquely
\* identifies this swap PDA".
ImplementsAtomicSwap == Abstract!Spec
=============================================================================
