---------------------------- MODULE MCSwapProgram ----------------------------
(***************************************************************************)
(* Small instances of SwapProgram.                                         *)
(***************************************************************************)
EXTENDS SwapAtomic, TLC

CONSTANTS a, b, s, t1, t2, o1, o2

\* One transaction with a nonce, and one whose inputs disagree.
MCTx == {[txid |-> t1, nonce |-> 1, outputs |-> {o1}],
         [txid |-> t2, nonce |-> None, outputs |-> {o1, o2}]}

SwapOf(sequence, kind, hash, nonce, pay_in, pay_out, amount, expiry) ==
  [kind |-> kind, confirmations |-> IF kind = "Htlc" THEN 0 ELSE 1, nonce |-> nonce,
   hash |-> hash, pay_in |-> pay_in, pay_out |-> pay_out, amount |-> amount,
   expiry |-> expiry, sequence |-> sequence]

\* Expiries below the threshold of 10 are heights.
Lightning    == SwapOf(1, "Htlc", Sha256(s), 0, FALSE, FALSE, 1, 10)
LightningOut == SwapOf(2, "Htlc", Sha256(s), 0, FALSE, TRUE, 2, 1)
Chain        == SwapOf(3, "Chain", Sha256(<<0, o1>>), 0, TRUE, TRUE, 1, 1)
ChainNonced  == SwapOf(4, "ChainNonced", Sha256(<<1, o1>>), 1, TRUE, FALSE, 1, 10)
ChainTxhash  == SwapOf(5, "ChainTxhash", t1, 0, FALSE, TRUE, 1, 1)

AllKinds == {LightningOut, Chain, ChainNonced, ChainTxhash}
SameHash == {Lightning, LightningOut}
OnlyLightning == {Lightning}
WithChain == SameHash \cup {Chain}

TwoParties == {<<a, b>>}
SelfSwaps == {<<a, a>>}
AnyParties == TwoParties \cup SelfSwaps

\* Checks of the relay: for the swaps, and others that must not do for them.
HeightPassed == {BlockHeightIx(1, 2)}
Confirming == HeightPassed \cup {VerifyTransactionIx(t1, 1)}
Misleading == Confirming \cup {VerifyTransactionIx(t1, 0), VerifyTransactionIx(t2, 1),
                               BlockHeightIx(1, 3), BlockHeightIx(0, 2)}

NoTx == {}
OneTx == {tx \in MCTx : tx.txid = t1}
=============================================================================
