--------------------------- MODULE MCSwapOverRelay ---------------------------
(***************************************************************************)
(* A small instance of SwapOverRelay: one payment, in a block of one fork  *)
(* and later in a block of the other, for one of two swaps, by its output  *)
(* or by its id, that ask for one and two confirmations.                   *)
(***************************************************************************)
EXTENDS SwapOverRelay, MCBtcRelay

CONSTANTS a, b, t1, o1

MCTx == {[txid |-> t1, nonce |-> 1, outputs |-> {o1}]}

SwapOf(kind, hash, confirmations) ==
  [kind |-> kind, confirmations |-> confirmations, nonce |-> 0, hash |-> hash,
   pay_in |-> TRUE, pay_out |-> TRUE, amount |-> 1, expiry |-> InitHeight + 2, sequence |-> 0]

Offers == {SwapOf("Chain", Sha256(<<0, o1>>), 1), SwapOf("ChainTxhash", t1, 2)}
MCSwap == Offers

MCParty == {<<a, b>>}

Checks ==
  {VerifyTransactionIx(t1, n) : n \in 1 .. 2}
  \cup {BlockHeightIx(InitHeight + 2, operation) : operation \in 2 .. 3}
MCRelayIx == Checks

\* The payment is in the first block, or in the second of the other fork.
Inclusions ==
  [c \in Headers \cup {<<>>} |->
     IF c = <<1>> \/ c = <<2, 1>> THEN {t1} ELSE {}]
MCIncluded == Inclusions

\* Forgeries are the matter of relay_safety.
Genuine == {c \in Candidates : IsGenuine(c)}
MCGenuine == Genuine

\* Without refunds by consent, which do not ask the relay.
MCSystemNext ==
  /\ SystemNext
  /\ main_state'.fork_counter <= MaxForks
  /\ ix0' \in {OtherIx} \cup RelayIx /\ UNCHANGED <<signed, now>>

MCSystemSpec == SystemInit /\ [][MCSystemNext]_systemVars
=============================================================================
