---------------------------- MODULE Instructions ----------------------------
(***************************************************************************)
(* Instructions that the swap program looks up at position 0 of the        *)
(* running transaction, as records of the fields whose bytes it compares   *)
(* (utils/btcrelay.rs, utils/signature.rs), and its hashes.                *)
(***************************************************************************)

VerifyTransactionIx(txid, confirmations) ==
  [program |-> "BtcRelay", ix |-> "verify_transaction", txid |-> txid,
   confirmations |-> confirmations]

BlockHeightIx(value, operation) ==
  [program |-> "BtcRelay", ix |-> "block_height", value |-> value, operation |-> operation]

Ed25519Ix(pubkey, msg) == [program |-> "Ed25519", pubkey |-> pubkey, msg |-> msg]

OtherIx == [program |-> "Other"]

\* A symbolic hash: injective, and no hash is a secret or an output.
Sha256(x) == <<x>>
=============================================================================
