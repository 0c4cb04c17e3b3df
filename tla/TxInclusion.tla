----------------------------- MODULE TxInclusion -----------------------------
(***************************************************************************)
(* From bytes that a claimer sends to a payment in a block: the parser of  *)
(* the swap program and the proof that the relay checks, for each block    *)
(* that can be put together from some transactions.                        *)
(***************************************************************************)
EXTENDS BtcTx, Merkle, FiniteSets

CONSTANTS
  Transaction,  \* transactions that may be in a block
  AsNode,       \* the two hashes that some bytes of twice that length consist of
  MaxBlock,     \* bound: transactions in a block
  MaxProof      \* bound: length of the proofs that callers make up

ASSUME TransactionAssumption == \A tx \in Transaction : IsTransaction(tx)
ASSUME AsNodeAssumption ==
  \A data \in DOMAIN AsNode :
    /\ Len(data) = 2 * HASH
    /\ AsNode[data] = <<AsNode[data][1], AsNode[data][2]>>
    /\ \A other \in DOMAIN AsNode : AsNode[other] = AsNode[data] => other = data
ASSUME BoundAssumption == {MaxBlock, MaxProof} \subseteq Nat

VARIABLE block  \* the transactions of a block, in order

\* The hash of some bytes, which is that of an inner node when they are the
\* hashes below it: the bytes alone do not tell a transaction from a node.
HashOf(data) == Sha256d(IF data \in DOMAIN AsNode THEN AsNode[data] ELSE data)

Txid(tx) == HashOf(Serialize(tx))
Txids == [i \in DOMAIN block |-> Txid(block[i])]

Init == block \in {<<tx>> : tx \in Transaction}

\* No two transactions have one id.
Next ==
  /\ Len(block) < MaxBlock
  /\ \E tx \in Transaction \ ToSet(block) : block' = Append(block, tx)

Spec == Init /\ [][Next]_block

-----------------------------------------------------------------------------
(* Properties.                                                             *)

\* What the program may know of a transaction: its outputs, lock time and
\* sequence, in all places; with the nonce asked for, only if all its inputs
\* agree; and nothing of one as long as an inner node.
Known(tx, vout, verify_nonce) ==
  LET sequences == {input.sequence : input \in ToSet(tx.inputs)}
      agree == Cardinality({s % Power[WORD-1] : s \in sequences}) = 1
  IN  IF Len(Serialize(tx)) = 2 * HASH \/
         (verify_nonce /\ ~ (agree /\ \A s \in sequences : s >= SEQUENCE_FINAL)) THEN None
      ELSE [out |-> IF vout < Len(tx.outputs) THEN tx.outputs[vout + 1] ELSE None,
            locktime |-> tx.locktime,
            n_sequence |-> tx.inputs[1].sequence % Power[WORD-1]]

\* The parser, which skips along the bytes with one running offset, finds in the
\* serialization of a transaction what the transaction says, for every output,
\* and in a serialization with witnesses nothing.
ParsesBack ==
  LET tx == block[Len(block)] IN
  \A vout \in 0 .. Len(tx.outputs), verify_nonce \in BOOLEAN :
    /\ VerifyTransaction(Serialize(tx), vout, verify_nonce) = Known(tx, vout, verify_nonce)
    /\ VerifyTransaction(SerializeSegwit(tx), vout, verify_nonce) = None

\* "this uniquelly identifies the transaction output, even if it's an address
\* re-use" (claim.rs:120): transactions that pass with one nonce have the same
\* lock time and sequence, also when the subtraction wraps around.
NonceOf(tx) ==
  LET parsed == VerifyTransaction(Serialize(tx), 0, TRUE)
  IN  IF parsed = None THEN None ELSE TxNonce(parsed.locktime, parsed.n_sequence)

NonceIdentifies ==
  LET new == block[Len(block)] IN
  \A tx \in ToSet(block) :
    NonceOf(tx) = NonceOf(new) /\ NonceOf(new) # None =>
      /\ tx.locktime = new.locktime
      /\ tx.inputs[1].sequence % Power[WORD-1] = new.inputs[1].sequence % Power[WORD-1]

\* The proof of each transaction of a block is accepted, also on the right edge
\* of a tree that is not full.
ProofsComplete ==
  \A i \in DOMAIN block :
    ComputeMerkle(Txids[i], i - 1, ProofOf(Txids, i - 1)) = MerkleRoot(Txids)

\* All hashes of the tree, and those that bytes of the length of a node consist
\* of: made-up proofs can only be of use with these.
Hashes == UNION {ToSet(level) : level \in {Levels(Txids)[d] : d \in 0 .. Depth(Len(block))}}
Pieces == Hashes \cup UNION {ToSet(AsNode[data]) : data \in DOMAIN AsNode}

\* Bytes that the parser accepts, and that a proof takes to the root, are those
\* of a transaction of the block, or the path from them goes through one that is
\* as long as an inner node.  So an inner node never passes for a payment
\* ("Security against spoofing bitcoin txs as merkle tree nodes", btctx.rs:39),
\* but below a transaction of 64 bytes whatever it has the hash of does:
\* compute_merkle checks neither the length of the proof nor the index.
ProofsSound ==
  LET root == MerkleRoot(Txids) IN
  \A data \in {Serialize(tx) : tx \in Transaction} \cup DOMAIN AsNode :
    VerifyTransaction(data, 0, FALSE) # None /\ HashOf(data) \notin ToSet(Txids) =>
      \A n \in 0 .. MaxProof : \A index \in 0 .. 2^n - 1, merkle_proof \in [1 .. n -> Pieces] :
        ComputeMerkle(HashOf(data), index, merkle_proof) = root =>
          \E k \in 1 .. n, tx \in ToSet(block) :
            /\ Serialize(tx) \in DOMAIN AsNode
            /\ ComputeMerkle(HashOf(data), index, SubSeq(merkle_proof, 1, k)) = Txid(tx)
=============================================================================
