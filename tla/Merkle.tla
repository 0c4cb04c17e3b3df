------------------------------- MODULE Merkle -------------------------------
(***************************************************************************)
(* Proofs that a transaction is in a block: compute_merkle of the relay    *)
(* (utils.rs), and the trees of Bitcoin that it has to agree with.         *)
(* Hashes are symbolic: the double hash of some bytes is a record of them, *)
(* and the bytes of an inner node are written as the two hashes that they  *)
(* consist of.  A transaction whose bytes read as two hashes has to be     *)
(* written so as well (HashOf of TxInclusion).                             *)
(***************************************************************************)
EXTENDS Integers, SequencesExt

Sha256d(data) == [sha256d |-> data]

\* Mutant: the index is not shifted.
NotShifted(tx_index, n) == [i \in 0 .. n |-> tx_index]

\* An index, shifted by one bit for each piece of a proof.
Shifted(tx_index, n) ==
  LET index[i \in 0 .. n] == IF i = 0 THEN tx_index ELSE index[i-1] \div 2
  IN  index

\* The last bit of the index tells on which side of the path the next piece is.
ComputeMerkle(txid, tx_index, merkle_proof) ==
  LET index == Shifted(tx_index, Len(merkle_proof))
      current_hash[i \in 0 .. Len(merkle_proof)] ==
        IF i = 0 THEN txid
        ELSE IF index[i-1] % 2 = 0
        THEN Sha256d(<<current_hash[i-1], merkle_proof[i]>>)
        ELSE Sha256d(<<merkle_proof[i], current_hash[i-1]>>)
  IN  current_hash[Len(merkle_proof)]

-----------------------------------------------------------------------------
(* Bitcoin's tree over a sequence of transaction ids.                      *)

\* How many hashes there are on each level over n of them: a level has half as
\* many as the one below, and the tree ends when there is one.
Widths(n) ==
  LET width[d \in 0 .. n] == IF d = 0 THEN n ELSE (width[d-1] + 1) \div 2
  IN  width

Depth(n) == Min({d \in 0 .. n : Widths(n)[d] = 1})

\* The last hash of a level is paired with itself if it has no other.
Parents(level) ==
  [j \in 1 .. (Len(level) + 1) \div 2 |->
     Sha256d(<<level[2*j - 1], level[Min({2*j, Len(level)})]>>)]

Levels(txids) ==
  LET level[d \in 0 .. Depth(Len(txids))] ==
        IF d = 0 THEN txids ELSE Parents(level[d-1])
  IN  level

MerkleRoot(txids) == Levels(txids)[Depth(Len(txids))][1]

\* The neighbours on the way from the transaction at tx_index, counted from 0.
ProofOf(txids, tx_index) ==
  [i \in 1 .. Depth(Len(txids)) |->
     LET level   == Levels(txids)[i-1]
         own     == Shifted(tx_index, i-1)[i-1]
         sibling == IF own % 2 = 0 THEN own + 1 ELSE own - 1
     IN  level[Min({sibling + 1, Len(level)})]]
=============================================================================
