---------------------------- MODULE MCTxInclusion ----------------------------
(***************************************************************************)
(* A small instance of TxInclusion: bytes to the base 8, words of two      *)
(* bytes, hashes of 16.                                                    *)
(***************************************************************************)
EXTENDS TxInclusion

Script(n) == [i \in 1 .. n |-> i % BASE]

In(n, sequence) == [prev |-> n % BASE, script |-> Script(n), sequence |-> sequence]
Out(value, n) == [value |-> value, script |-> Script(n)]

Tx(inputs, outputs, locktime) ==
  [version |-> 2, inputs |-> inputs, outputs |-> outputs, locktime |-> locktime]

\* Above SEQUENCE_FINAL = 48 only the last byte of a sequence is the nonce's;
\* lock times below LOCKTIME_THRESHOLD = 20 are heights.
Agreeing  == Tx(<<In(0, 51), In(4, 59)>>, <<Out(9, 4), Out(511, 5), Out(0, 0)>>, 26)
Differing == Tx(<<In(3, 51), In(3, 52)>>, <<Out(1, 7)>>, 25)
OfHeight  == Tx(<<In(9, 56)>>, <<Out(1, 0), Out(2, 1), Out(3, 2), Out(4, 3), Out(5, 4)>>, 19)
NodeSized == Tx(<<In(0, 51)>>, <<Out(3, 1)>>, 25)
LongOne   == Tx(<<In(0, 52)>>, <<Out(7, 65)>>, 25)

MCTransaction == {Agreeing, Differing, OfHeight, NodeSized, LongOne}

\* In a block with the first two next to each other NodeSized is their node;
\* in a block of its own it has the first two below it.
MCAsNode ==
  [data \in {Serialize(NodeSized)} |-> <<Sha256d(Serialize(Agreeing)), Sha256d(Serialize(Differing))>>]

ASSUME NodeSizedIsOne == Len(Serialize(NodeSized)) = 2 * HASH
=============================================================================
