-------------------------------- MODULE BtcTx --------------------------------
(***************************************************************************)
(* The parser of Bitcoin transactions of the swap program (utils/btctx.rs) *)
(* and the nonce that is read from one (ixs/claim.rs), over bytes that are *)
(* digits to the base BASE, with fields of WORD and LONG digits.  Offsets  *)
(* count from 0.  None is an input that is refused, or read beyond its end *)
(* so that the claim aborts.  Left out: lengths near 2^64, which no        *)
(* transaction has, and at which the offset wraps around.                  *)
(***************************************************************************)
EXTENDS Integers, SequencesExt

CONSTANTS
  BASE,                 \* 256
  SHORT, WORD, LONG,    \* bytes of an u16, an u32 and an u64: 2, 4, 8
  HASH,                 \* bytes of a hash: 32
  SEQUENCE_FINAL,       \* 0xF0000000
  LOCKTIME_THRESHOLD,   \* 500000000
  None

Power[k \in Nat] == IF k = 0 THEN 1 ELSE BASE * Power[k-1]

Byte == 0 .. BASE - 1

\* What is read: a number, an input or an output, and the offset after it.
VarIntRead == [value : Nat, end : Nat]
InputRead  == [sequence : Nat, end : Nat]
OutputRead == [value : Nat, script : Seq(Byte), end : Nat]

ASSUME WidthAssumption ==
  /\ {BASE, SHORT, WORD, LONG, HASH} \subseteq Nat \ {0}
  /\ BASE > 4 /\ WORD > 1 /\ LONG >= 2 * WORD - 1
  /\ {SEQUENCE_FINAL, LOCKTIME_THRESHOLD} \subseteq 0 .. Power[WORD] - 1
  /\ None \notin [end : Nat] \cup VarIntRead \cup InputRead \cup OutputRead

\* The number in the bytes from offset on, the least significant byte first.
FromLeBytes(data, offset, width) ==
  LET n[i \in 0 .. width] == IF i = 0 THEN 0 ELSE n[i-1] + data[offset + i] * Power[i-1]
  IN  n[width]

Slice(data, offset, length) == SubSeq(data, offset + 1, offset + length)

\* Mutant: the largest number of one byte is taken for a prefix.
ReadVarIntEarly(data, start) ==
  IF start >= Len(data) THEN None
  ELSE LET first == data[start + 1]
           width == CASE first < BASE - 4 -> 0 [] first = BASE - 2 -> WORD
                      [] first = BASE - 1 -> LONG [] OTHER -> SHORT
       IN  IF start + 1 + width > Len(data) THEN None
           ELSE [value |-> IF width = 0 THEN first ELSE FromLeBytes(data, start + 1, width),
                 end   |-> start + 1 + width]

\* A number, and the offset after it.
ReadVarInt(data, start) ==
  IF start >= Len(data) THEN None
  ELSE LET first == data[start + 1]
           width == CASE first <= BASE - 4 -> 0 [] first = BASE - 3 -> SHORT
                      [] first = BASE - 2 -> WORD [] OTHER -> LONG
       IN  IF start + 1 + width > Len(data) THEN None
           ELSE [value |-> IF width = 0 THEN first ELSE FromLeBytes(data, start + 1, width),
                 end   |-> start + 1 + width]

ReadInput(data, offset) ==
  LET script == ReadVarInt(data, offset + HASH + WORD)
      at     == script.end + script.value
  IN  IF script = None THEN None
      ELSE IF at + WORD > Len(data) THEN None
      ELSE [sequence |-> FromLeBytes(data, at, WORD), end |-> at + WORD]

ReadOutput(data, offset) ==
  LET script == ReadVarInt(data, offset + LONG)
  IN  IF script = None THEN None
      ELSE IF script.end + script.value > Len(data) THEN None
      ELSE [value  |-> FromLeBytes(data, offset, LONG),
            script |-> Slice(data, script.end, script.value),
            end    |-> script.end + script.value]

\* What Read gives for one item after another, from the count in front of them.
ReadAll(data, count, Read(_, _)) ==
  LET item[i \in 0 .. count.value] ==
        IF i = 0 THEN [end |-> count.end]
        ELSE LET previous == item[i-1]
             IN  IF previous = None THEN None ELSE Read(data, previous.end)
  IN  item

NSequence(sequence) == sequence % Power[WORD - 1]

\* Every input has the bits of the first one, and no meaning for consensus.
HasNonce(inputs, count) ==
  \A i \in 1 .. count :
    /\ NSequence(inputs[i].sequence) = NSequence(inputs[1].sequence)
    /\ inputs[i].sequence >= SEQUENCE_FINAL

\* Mutant: transactions with witnesses are parsed like others.
NeverSegwit(data, input_size) == FALSE

IsSegwit(data, input_size) ==
  /\ input_size.value = 0 /\ input_size.end = WORD + 1
  /\ WORD + 2 <= Len(data) => data[WORD + 2] = 1

\* Mutant: as long as an inner node of a Merkle tree.
NeverNodeSized(length) == FALSE

IsNodeSized(length) == length = 2 * HASH

VerifyTransaction(data, vout, verify_nonce) ==
  LET input_size  == ReadVarInt(data, WORD)
      inputs      == ReadAll(data, input_size, ReadInput)
      last_input  == inputs[input_size.value]
      output_size == ReadVarInt(data, last_input.end)
      outputs     == ReadAll(data, output_size, ReadOutput)
      last_output == outputs[output_size.value]
  IN  IF IsNodeSized(Len(data)) \/ input_size = None THEN None
      ELSE IF IsSegwit(data, input_size) \/ last_input = None THEN None
      ELSE IF verify_nonce /\ ~ HasNonce(inputs, input_size.value) THEN None
      ELSE IF output_size = None THEN None
      ELSE IF last_output = None THEN None
      ELSE IF last_output.end + WORD > Len(data) THEN None
      ELSE [out |-> IF vout >= output_size.value THEN None
                    ELSE [value |-> outputs[vout + 1].value, script |-> outputs[vout + 1].script],
            locktime   |-> FromLeBytes(data, last_output.end, WORD),
            n_sequence |-> IF input_size.value = 0 THEN 0 ELSE NSequence(inputs[1].sequence)]

U64 == Power[LONG]

\* Mutant: the lock time is shifted into the sequence.
TxNonceOverlapping(locktime, n_sequence) ==
  (((locktime - LOCKTIME_THRESHOLD) * Power[WORD - 2]) % U64) + n_sequence

\* claim.rs: the release profile does not check the subtraction, which wraps
\* around for a lock time that is a height.
TxNonce(locktime, n_sequence) ==
  (((locktime - LOCKTIME_THRESHOLD) * Power[WORD - 1]) % U64) + n_sequence

-----------------------------------------------------------------------------
(* Bitcoin's serialization of a transaction [version, inputs, outputs,     *)
(* locktime] with inputs [prev, script, sequence], without its witnesses.  *)

TxInput  == [prev : Byte, script : Seq(Byte), sequence : 0 .. Power[WORD] - 1]
TxOutput == [value : 0 .. Power[LONG] - 1, script : Seq(Byte)]

IsTransaction(tx) ==
  /\ tx \in [version : 0 .. Power[WORD] - 1, inputs : Seq(TxInput) \ {<<>>},
             outputs : Seq(TxOutput), locktime : 0 .. Power[WORD] - 1]
  /\ Len(tx.inputs) < Power[LONG] /\ Len(tx.outputs) < Power[LONG]
  /\ \A i \in DOMAIN tx.inputs : Len(tx.inputs[i].script) < Power[LONG]
  /\ \A i \in DOMAIN tx.outputs : Len(tx.outputs[i].script) < Power[LONG]

LeBytes(n, width) == [i \in 1 .. width |-> (n \div Power[i-1]) % BASE]

VarInt(n) ==
  IF n <= BASE - 4 THEN <<n>>
  ELSE IF n < Power[SHORT] THEN <<BASE - 3>> \o LeBytes(n, SHORT)
  ELSE IF n < Power[WORD] THEN <<BASE - 2>> \o LeBytes(n, WORD)
  ELSE <<BASE - 1>> \o LeBytes(n, LONG)

InputBytes(input) ==
  [i \in 1 .. HASH |-> input.prev] \o LeBytes(0, WORD)
  \o VarInt(Len(input.script)) \o input.script \o LeBytes(input.sequence, WORD)

OutputBytes(output) ==
  LeBytes(output.value, LONG) \o VarInt(Len(output.script)) \o output.script

Body(tx) ==
  VarInt(Len(tx.inputs)) \o FlattenSeq([i \in DOMAIN tx.inputs |-> InputBytes(tx.inputs[i])])
  \o VarInt(Len(tx.outputs)) \o FlattenSeq([i \in DOMAIN tx.outputs |-> OutputBytes(tx.outputs[i])])

Serialize(tx) == LeBytes(tx.version, WORD) \o Body(tx) \o LeBytes(tx.locktime, WORD)

\* With the marker and flag of witnesses, and empty witnesses.
SerializeSegwit(tx) ==
  LeBytes(tx.version, WORD) \o <<0, 1>> \o Body(tx)
  \o [i \in DOMAIN tx.inputs |-> 0] \o LeBytes(tx.locktime, WORD)
=============================================================================
