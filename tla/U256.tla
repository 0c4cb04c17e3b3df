-------------------------------- MODULE U256 --------------------------------
(***************************************************************************)
(* The arithmetic of the btc-relay on 256-bit numbers, kept as arrays of   *)
(* BYTES digits below BASE, the most significant first (arrayutils.rs),    *)
(* and the encodings of difficulty targets (utils.rs).                     *)
(*                                                                         *)
(* Each loop is a recursive function of the position that carries its      *)
(* `remainder'.  The workspace is built with overflow checks, so that a    *)
(* subtraction below zero, an index out of bounds and a division by zero   *)
(* abort the instruction: the predicates that end in "Defined" say when    *)
(* this does not happen, and their operators are used under them only.     *)
(***************************************************************************)
EXTENDS Integers, Sequences, FiniteSetsExt

CONSTANTS
  BASE,         \* 256
  BYTES,        \* 32
  LEADING       \* zero digits in front of the largest target: 4

ASSUME DigitAssumption ==
  /\ BASE \in Nat /\ BASE > 1 /\ BASE % 2 = 0
  /\ BYTES \in Nat /\ LEADING \in Nat
  /\ LEADING + 3 <= BYTES

Digit == 0 .. BASE - 1

Array == [1 .. BYTES -> Digit]

\* The number an array stands for, which is what the operators are about.
Value(arr) ==
  LET prefix[i \in 0 .. BYTES] ==
        IF i = 0 THEN 0 ELSE prefix[i-1] * BASE + arr[i]
  IN  prefix[BYTES]

-----------------------------------------------------------------------------
(* arrayutils.rs                                                           *)

\* Mutant: the carry into a digit is lost.
AddWithoutCarry(arr, add) == [pos \in 1 .. BYTES |-> (arr[pos] + add[pos]) % BASE]

AddInPlace(arr, add) ==
  LET remainder[pos \in 1 .. BYTES + 1] ==
        IF pos > BYTES THEN 0 ELSE (arr[pos] + add[pos] + remainder[pos+1]) \div BASE
  IN  [pos \in 1 .. BYTES |-> (arr[pos] + add[pos] + remainder[pos+1]) % BASE]

MulInPlace(arr, multiplicator) ==
  LET remainder[pos \in 1 .. BYTES + 1] ==
        IF pos > BYTES THEN 0 ELSE (arr[pos] * multiplicator + remainder[pos+1]) \div BASE
  IN  [pos \in 1 .. BYTES |-> (arr[pos] * multiplicator + remainder[pos+1]) % BASE]

DivInPlace(arr, divisor) ==
  LET remainder[i \in 0 .. BYTES] ==
        IF i = 0 THEN 0 ELSE ((arr[i] + remainder[i-1]) % divisor) * BASE
  IN  [i \in 1 .. BYTES |-> (arr[i] + remainder[i-1]) \div divisor]

\* The first digit in which they differ decides.
GtArr(arr1, arr2) ==
  \E i \in 1 .. BYTES : arr1[i] > arr2[i] /\ \A j \in 1 .. i-1 : arr1[j] = arr2[j]

GteArr(arr1, arr2) == GtArr(arr1, arr2) \/ arr1 = arr2

LteArr(arr1, arr2) == GteArr(arr2, arr1)

-----------------------------------------------------------------------------
(* utils.rs                                                                *)

\* A compact target: how many digits the target has, and the first three.
Nbits == [size : 0 .. BYTES + 1, word : [1 .. 3 -> Digit]]

MAX_DIFFICULTY ==
  [i \in 1 .. BYTES |-> IF i \in LEADING + 1 .. LEADING + 2 THEN BASE - 1 ELSE 0]

UNROUNDED_MAX_TARGET == [i \in 1 .. BYTES |-> IF i > LEADING THEN BASE - 1 ELSE 0]

NonZero(arr) == {i \in 1 .. BYTES : arr[i] > 0}

\* Mutant: the top bit of the first digit, a sign, is not kept clear.
TargetToNbitsSigned(target) ==
  LET n_size == IF NonZero(target) = {} THEN 0 ELSE BYTES + 1 - Min(NonZero(target))
  IN  [size |-> n_size,
       word |-> [i \in 1 .. 3 |-> IF n_size >= i THEN target[BYTES - n_size + i] ELSE 0]]

TargetToNbits(target) ==
  LET n_size == IF NonZero(target) = {} THEN 0 ELSE BYTES + 1 - Min(NonZero(target))
      word   == [i \in 1 .. 3 |-> IF n_size >= i THEN target[BYTES - n_size + i] ELSE 0]
  IN  IF word[1] >= BASE \div 2
      THEN [size |-> n_size + 1, word |-> <<0, word[1], word[2]>>]
      ELSE [size |-> n_size, word |-> word]

NbitsToTargetDefined(nbits) == nbits.size <= BYTES

NbitsToTarget(nbits) ==
  LET n_word == [nbits.word EXCEPT ![1] = @ % (BASE \div 2)]
      start  == BYTES - nbits.size
  IN  [pos \in 1 .. BYTES |-> IF pos - start \in 1 .. 3 THEN n_word[pos - start] ELSE 0]

\* The first non-zero digit and the two after it are there to be divided by.
GetDifficultyDefined(target) ==
  NonZero(target) # {} /\ Min(NonZero(target)) + 2 <= BYTES

\* The difficulty is the largest target over the target, which is divided by
\* its first three digits and shifted by the number of the others.
GetDifficulty(target) ==
  LET start == Min(NonZero(target))
      shift == BYTES - start - 2
      num   == (target[start] * BASE + target[start + 1]) * BASE + target[start + 2]
      arr   == DivInPlace(MAX_DIFFICULTY, num)
  IN  [i \in 1 .. BYTES |-> IF i > shift THEN arr[i - shift] ELSE 0]
=============================================================================
