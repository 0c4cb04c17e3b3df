-------------------------- MODULE BlockHeaders_proofs --------------------------
(***************************************************************************)
(* Proofs about BlockHeaders, for every base, number of digits, interval   *)
(* and number of past times.                                               *)
(*                                                                         *)
(* The first sections say what the loops of U256 compute: each is followed *)
(* digit by digit, with the number that the digits so far stand for.  Then *)
(* come the conversion of a target from and to its compact form, the next  *)
(* target, and the median of the past times, which is found by counting.   *)
(* The invariants follow: what is handed on from header to header is what  *)
(* the rules of BitcoinHeaders read off the whole chain.                   *)
(***************************************************************************)
EXTENDS BlockHeaders, InductionLemmas, TLAPS

-----------------------------------------------------------------------------
(***************************************************************************)
(* The base and its powers.                                                *)
(***************************************************************************)

\* The base and the length of arrays, as the provers need them.
LEMMA Bases == BASE \in Nat \ {0, 1} /\ BYTES \in Nat
BY DigitAssumption

Pow == Bitcoin!Power

LEMMA PowIs == IsPowers(Pow, BASE)
<1>1. \E f : IsPowers(f, BASE)
  BY Bases, PowersExist
<1>2. Pow = CHOOSE g : g = [k \in Nat |-> IF k = 0 THEN 1 ELSE BASE * g[k-1]]
  BY DEF Pow, Bitcoin!Power
<1> QED
  BY <1>1, <1>2 DEF IsPowers

LEMMA PowFacts ==
  /\ Pow \in [Nat -> Nat]
  /\ Pow[0] = 1
  /\ \A k \in Nat : Pow[k+1] = BASE * Pow[k]
BY PowIs, Bases, PowersType

LEMMA PowPos ==
  ASSUME NEW n \in Nat
  PROVE  Pow[n] \in Nat \ {0}
BY PowIs, Bases, PowersPos

LEMMA PowAdd ==
  ASSUME NEW m \in Nat, NEW n \in Nat
  PROVE  Pow[m + n] = Pow[m] * Pow[n]
BY PowIs, Bases, PowersAdd

\* Powers grow, by the base at least with each exponent.
LEMMA PowGrows ==
  ASSUME NEW m \in Nat, NEW n \in Nat
  PROVE  /\ m <= n => Pow[m] <= Pow[n]
         /\ m < n => BASE * Pow[m] <= Pow[n] /\ Pow[m] < Pow[n]
BY PowIs, Bases, PowersGrow

LEMMA PowAbove ==
  ASSUME NEW n \in Nat
  PROVE  Pow[n] > n
BY PowIs, Bases, PowersAbove

-----------------------------------------------------------------------------
(***************************************************************************)
(* The number an array stands for.                                         *)
(***************************************************************************)

\* P[i] is the number that the first i digits stand for.
Reads(P, a) ==
  /\ P \in [0 .. BYTES -> Nat]
  /\ P[0] = 0
  /\ \A i \in 1 .. BYTES : P[i] = P[i-1] * BASE + a[i]

Numbers == [1 .. BYTES -> Nat]

LEMMA ArrayNumbers ==
  ASSUME NEW a \in Array
  PROVE  a \in Numbers /\ \A i \in 1 .. BYTES : a[i] \in Nat /\ a[i] < BASE
BY Bases DEF Array, Digit, Numbers

LEMMA PrefixExists ==
  ASSUME NEW a \in Numbers
  PROVE  \E P : Reads(P, a) /\ Value(a) = P[BYTES]
<1> DEFINE step == [i \in 1 .. BYTES |-> [x \in Nat |-> x * BASE + a[i]]]
           Rec(g) == g = [i \in 0 .. BYTES |-> IF i = 0 THEN 0 ELSE g[i-1] * BASE + a[i]]
<1>1. \A i \in 1 .. BYTES : \A x \in Nat : x * BASE + a[i] \in Nat
  BY Bases, MulType DEF Numbers
<1>2. IsStep(step, BYTES, Nat)
  BY <1>1 DEF IsStep
<1>3. \A i \in 1 .. BYTES : \A x \in Nat : step[i][x] = x * BASE + a[i]
  OBVIOUS
<1> HIDE DEF step
<1>4. PICK f : Iterates(f, BYTES, Nat, 0, step)
  BY <1>2, Bases, IterationExists
<1>5. ASSUME NEW i \in 1 .. BYTES PROVE f[i] = f[i-1] * BASE + a[i]
  <2>1. f[i-1] \in Nat /\ f[i] = step[i][f[i-1]]
    BY <1>4, Bases DEF Iterates
  <2> QED
    BY <1>3, <2>1
<1>6. Rec(f)
  BY <1>4, <1>5, Bases DEF Iterates
<1> DEFINE P == CHOOSE g : Rec(g)
<1>7. Rec(P)
  BY <1>6
<1>8. Value(a) = P[BYTES]
  BY DEF Value
<1> HIDE DEF P
<1>9. P[0] = 0 /\ \A i \in 1 .. BYTES : P[i] = P[i-1] * BASE + a[i]
  BY <1>7, Bases
<1>10. \A i \in 0 .. BYTES : P[i] \in Nat
  <2> DEFINE S == {i \in 0 .. BYTES : P[i] \in Nat}
  <2>1. 0 \in S
    BY <1>9, Bases
  <2>2. \A i \in 1 .. BYTES : i-1 \in S => i \in S
    BY <1>1, <1>9
  <2> HIDE DEF S
  <2>3. \A i \in 0 .. BYTES : i \in S
    BY <2>1, <2>2, Bases, UpTo
  <2> QED
    BY <2>3 DEF S
<1>11. P = [i \in 0 .. BYTES |-> P[i]]
  BY <1>7
<1> HIDE DEF Rec
<1>12. Reads(P, a)
  BY <1>9, <1>10, <1>11 DEF Reads
<1> QED
  BY <1>8, <1>12

LEMMA ValueIs ==
  ASSUME NEW a \in Numbers, NEW P, Reads(P, a)
  PROVE  Value(a) = P[BYTES]
<1>1. PICK Q : Reads(Q, a) /\ Value(a) = Q[BYTES]
  BY PrefixExists
<1> DEFINE S == {i \in 0 .. BYTES : P[i] = Q[i]}
<1>2. 0 \in S
  BY <1>1, Bases DEF Reads
<1>3. \A i \in 1 .. BYTES : i-1 \in S => i \in S
  BY <1>1 DEF Reads
<1> HIDE DEF S
<1>4. BYTES \in S
  BY <1>2, <1>3, Bases, UpTo
<1> QED
  BY <1>1, <1>4 DEF S

LEMMA ValueType ==
  ASSUME NEW a \in Numbers
  PROVE  Value(a) \in Nat
BY PrefixExists, Bases DEF Reads

\* Digits below the base leave room for no more.
LEMMA PrefixBound ==
  ASSUME NEW a \in Array, NEW P, Reads(P, a)
  PROVE  \A i \in 0 .. BYTES : P[i] < Pow[i]
<1> DEFINE S == {i \in 0 .. BYTES : P[i] < Pow[i]}
<1>1. 0 \in S
  BY PowFacts, Bases DEF Reads
<1>2. ASSUME NEW i \in 1 .. BYTES, i-1 \in S PROVE i \in S
  <2>1. i - 1 \in Nat /\ (i - 1) + 1 = i /\ i - 1 \in 0 .. BYTES
    BY Bases
  <2>2. Pow[i] = BASE * Pow[i-1] /\ Pow[i-1] \in Nat
    BY <2>1, PowFacts
  <2>3. P[i] = P[i-1] * BASE + a[i] /\ P[i-1] \in Nat
    BY <2>1 DEF Reads
  <2>4. P[i-1] + 1 <= Pow[i-1]
    BY <1>2, <2>2, <2>3
  <2>5. (P[i-1] + 1) * BASE <= Pow[i-1] * BASE
    BY <2>2, <2>3, <2>4, Bases, MulOrder
  <2>6. a[i] \in Nat /\ a[i] < BASE
    BY ArrayNumbers
  <2>7. (P[i-1] + 1) * BASE = P[i-1] * BASE + BASE /\ Pow[i-1] * BASE = BASE * Pow[i-1]
        /\ P[i-1] * BASE \in Nat /\ Pow[i-1] * BASE \in Nat
    BY <2>2, <2>3, Bases
  <2>8. P[i] < Pow[i]
    BY <2>2, <2>3, <2>5, <2>6, <2>7, Bases
  <2> QED
    BY <2>8
<1> HIDE DEF S
<1>3. \A i \in 0 .. BYTES : i \in S
  BY <1>1, <1>2, Bases, UpTo
<1> QED
  BY <1>3 DEF S

\* A prefix is the quotient by a power of the base.
LEMMA PrefixSplit ==
  ASSUME NEW a \in Array, NEW P, Reads(P, a),
         NEW i \in 0 .. BYTES, NEW j \in i .. BYTES
  PROVE  \E s \in 0 .. Pow[j - i] - 1 : P[j] = P[i] * Pow[j - i] + s
<1> DEFINE n == BYTES - i
           S == {k \in 0 .. n : \E s \in 0 .. Pow[k] - 1 : P[i + k] = P[i] * Pow[k] + s}
<1>1. n \in Nat /\ P[i] \in Nat
  BY Bases DEF Reads
<1>2. 0 \in S
  BY <1>1, PowFacts
<1>3. ASSUME NEW k \in 1 .. n, k-1 \in S PROVE k \in S
  <2>1. PICK s \in 0 .. Pow[k-1] - 1 : P[i + (k-1)] = P[i] * Pow[k-1] + s
    BY <1>3
  <2>2. k - 1 \in Nat /\ (k - 1) + 1 = k
    BY <1>1
  <2>3. Pow[k] = BASE * Pow[k-1] /\ Pow[k-1] \in Nat
    BY <2>2, PowFacts
  <2>4. i + k \in 1 .. BYTES /\ (i + k) - 1 = i + (k-1)
    BY Bases
  <2>5. P[i + k] = P[i + (k-1)] * BASE + a[i + k]
    BY <2>4 DEF Reads
  <2>6. a[i + k] \in Nat /\ a[i + k] < BASE
    BY <2>4, ArrayNumbers
  <2> DEFINE t == s * BASE + a[i + k]
             p == Pow[k-1]
             c == P[i]
             d == a[i + k]
  <2>7. p \in Nat /\ c \in Nat /\ d \in Nat /\ d < BASE /\ s \in Nat /\ s + 1 <= p
    BY <1>1, <2>1, <2>3, <2>6
  <2> HIDE DEF p, c, d
  <2>8. (c * p + s) * BASE + d = c * (BASE * p) + (s * BASE + d)
    BY <2>7, Bases
  <2>9. (s + 1) * BASE <= p * BASE
    BY <2>7, Bases, MulOrder
  <2>10. s * BASE + d < BASE * p /\ s * BASE + d \in Nat /\ BASE * p \in Nat
    BY <2>7, <2>9, Bases
  <2>11. t \in 0 .. Pow[k] - 1
    BY <2>3, <2>10 DEF p, d
  <2>12. P[i + k] = P[i] * Pow[k] + t
    BY <2>1, <2>3, <2>5, <2>8 DEF p, c, d
  <2> HIDE DEF t
  <2> QED
    BY <2>11, <2>12
<1> HIDE DEF S
<1>4. \A k \in 0 .. n : k \in S
  BY <1>1, <1>2, <1>3, UpTo
<1>5. j - i \in 0 .. n /\ i + (j - i) = j
  BY Bases
<1>6. j - i \in S
  BY <1>4, <1>5
<1> QED
  BY <1>5, <1>6 DEF S

LEMMA PrefixZeros ==
  ASSUME NEW a \in Array, NEW P, Reads(P, a),
         NEW i \in 0 .. BYTES, NEW j \in i .. BYTES,
         \A k \in i + 1 .. j : a[k] = 0
  PROVE  P[j] = P[i] * Pow[j - i]
<1> DEFINE n == j - i
           S == {k \in 0 .. n : P[i + k] = P[i] * Pow[k]}
<1>1. n \in Nat /\ P[i] \in Nat
  BY Bases DEF Reads
<1>2. 0 \in S
  BY <1>1, PowFacts
<1>3. ASSUME NEW k \in 1 .. n, k-1 \in S PROVE k \in S
  <2>1. k - 1 \in Nat /\ (k - 1) + 1 = k
    BY <1>1
  <2>2. Pow[k] = BASE * Pow[k-1] /\ Pow[k-1] \in Nat
    BY <2>1, PowFacts
  <2>3. i + k \in 1 .. BYTES /\ i + k \in i + 1 .. j /\ (i + k) - 1 = i + (k-1)
    BY Bases
  <2>4. P[i + k] = P[i + (k-1)] * BASE + 0
    BY <2>3 DEF Reads
  <2>5. P[i + (k-1)] = P[i] * Pow[k-1]
    BY <1>3
  <2>6. (P[i] * Pow[k-1]) * BASE + 0 = P[i] * (BASE * Pow[k-1])
    BY <1>1, <2>2, Bases
  <2>7. P[i + k] = P[i] * Pow[k]
    BY <2>2, <2>4, <2>5, <2>6
  <2> QED
    BY <2>7
<1> HIDE DEF S
<1>4. \A k \in 0 .. n : k \in S
  BY <1>1, <1>2, <1>3, UpTo
<1>5. n \in S /\ i + n = j
  BY <1>1, <1>4, Bases
<1> QED
  BY <1>5 DEF S

LEMMA PrefixAgrees ==
  ASSUME NEW a \in Numbers, NEW P, Reads(P, a),
         NEW b \in Numbers, NEW Q, Reads(Q, b),
         NEW i \in 0 .. BYTES, \A k \in 1 .. i : a[k] = b[k]
  PROVE  P[i] = Q[i]
<1> DEFINE S == {k \in 0 .. i : P[k] = Q[k]}
<1>1. 0 \in S
  BY Bases DEF Reads
<1>2. \A k \in 1 .. i : k-1 \in S => k \in S
  BY Bases DEF Reads
<1> HIDE DEF S
<1>3. i \in S
  BY <1>1, <1>2, Bases, UpTo
<1> QED
  BY <1>3 DEF S

LEMMA MinIs ==
  ASSUME NEW S \in SUBSET Nat, S # {}
  PROVE  Min(S) \in S /\ \A y \in S : Min(S) <= y
BY SmallestExists DEF Min

\* Of two arrays that differ, one is larger.
LEMMA GtTotal ==
  ASSUME NEW a \in Array, NEW b \in Array, a # b
  PROVE  GtArr(a, b) \/ GtArr(b, a)
<1> DEFINE S == {i \in 1 .. BYTES : a[i] # b[i]}
<1>1. S # {}
  <2>1. a = [i \in 1 .. BYTES |-> a[i]] /\ b = [i \in 1 .. BYTES |-> b[i]]
    BY DEF Array
  <2> SUFFICES ASSUME \A i \in 1 .. BYTES : a[i] = b[i] PROVE FALSE
    OBVIOUS
  <2> QED
    BY <2>1
<1>2. S \in SUBSET Nat
  OBVIOUS
<1> HIDE DEF S
<1>3. PICK i \in S : \A j \in S : i <= j
  BY <1>1, <1>2, SmallestExists
<1> USE DEF S
<1>4. i \in 1 .. BYTES /\ a[i] # b[i]
  OBVIOUS
<1>5. \A j \in 1 .. i-1 : a[j] = b[j]
  BY <1>3, Bases
<1>6. a[i] \in Nat /\ b[i] \in Nat
  BY <1>4, ArrayNumbers
<1>7. a[i] > b[i] \/ b[i] > a[i]
  BY <1>4, <1>6
<1> HIDE DEF S
<1> QED
  BY <1>4, <1>5, <1>7 DEF GtArr

LEMMA GtImpliesGreater ==
  ASSUME NEW a \in Array, NEW b \in Array, GtArr(a, b)
  PROVE  Value(a) > Value(b)
<1>1. PICK i \in 1 .. BYTES : a[i] > b[i] /\ \A j \in 1 .. i-1 : a[j] = b[j]
  BY DEF GtArr
<1>2. a \in Numbers /\ b \in Numbers /\ a[i] \in Nat /\ b[i] \in Nat
  BY ArrayNumbers
<1>3. PICK P : Reads(P, a) /\ Value(a) = P[BYTES]
  BY <1>2, PrefixExists
<1>4. PICK Q : Reads(Q, b) /\ Value(b) = Q[BYTES]
  BY <1>2, PrefixExists
<1>5. i - 1 \in 0 .. BYTES /\ i \in 0 .. BYTES /\ BYTES \in i .. BYTES /\ BYTES - i \in Nat
  BY Bases
<1>6. P[i-1] = Q[i-1]
  BY <1>1, <1>2, <1>3, <1>4, <1>5, PrefixAgrees
<1>7. P[i] = P[i-1] * BASE + a[i] /\ Q[i] = Q[i-1] * BASE + b[i] /\ P[i] \in Nat /\ Q[i] \in Nat /\ P[i-1] \in Nat
  BY <1>3, <1>4, <1>5 DEF Reads
<1>8. Q[i] + 1 <= P[i]
  BY <1>1, <1>2, <1>6, <1>7, Bases
<1>9. PICK s \in 0 .. Pow[BYTES - i] - 1 : P[BYTES] = P[i] * Pow[BYTES - i] + s
  BY <1>3, <1>5, PrefixSplit
<1>10. PICK t \in 0 .. Pow[BYTES - i] - 1 : Q[BYTES] = Q[i] * Pow[BYTES - i] + t
  BY <1>4, <1>5, PrefixSplit
<1> DEFINE p == Pow[BYTES - i]
<1>11. p \in Nat
  BY <1>5, PowPos
<1>12. s \in Nat /\ t < p /\ t \in Nat
  BY <1>9, <1>10, <1>11
<1> HIDE DEF p
<1>13. (Q[i] + 1) * p <= P[i] * p /\ (Q[i] + 1) * p = Q[i] * p + p
  <2>1. Q[i] + 1 \in Nat
    BY <1>7
  <2>2. (Q[i] + 1) * p <= P[i] * p
    BY <1>7, <1>8, <1>11, <2>1, MulOrder
  <2>3. (Q[i] + 1) * p = Q[i] * p + p
    BY <1>7, <1>11
  <2> QED
    BY <2>2, <2>3
<1>14. P[i] * p + s > Q[i] * p + t
  BY <1>7, <1>11, <1>12, <1>13, MulType
<1> QED
  BY <1>3, <1>4, <1>9, <1>10, <1>14 DEF p

\* The comparison of arrays is that of numbers.
LEMMA GtIsGreater ==
  ASSUME NEW a \in Array, NEW b \in Array
  PROVE  /\ GtArr(a, b) <=> Value(a) > Value(b)
         /\ a = b <=> Value(a) = Value(b)
         /\ LteArr(a, b) <=> Value(a) <= Value(b)
<1>1. Value(a) \in Nat /\ Value(b) \in Nat
  BY ArrayNumbers, ValueType
<1>2. GtArr(a, b) => Value(a) > Value(b)
  BY GtImpliesGreater
<1>3. GtArr(b, a) => Value(b) > Value(a)
  BY GtImpliesGreater
<1>4. a = b \/ GtArr(a, b) \/ GtArr(b, a)
  BY GtTotal
<1> QED
  BY <1>1, <1>2, <1>3, <1>4 DEF LteArr, GteArr

LEMMA ValueBound ==
  ASSUME NEW a \in Array
  PROVE  Value(a) \in Nat /\ Value(a) < Pow[BYTES]
BY PrefixExists, PrefixBound, ArrayNumbers, ValueType, Bases

-----------------------------------------------------------------------------
(***************************************************************************)
(* Addition, multiplication and division.                                  *)
(***************************************************************************)

\* The carries of a loop from the last digit to the first: c[pos] goes from
\* position pos to the one before, out of the terms t of this position.
Carries(c, t) ==
  c = [pos \in 1 .. BYTES + 1 |->
         IF pos > BYTES THEN 0 ELSE (t[pos] + c[pos+1]) \div BASE]

LEMMA CarriesExist ==
  ASSUME NEW t \in Numbers
  PROVE  \E c : Carries(c, t)
<1> DEFINE step == [i \in 1 .. BYTES |-> [x \in Nat |-> (t[BYTES + 1 - i] + x) \div BASE]]
<1>1. \A i \in 1 .. BYTES : BYTES + 1 - i \in 1 .. BYTES
  BY Bases
<1>2. \A i \in 1 .. BYTES : \A x \in Nat : (t[BYTES + 1 - i] + x) \div BASE \in Nat
  <2> TAKE i \in 1 .. BYTES
  <2>1. t[BYTES + 1 - i] \in Nat
    BY <1>1 DEF Numbers
  <2> QED
    BY <2>1, Bases
<1>3. IsStep(step, BYTES, Nat)
  BY <1>2 DEF IsStep
<1>4. \A i \in 1 .. BYTES : \A x \in Nat : step[i][x] = (t[BYTES + 1 - i] + x) \div BASE
  OBVIOUS
<1> HIDE DEF step
<1>5. PICK f : Iterates(f, BYTES, Nat, 0, step)
  BY <1>3, Bases, IterationExists
<1> DEFINE c == [pos \in 1 .. BYTES + 1 |-> f[BYTES + 1 - pos]]
<1>6. ASSUME NEW pos \in 1 .. BYTES + 1
      PROVE  c[pos] = IF pos > BYTES THEN 0 ELSE (t[pos] + c[pos+1]) \div BASE
  <2>1. CASE pos > BYTES
    <3>1. BYTES + 1 - pos = 0
      BY <2>1, Bases
    <3> QED
      BY <2>1, <3>1, <1>5 DEF Iterates
  <2>2. CASE ~ (pos > BYTES)
    <3> DEFINE i == BYTES + 1 - pos
    <3>1. i \in 1 .. BYTES /\ BYTES + 1 - i = pos /\ i - 1 = BYTES + 1 - (pos + 1) /\ pos + 1 \in 1 .. BYTES + 1
      BY <2>2, Bases
    <3>2. c[pos] = f[i] /\ c[pos+1] = f[i-1]
      BY <3>1
    <3> HIDE DEF i, c
    <3>3. f[i-1] \in Nat /\ f[i] = step[i][f[i-1]]
      BY <1>5, <3>1, Bases DEF Iterates
    <3>4. f[i] = (t[pos] + f[i-1]) \div BASE
      BY <1>4, <3>1, <3>3
    <3> QED
      BY <2>2, <3>2, <3>4
  <2> QED
    BY <2>1, <2>2
<1>7. c = [pos \in 1 .. BYTES + 1 |-> c[pos]]
  OBVIOUS
<1> HIDE DEF c
<1>8. Carries(c, t)
  BY <1>6, <1>7 DEF Carries
<1> QED
  BY <1>8

LEMMA CarriesAre ==
  ASSUME NEW t \in Numbers, NEW c, Carries(c, t)
  PROVE  /\ c \in [1 .. BYTES + 1 -> Nat]
         /\ c[BYTES + 1] = 0
         /\ \A pos \in 1 .. BYTES : c[pos] = (t[pos] + c[pos+1]) \div BASE
<1>1. c[BYTES + 1] = 0 /\ \A pos \in 1 .. BYTES : c[pos] = (t[pos] + c[pos+1]) \div BASE
  BY Bases DEF Carries
<1> DEFINE S == {i \in 0 .. BYTES : c[BYTES + 1 - i] \in Nat}
<1>2. 0 \in S
  BY <1>1, Bases
<1>3. ASSUME NEW i \in 1 .. BYTES, i-1 \in S PROVE i \in S
  <2> DEFINE pos == BYTES + 1 - i
  <2>1. pos \in 1 .. BYTES /\ BYTES + 1 - (i-1) = pos + 1
    BY Bases
  <2>2. c[pos+1] \in Nat
    BY <1>3, <2>1
  <2>3. t[pos] \in Nat
    BY <2>1 DEF Numbers
  <2> HIDE DEF pos
  <2>4. (t[pos] + c[pos+1]) \div BASE \in Nat
    BY <2>2, <2>3, Bases
  <2>5. c[pos] \in Nat
    BY <1>1, <2>1, <2>4
  <2> QED
    BY <2>5 DEF pos
<1> HIDE DEF S
<1>4. \A i \in 0 .. BYTES : i \in S
  BY <1>2, <1>3, Bases, UpTo
<1>5. ASSUME NEW pos \in 1 .. BYTES + 1 PROVE c[pos] \in Nat
  <2>1. BYTES + 1 - pos \in 0 .. BYTES /\ BYTES + 1 - (BYTES + 1 - pos) = pos
    BY Bases
  <2>2. BYTES + 1 - pos \in S
    BY <1>4, <2>1
  <2> QED
    BY <2>1, <2>2 DEF S
<1>6. c = [pos \in 1 .. BYTES + 1 |-> c[pos]]
  BY DEF Carries
<1> QED
  BY <1>1, <1>5, <1>6

\* What the digits of the result stand for: the terms, but for the last carry.
LEMMA CarrySum ==
  ASSUME NEW t \in Numbers, NEW c, Carries(c, t),
         NEW r, r = [pos \in 1 .. BYTES |-> (t[pos] + c[pos+1]) % BASE]
  PROVE  /\ r \in Array
         /\ c[1] \in Nat
         /\ Value(t) = Value(r) + c[1] * Pow[BYTES]
<1>1. /\ c \in [1 .. BYTES + 1 -> Nat]
      /\ c[BYTES + 1] = 0
      /\ \A pos \in 1 .. BYTES : c[pos] = (t[pos] + c[pos+1]) \div BASE
  BY CarriesAre
<1>2. ASSUME NEW pos \in 1 .. BYTES
      PROVE  /\ t[pos] \in Nat /\ c[pos] \in Nat /\ c[pos+1] \in Nat
             /\ r[pos] \in 0 .. BASE - 1
             /\ t[pos] + c[pos+1] = BASE * c[pos] + r[pos]
  <2>1. t[pos] \in Nat
    BY DEF Numbers
  <2>2. c[pos] \in Nat /\ c[pos+1] \in Nat
    BY <1>1, Bases
  <2>3. r[pos] = (t[pos] + c[pos+1]) % BASE
    OBVIOUS
  <2> DEFINE x == t[pos] + c[pos+1]
  <2>4. x \in Nat
    BY <2>1, <2>2
  <2>5. c[pos] = x \div BASE
    BY <1>1
  <2> HIDE DEF x
  <2>6. r[pos] = x % BASE
    BY <2>3 DEF x
  <2>7. x % BASE \in 0 .. BASE - 1 /\ x = BASE * (x \div BASE) + (x % BASE)
    BY <2>4, Bases, DivMod
  <2> QED
    BY <2>1, <2>2, <2>5, <2>6, <2>7 DEF x
<1>3. r \in Array
  BY <1>2 DEF Array, Digit
<1>4. r \in Numbers
  BY <1>3, ArrayNumbers
<1>5. PICK P : Reads(P, t) /\ Value(t) = P[BYTES]
  BY PrefixExists
<1>6. PICK R : Reads(R, r) /\ Value(r) = R[BYTES]
  BY <1>4, PrefixExists
<1>7. c[1] \in Nat
  BY <1>1, Bases
<1> DEFINE S == {i \in 0 .. BYTES : P[i] + c[i+1] = R[i] + c[1] * Pow[i]}
<1>8. 0 \in S
  <2>1. P[0] = 0 /\ R[0] = 0 /\ Pow[0] = 1 /\ c[0+1] = c[1]
    BY <1>5, <1>6, PowFacts DEF Reads
  <2>2. c[1] * 1 = c[1]
    BY <1>7
  <2> QED
    BY <1>7, <2>1, <2>2, Bases
<1>9. ASSUME NEW i \in 1 .. BYTES, i-1 \in S PROVE i \in S
  <2>1. i - 1 \in Nat /\ (i - 1) + 1 = i /\ i - 1 \in 0 .. BYTES /\ i \in 0 .. BYTES
    BY Bases
  <2>2. Pow[i] = BASE * Pow[i-1] /\ Pow[i-1] \in Nat
    BY <2>1, PowFacts
  <2>3. P[i] = P[i-1] * BASE + t[i] /\ P[i-1] \in Nat /\ R[i] = R[i-1] * BASE + r[i] /\ R[i-1] \in Nat
    BY <1>5, <1>6, <2>1 DEF Reads
  <2>4. P[i-1] + c[i] = R[i-1] + c[1] * Pow[i-1]
    BY <1>9, <2>1
  <2>5. t[i] \in Nat /\ c[i] \in Nat /\ c[i+1] \in Nat /\ r[i] \in Nat /\ t[i] + c[i+1] = BASE * c[i] + r[i]
    BY <1>2, Bases
  <2> DEFINE p == P[i-1]
             q == R[i-1]
             u == c[i]
             v == Pow[i-1]
             w == t[i]
             x == c[i+1]
             y == r[i]
             z == c[1]
  <2>6. (p * BASE + w) + x = (q * BASE + y) + z * (BASE * v)
    <3>1. p \in Nat /\ q \in Nat /\ u \in Nat /\ v \in Nat /\ w \in Nat /\ x \in Nat /\ y \in Nat /\ z \in Nat
      BY <1>7, <2>2, <2>3, <2>5
    <3>2. p + u = q + z * v /\ w + x = BASE * u + y
      BY <2>4, <2>5
    <3> HIDE DEF p, q, u, v, w, x, y, z
    <3>3. (p + u) * BASE = (q + z * v) * BASE
      BY <3>2
    <3>4. (p + u) * BASE = p * BASE + BASE * u
      BY <3>1, Bases
    <3>5. (q + z * v) * BASE = q * BASE + z * (BASE * v)
      BY <3>1, Bases
    <3> DEFINE A == p * BASE
               B == BASE * u
               C == q * BASE
               D == z * (BASE * v)
    <3>6. A \in Nat /\ B \in Nat /\ C \in Nat /\ D \in Nat
      BY <3>1, Bases, MulType
    <3>7. A + B = C + D /\ w + x = B + y
      BY <3>2, <3>3, <3>4, <3>5
    <3> HIDE DEF A, B, C, D
    <3>8. (A + w) + x = (C + y) + D
      BY <3>1, <3>6, <3>7
    <3> QED
      BY <3>8 DEF A, C, D
  <2>7. P[i] + c[i+1] = R[i] + c[1] * Pow[i]
    BY <2>2, <2>3, <2>6
  <2> QED
    BY <2>7
<1> HIDE DEF S
<1>10. BYTES \in S
  <2>1. \A i \in 0 .. BYTES : i \in S
    BY <1>8, <1>9, Bases, UpTo
  <2> QED
    BY <2>1, Bases
<1>11. P[BYTES] + 0 = R[BYTES] + c[1] * Pow[BYTES]
  BY <1>1, <1>10 DEF S
<1>12. P[BYTES] \in Nat
  BY <1>5, Bases DEF Reads
<1> QED
  BY <1>3, <1>5, <1>6, <1>7, <1>11, <1>12

\* The last carry is zero when there is room for the result.
LEMMA NoCarry ==
  ASSUME NEW r \in Array, NEW n \in Nat, n < Pow[BYTES], NEW c \in Nat,
         n = Value(r) + c * Pow[BYTES]
  PROVE  n = Value(r)
<1>1. Pow[BYTES] \in Nat \ {0} /\ Value(r) \in Nat
  BY PowPos, ValueBound, Bases
<1>2. c > 0 => c * Pow[BYTES] >= Pow[BYTES] /\ c * Pow[BYTES] \in Nat
  BY <1>1, MulPos, MulType
<1>3. c = 0
  BY <1>1, <1>2
<1>4. 0 * Pow[BYTES] = 0
  BY <1>1
<1> QED
  BY <1>1, <1>3, <1>4

LEMMA AddIs ==
  ASSUME NEW a \in Array, NEW b \in Array
  PROVE  /\ AddInPlace(a, b) \in Array
         /\ Value(a) + Value(b) < Pow[BYTES]
              => Value(AddInPlace(a, b)) = Value(a) + Value(b)
<1> DEFINE t == [pos \in 1 .. BYTES |-> a[pos] + b[pos]]
           Rec(g) == g = [pos \in 1 .. BYTES + 1 |->
                            IF pos > BYTES THEN 0 ELSE (a[pos] + b[pos] + g[pos+1]) \div BASE]
           c == CHOOSE g : Rec(g)
           r == [pos \in 1 .. BYTES |-> (a[pos] + b[pos] + c[pos+1]) % BASE]
<1>1. a \in Numbers /\ b \in Numbers
  BY ArrayNumbers
<1>2. t \in Numbers
  BY <1>1 DEF Numbers
<1>3. \A pos \in 1 .. BYTES : t[pos] = a[pos] + b[pos]
  OBVIOUS
<1> HIDE DEF t
<1>4. ASSUME NEW g PROVE Rec(g) <=> Carries(g, t)
  <2>1. \A pos \in 1 .. BYTES + 1 : ~ (pos > BYTES) => pos \in 1 .. BYTES
    BY Bases
  <2>2. [pos \in 1 .. BYTES + 1 |->
           IF pos > BYTES THEN 0 ELSE (a[pos] + b[pos] + g[pos+1]) \div BASE]
        = [pos \in 1 .. BYTES + 1 |->
             IF pos > BYTES THEN 0 ELSE (t[pos] + g[pos+1]) \div BASE]
    BY <1>3, <2>1
  <2> QED
    BY <2>2 DEF Carries
<1>5. \E g : Rec(g)
  BY <1>2, <1>4, CarriesExist
<1>6. Rec(c)
  BY <1>5
<1>7. AddInPlace(a, b) = r
  BY DEF AddInPlace
<1> HIDE DEF Rec, c
<1>8. Carries(c, t)
  BY <1>4, <1>6
<1>9. r = [pos \in 1 .. BYTES |-> (t[pos] + c[pos+1]) % BASE]
  BY <1>3
<1> HIDE DEF r
<1>10. /\ r \in Array
       /\ c[1] \in Nat
       /\ Value(t) = Value(r) + c[1] * Pow[BYTES]
  BY <1>2, <1>8, <1>9, CarrySum
<1>11. Value(t) = Value(a) + Value(b)
  <2>1. PICK P : Reads(P, a) /\ Value(a) = P[BYTES]
    BY <1>1, PrefixExists
  <2>2. PICK Q : Reads(Q, b) /\ Value(b) = Q[BYTES]
    BY <1>1, PrefixExists
  <2> DEFINE R == [i \in 0 .. BYTES |-> P[i] + Q[i]]
  <2>3. R \in [0 .. BYTES -> Nat] /\ R[0] = 0
    BY <2>1, <2>2, Bases DEF Reads
  <2>4. ASSUME NEW i \in 1 .. BYTES PROVE R[i] = R[i-1] * BASE + t[i]
    <3>1. i \in 0 .. BYTES /\ i - 1 \in 0 .. BYTES
      BY Bases
    <3>2. P[i-1] \in Nat /\ Q[i-1] \in Nat /\ a[i] \in Nat /\ b[i] \in Nat
      BY <2>1, <2>2, <3>1, ArrayNumbers DEF Reads
    <3>3. P[i] = P[i-1] * BASE + a[i] /\ Q[i] = Q[i-1] * BASE + b[i]
      BY <2>1, <2>2 DEF Reads
    <3>4. (P[i-1] + Q[i-1]) * BASE = P[i-1] * BASE + Q[i-1] * BASE
      BY <3>2, Bases, MulLaws
    <3>5. P[i-1] * BASE \in Nat /\ Q[i-1] * BASE \in Nat
      BY <3>2, Bases, MulType
    <3>6. R[i] = P[i] + Q[i] /\ R[i-1] = P[i-1] + Q[i-1]
      BY <3>1
    <3> QED
      BY <1>3, <3>2, <3>3, <3>4, <3>5, <3>6
  <2>5. R[BYTES] = P[BYTES] + Q[BYTES]
    BY Bases
  <2> HIDE DEF R
  <2>6. Reads(R, t)
    BY <2>3, <2>4 DEF Reads
  <2> QED
    BY <1>2, <2>1, <2>2, <2>5, <2>6, ValueIs
<1>12. Value(a) + Value(b) \in Nat
  BY <1>1, ValueType
<1> QED
  BY <1>7, <1>10, <1>11, <1>12, NoCarry

LEMMA MulIs ==
  ASSUME NEW a \in Array, NEW m \in Nat
  PROVE  /\ MulInPlace(a, m) \in Array
         /\ Value(a) * m < Pow[BYTES] => Value(MulInPlace(a, m)) = Value(a) * m
<1> DEFINE t == [pos \in 1 .. BYTES |-> a[pos] * m]
           Rec(g) == g = [pos \in 1 .. BYTES + 1 |->
                            IF pos > BYTES THEN 0 ELSE (a[pos] * m + g[pos+1]) \div BASE]
           c == CHOOSE g : Rec(g)
           r == [pos \in 1 .. BYTES |-> (a[pos] * m + c[pos+1]) % BASE]
<1>1. a \in Numbers
  BY ArrayNumbers
<1>2. t \in Numbers
  <2>1. \A pos \in 1 .. BYTES : a[pos] * m \in Nat
    BY ArrayNumbers, MulType
  <2> QED
    BY <2>1 DEF Numbers
<1>3. \A pos \in 1 .. BYTES : t[pos] = a[pos] * m
  OBVIOUS
<1> HIDE DEF t
<1>4. ASSUME NEW g PROVE Rec(g) <=> Carries(g, t)
  <2>1. \A pos \in 1 .. BYTES + 1 : ~ (pos > BYTES) => pos \in 1 .. BYTES
    BY Bases
  <2>2. [pos \in 1 .. BYTES + 1 |->
           IF pos > BYTES THEN 0 ELSE (a[pos] * m + g[pos+1]) \div BASE]
        = [pos \in 1 .. BYTES + 1 |->
             IF pos > BYTES THEN 0 ELSE (t[pos] + g[pos+1]) \div BASE]
    BY <1>3, <2>1
  <2> QED
    BY <2>2 DEF Carries
<1>5. \E g : Rec(g)
  BY <1>2, <1>4, CarriesExist
<1>6. Rec(c)
  BY <1>5
<1>7. MulInPlace(a, m) = r
  BY DEF MulInPlace
<1> HIDE DEF Rec, c
<1>8. Carries(c, t)
  BY <1>4, <1>6
<1>9. r = [pos \in 1 .. BYTES |-> (t[pos] + c[pos+1]) % BASE]
  BY <1>3
<1> HIDE DEF r
<1>10. /\ r \in Array
       /\ c[1] \in Nat
       /\ Value(t) = Value(r) + c[1] * Pow[BYTES]
  BY <1>2, <1>8, <1>9, CarrySum
<1>11. Value(t) = Value(a) * m
  <2>1. PICK P : Reads(P, a) /\ Value(a) = P[BYTES]
    BY <1>1, PrefixExists
  <2> DEFINE R == [i \in 0 .. BYTES |-> P[i] * m]
  <2>2. \A i \in 0 .. BYTES : P[i] \in Nat /\ P[i] * m \in Nat
    BY <2>1, MulType DEF Reads
  <2>3. R \in [0 .. BYTES -> Nat] /\ R[0] = 0
    <3>1. P[0] * m = 0
      BY <2>1 DEF Reads
    <3> QED
      BY <2>2, <3>1, Bases
  <2>4. ASSUME NEW i \in 1 .. BYTES PROVE R[i] = R[i-1] * BASE + t[i]
    <3>1. i \in 0 .. BYTES /\ i - 1 \in 0 .. BYTES
      BY Bases
    <3>2. P[i-1] \in Nat /\ a[i] \in Nat
      BY <2>2, <3>1, ArrayNumbers
    <3>3. P[i] = P[i-1] * BASE + a[i]
      BY <2>1 DEF Reads
    <3>4. (P[i-1] * BASE + a[i]) * m = (P[i-1] * m) * BASE + a[i] * m
      BY <3>2, Bases
    <3>5. R[i] = P[i] * m /\ R[i-1] = P[i-1] * m
      BY <3>1
    <3> QED
      BY <1>3, <3>3, <3>4, <3>5
  <2>5. R[BYTES] = P[BYTES] * m
    BY Bases
  <2> HIDE DEF R
  <2>6. Reads(R, t)
    BY <2>3, <2>4 DEF Reads
  <2> QED
    BY <1>2, <2>1, <2>5, <2>6, ValueIs
<1>12. Value(a) * m \in Nat
  BY <1>1, ValueType, MulType
<1> QED
  BY <1>7, <1>10, <1>11, <1>12, NoCarry

LEMMA DivIs ==
  ASSUME NEW a \in Array, NEW d \in Nat, d > 0
  PROVE  /\ DivInPlace(a, d) \in Array
         /\ Value(DivInPlace(a, d)) = Value(a) \div d
<1> DEFINE D == 0 .. d - 1
           step == [i \in 1 .. BYTES |-> [x \in Nat |-> ((a[i] + x) % d) * BASE]]
           Rec(g) == g = [i \in 0 .. BYTES |->
                            IF i = 0 THEN 0 ELSE ((a[i] + g[i-1]) % d) * BASE]
           c == CHOOSE g : Rec(g)
           q == [i \in 1 .. BYTES |-> (a[i] + c[i-1]) \div d]
<1>1. \A i \in 1 .. BYTES : \A x \in Nat : ((a[i] + x) % d) * BASE \in Nat
  <2> TAKE i \in 1 .. BYTES
  <2> TAKE x \in Nat
  <2>1. a[i] + x \in Nat
    BY ArrayNumbers
  <2>2. (a[i] + x) % d \in Nat
    BY <2>1, DivMod
  <2> QED
    BY <2>2, Bases, MulType
<1>2. IsStep(step, BYTES, Nat)
  BY <1>1 DEF IsStep
<1>3. \A i \in 1 .. BYTES : \A x \in Nat : step[i][x] = ((a[i] + x) % d) * BASE
  OBVIOUS
<1> HIDE DEF step
<1>4. PICK f : Iterates(f, BYTES, Nat, 0, step)
  BY <1>2, Bases, IterationExists
<1>5. ASSUME NEW i \in 1 .. BYTES PROVE f[i] = ((a[i] + f[i-1]) % d) * BASE
  <2>1. f[i-1] \in Nat /\ f[i] = step[i][f[i-1]]
    BY <1>4, Bases DEF Iterates
  <2> QED
    BY <1>3, <2>1
<1>6. Rec(f)
  BY <1>4, <1>5, Bases DEF Iterates
<1>7. Rec(c)
  BY <1>6
<1>8. DivInPlace(a, d) = q
  BY DEF DivInPlace
<1> HIDE DEF c
<1>9. c[0] = 0 /\ \A i \in 1 .. BYTES : c[i] = ((a[i] + c[i-1]) % d) * BASE
  BY <1>7, Bases
<1>10. \A i \in 0 .. BYTES : c[i] \in Nat
  <2> DEFINE S == {i \in 0 .. BYTES : c[i] \in Nat}
  <2>1. 0 \in S
    BY <1>9, Bases
  <2>2. \A i \in 1 .. BYTES : i-1 \in S => i \in S
    BY <1>1, <1>9
  <2> HIDE DEF S
  <2>3. \A i \in 0 .. BYTES : i \in S
    BY <2>1, <2>2, Bases, UpTo
  <2> QED
    BY <2>3 DEF S
\* The remainders themselves, which the loop keeps times the base.
<1> DEFINE rem == [i \in 0 .. BYTES |-> IF i = 0 THEN 0 ELSE (a[i] + c[i-1]) % d]
<1>11. ASSUME NEW i \in 1 .. BYTES
       PROVE  /\ i - 1 \in 0 .. BYTES /\ a[i] \in Nat /\ a[i] < BASE
              /\ rem[i] \in Nat /\ rem[i] < d /\ q[i] \in Nat
              /\ a[i] + c[i-1] = d * q[i] + rem[i]
              /\ c[i] = rem[i] * BASE
  <2>1. i - 1 \in 0 .. BYTES /\ a[i] \in Nat /\ a[i] < BASE
    BY Bases, ArrayNumbers
  <2> DEFINE x == a[i] + c[i-1]
  <2>2. x \in Nat
    BY <1>10, <2>1
  <2>3. q[i] = x \div d /\ rem[i] = x % d
    BY Bases
  <2>4. c[i] = (x % d) * BASE
    BY <1>9
  <2> HIDE DEF x, q, rem
  <2>5. x \div d \in Nat /\ x % d \in 0 .. d - 1 /\ x = d * (x \div d) + (x % d)
    BY <2>2, DivMod
  <2> QED
    BY <2>1, <2>3, <2>4, <2>5 DEF x
<1>12. rem[0] = 0
  BY Bases
<1> HIDE DEF rem
<1>13. ASSUME NEW i \in 0 .. BYTES
       PROVE  c[i] = rem[i] * BASE /\ rem[i] \in Nat /\ rem[i] < d
  <2>1. CASE i = 0
    BY <2>1, <1>9, <1>12, Bases
  <2>2. CASE i # 0
    <3>1. i \in 1 .. BYTES
      BY <2>2, Bases
    <3> QED
      BY <3>1, <1>11
  <2> QED
    BY <2>1, <2>2
<1>14. ASSUME NEW i \in 1 .. BYTES
       PROVE  q[i] \in Digit
  <2>1. i - 1 \in 0 .. BYTES /\ a[i] \in Nat /\ a[i] < BASE
        /\ rem[i] \in Nat /\ q[i] \in Nat /\ a[i] + c[i-1] = d * q[i] + rem[i]
    BY <1>11
  <2>2. c[i-1] = rem[i-1] * BASE /\ rem[i-1] \in Nat /\ rem[i-1] + 1 <= d
    BY <1>13, <2>1
  <2> DEFINE x == rem[i-1]
             y == q[i]
             z == rem[i]
  <2> HIDE DEF x, y, z
  <2>3. x \in Nat /\ x + 1 <= d /\ y \in Nat /\ z \in Nat /\ a[i] + x * BASE = d * y + z
    BY <2>1, <2>2 DEF x, y, z
  <2>4. (x + 1) * BASE <= d * BASE /\ (x + 1) * BASE = x * BASE + BASE
    BY <2>3, Bases, MulOrder, MulLaws
  <2>5. d * BASE \in Nat /\ x * BASE \in Nat /\ d * y \in Nat
    BY <2>3, Bases, MulType
  <2>6. d * y < d * BASE
    BY <2>1, <2>3, <2>4, <2>5, Bases
  <2>7. y < BASE
    <3>1. ASSUME BASE <= y PROVE FALSE
      <4>1. d * BASE <= d * y
        BY <3>1, <2>3, Bases, MulOrder
      <4> QED
        BY <2>5, <2>6, <4>1
    <3> QED
      BY <3>1, <2>3, Bases
  <2> QED
    BY <2>3, <2>7, Bases DEF Digit, y
<1>15. q \in Array
  BY <1>14 DEF Array
<1>16. q \in Numbers
  BY <1>15, ArrayNumbers
<1> HIDE DEF q
<1>17. PICK P : Reads(P, a) /\ Value(a) = P[BYTES]
  BY ArrayNumbers, PrefixExists
<1>18. PICK Q : Reads(Q, q) /\ Value(q) = Q[BYTES]
  BY <1>16, PrefixExists
<1> DEFINE S == {i \in 0 .. BYTES : P[i] = d * Q[i] + rem[i]}
<1>19. 0 \in S
  BY <1>12, <1>17, <1>18, Bases DEF Reads
<1>20. ASSUME NEW i \in 1 .. BYTES, i-1 \in S PROVE i \in S
  <2>1. P[i] = P[i-1] * BASE + a[i] /\ Q[i] = Q[i-1] * BASE + q[i]
    BY <1>17, <1>18 DEF Reads
  <2>2. i - 1 \in 0 .. BYTES /\ a[i] \in Nat /\ rem[i] \in Nat /\ q[i] \in Nat
        /\ a[i] + c[i-1] = d * q[i] + rem[i]
    BY <1>11
  <2>3. c[i-1] = rem[i-1] * BASE /\ rem[i-1] \in Nat
    BY <1>13, <2>2
  <2>4. Q[i-1] \in Nat /\ P[i-1] = d * Q[i-1] + rem[i-1]
    BY <1>18, <1>20, <2>2 DEF Reads
  <2> DEFINE u == Q[i-1]
             v == rem[i-1]
             w == a[i]
             x == q[i]
             y == rem[i]
  <2>5. (d * u + v) * BASE + w = d * (u * BASE + x) + y
    <3>1. u \in Nat /\ v \in Nat /\ w \in Nat /\ x \in Nat /\ y \in Nat /\ w + v * BASE = d * x + y
      BY <2>2, <2>3, <2>4
    <3> HIDE DEF u, v, w, x, y
    <3>2. (d * u + v) * BASE = (d * u) * BASE + v * BASE
      BY <3>1, Bases
    <3>3. d * (u * BASE + x) = (d * u) * BASE + d * x
      BY <3>1, Bases
    <3> DEFINE A == (d * u) * BASE
               B == v * BASE
               C == d * x
    <3>4. A \in Nat /\ B \in Nat /\ C \in Nat
      BY <3>1, Bases, MulType
    <3>5. w + B = C + y
      BY <3>1
    <3> HIDE DEF A, B, C
    <3>6. (A + B) + w = (A + C) + y
      BY <3>1, <3>4, <3>5
    <3> QED
      BY <3>2, <3>3, <3>6 DEF A, B, C
  <2>6. P[i] = d * Q[i] + rem[i]
    BY <2>1, <2>4, <2>5
  <2> QED
    BY <2>6
<1> HIDE DEF S
<1>21. \A i \in 0 .. BYTES : i \in S
  BY <1>19, <1>20, Bases, UpTo
<1>22. P[BYTES] = d * Q[BYTES] + rem[BYTES]
  BY <1>21, Bases DEF S
<1>23. Q[BYTES] \in Nat /\ rem[BYTES] \in 0 .. d - 1
  BY <1>13, <1>18, Bases DEF Reads
<1>24. P[BYTES] \div d = Q[BYTES]
  BY <1>22, <1>23, DivUnique
<1> QED
  BY <1>8, <1>15, <1>17, <1>18, <1>24

-----------------------------------------------------------------------------
(***************************************************************************)
(* Compact targets.                                                        *)
(***************************************************************************)

LEMMA SmallPowers == Pow[1] = BASE /\ Pow[2] = BASE * BASE /\ Pow[3] = BASE * (BASE * BASE)
<1>1. Pow[0+1] = BASE * Pow[0] /\ Pow[1+1] = BASE * Pow[1] /\ Pow[2+1] = BASE * Pow[2]
  BY PowFacts
<1> QED
  BY <1>1, PowFacts, Bases

\* Three digits are those of the number they make.
LEMMA ThreeDigits ==
  ASSUME NEW x \in Digit, NEW y \in Digit, NEW z \in Digit,
         NEW n, n = (x * BASE + y) * BASE + z
  PROVE  /\ n \in Nat
         /\ n \div BASE = x * BASE + y
         /\ n \div (BASE * BASE) = x
         /\ (n \div BASE) % BASE = y
         /\ n % BASE = z
<1>1. x \in Nat /\ y \in 0 .. BASE - 1 /\ z \in 0 .. BASE - 1
  BY Bases DEF Digit
<1>2. x * BASE + y \in Nat
  BY <1>1, Bases, MulType
<1> DEFINE m == x * BASE + y
<1>3. m = BASE * x + y
  BY <1>1, Bases
<1>4. m \div BASE = x /\ m % BASE = y
  BY <1>1, <1>3, Bases, DivUnique
<1> HIDE DEF m
<1>5. n = BASE * m + z /\ n \in Nat
  BY <1>1, <1>2, Bases, MulType DEF m
<1>6. n \div BASE = m /\ n % BASE = z
  BY <1>1, <1>2, <1>5, Bases, DivUnique DEF m
<1>7. (n \div BASE) \div BASE = n \div (BASE * BASE)
  BY <1>5, Bases, DivDiv
<1> QED
  BY <1>4, <1>5, <1>6, <1>7 DEF m

LEMMA WordDigits ==
  ASSUME NEW nbits \in Nbits
  PROVE  /\ nbits.size \in 0 .. BYTES + 1
         /\ nbits.word[1] \in Digit /\ nbits.word[2] \in Digit /\ nbits.word[3] \in Digit
BY DEF Nbits

LEMMA TargetDigits ==
  ASSUME NEW nbits \in Nbits, NbitsToTargetDefined(nbits), nbits.word[1] < BASE \div 2
  PROVE  /\ NbitsToTarget(nbits) \in Array
         /\ \A pos \in 1 .. BYTES :
              NbitsToTarget(nbits)[pos] =
                IF pos - (BYTES - nbits.size) \in 1 .. 3
                THEN nbits.word[pos - (BYTES - nbits.size)] ELSE 0
<1> DEFINE w == [nbits.word EXCEPT ![1] = @ % (BASE \div 2)]
<1>1. nbits.word \in [1 .. 3 -> Digit]
  BY DEF Nbits
<1>2. nbits.word[1] % (BASE \div 2) = nbits.word[1]
  <2>1. nbits.word[1] \in Nat
    BY <1>1, Bases DEF Digit
  <2> QED
    BY <2>1, Bases
<1>3. w = nbits.word
  BY <1>1, <1>2
<1> HIDE DEF w
<1>4. NbitsToTarget(nbits) =
        [pos \in 1 .. BYTES |-> IF pos - (BYTES - nbits.size) \in 1 .. 3
                                THEN w[pos - (BYTES - nbits.size)] ELSE 0]
  BY DEF NbitsToTarget, w
<1>5. 0 \in Digit
  BY Bases DEF Digit
<1> QED
  BY <1>1, <1>3, <1>4, <1>5 DEF Array

\* The target has the value of its compact form.
LEMMA TargetIsExpand ==
  ASSUME NEW nbits \in Nbits, NbitsToTargetDefined(nbits), nbits.word[1] < BASE \div 2
  PROVE  Value(NbitsToTarget(nbits)) = Bitcoin!Expand(nbits)
<1> DEFINE t == NbitsToTarget(nbits)
           k == nbits.size
           start == BYTES - k
           x == nbits.word[1]
           y == nbits.word[2]
           z == nbits.word[3]
           n == (x * BASE + y) * BASE + z
<1>1. k \in Nat /\ k <= BYTES /\ start \in Nat /\ start + k = BYTES
  BY WordDigits, Bases DEF NbitsToTargetDefined
<1>2. x \in Digit /\ y \in Digit /\ z \in Digit
  BY WordDigits
<1>3. t \in Array
      /\ \A pos \in 1 .. BYTES :
           t[pos] = IF pos - start \in 1 .. 3 THEN nbits.word[pos - start] ELSE 0
  BY TargetDigits
<1>4. Bitcoin!Expand(nbits) = IF k >= 3 THEN n * Pow[k - 3] ELSE n \div Pow[3 - k]
  BY DEF Bitcoin!Expand, Pow
<1> HIDE DEF t, k, start
<1>5. PICK P : Reads(P, t) /\ Value(t) = P[BYTES]
  BY <1>3, ArrayNumbers, PrefixExists
<1>6. P[start] = 0
  <2>1. \A pos \in 0 + 1 .. start : t[pos] = 0
    BY <1>1, <1>3, Bases
  <2>2. 0 \in 0 .. BYTES /\ start \in 0 .. BYTES /\ P[0] = 0
    BY <1>1, <1>5, Bases DEF Reads
  <2>3. P[start] = P[0] * Pow[start - 0]
    BY <1>3, <1>5, <2>1, <2>2, PrefixZeros
  <2>4. Pow[start - 0] \in Nat
    BY <1>1, PowPos
  <2> QED
    BY <2>2, <2>3, <2>4
<1>7. x \in Nat /\ y \in Nat /\ z \in Nat
  BY <1>2, Bases DEF Digit
<1>8. k >= 1 => P[start + 1] = x
  <2> SUFFICES ASSUME k >= 1 PROVE P[start + 1] = x
    OBVIOUS
  <2>1. start + 1 \in 1 .. BYTES /\ (start + 1) - 1 = start /\ (start + 1) - start = 1
    BY <1>1, Bases
  <2>2. t[start + 1] = x
    BY <1>3, <2>1
  <2>3. P[start + 1] = P[start] * BASE + t[start + 1]
    BY <1>5, <2>1 DEF Reads
  <2> QED
    BY <1>6, <1>7, <2>2, <2>3, Bases
<1>9. k >= 2 => P[start + 2] = x * BASE + y
  <2> SUFFICES ASSUME k >= 2 PROVE P[start + 2] = x * BASE + y
    OBVIOUS
  <2>1. start + 2 \in 1 .. BYTES /\ (start + 2) - 1 = start + 1 /\ (start + 2) - start = 2
    BY <1>1, Bases
  <2>2. t[start + 2] = y
    BY <1>3, <2>1
  <2>3. P[start + 2] = P[start + 1] * BASE + t[start + 2]
    BY <1>5, <2>1 DEF Reads
  <2> QED
    BY <1>1, <1>8, <2>2, <2>3
<1>10. k >= 3 => P[start + 3] = n
  <2> SUFFICES ASSUME k >= 3 PROVE P[start + 3] = n
    OBVIOUS
  <2>1. start + 3 \in 1 .. BYTES /\ (start + 3) - 1 = start + 2 /\ (start + 3) - start = 3
    BY <1>1, Bases
  <2>2. t[start + 3] = z
    BY <1>3, <2>1
  <2>3. P[start + 3] = P[start + 2] * BASE + t[start + 3]
    BY <1>5, <2>1 DEF Reads
  <2> QED
    BY <1>1, <1>9, <2>2, <2>3
<1>11. n \in Nat /\ n \div BASE = x * BASE + y /\ n \div (BASE * BASE) = x
  BY <1>2, ThreeDigits
<1>12. CASE k >= 3
  <2>1. \A pos \in (start + 3) + 1 .. BYTES : t[pos] = 0
    BY <1>1, <1>3, <1>12, Bases
  <2>2. start + 3 \in 0 .. BYTES /\ BYTES \in start + 3 .. BYTES /\ BYTES - (start + 3) = k - 3
    BY <1>1, <1>12, Bases
  <2> HIDE DEF start
  <2>3. P[BYTES] = P[start + 3] * Pow[BYTES - (start + 3)]
    BY <1>3, <1>5, <2>1, <2>2, PrefixZeros
  <2> QED
    BY <1>4, <1>5, <1>10, <1>12, <2>2, <2>3 DEF t, k, start
<1>13. CASE k = 2
  <2>1. start + 2 = BYTES
    BY <1>1, <1>13, Bases
  <2>2. Pow[3 - k] = BASE
    BY <1>13, SmallPowers
  <2>3. Value(t) = x * BASE + y
    BY <1>5, <1>9, <1>13, <2>1
  <2> QED
    BY <1>4, <1>11, <1>13, <2>2, <2>3 DEF t, k, start
<1>14. CASE k = 1
  <2>1. start + 1 = BYTES
    BY <1>1, <1>14, Bases
  <2>2. Pow[3 - k] = BASE * BASE
    BY <1>14, SmallPowers
  <2>3. Value(t) = x
    BY <1>5, <1>8, <1>14, <2>1
  <2> QED
    BY <1>4, <1>11, <1>14, <2>2, <2>3 DEF t, k, start
<1>15. CASE k = 0
  <2>1. start = BYTES
    BY <1>1, <1>15, Bases
  <2>2. Pow[3 - k] = BASE * (BASE * BASE)
    BY <1>15, SmallPowers
  <2>3. n \div (BASE * (BASE * BASE)) = 0
    <3>1. BASE * BASE \in Nat /\ BASE * BASE > 0
      BY Bases, MulType, MulPos
    <3>2. (n \div (BASE * BASE)) \div BASE = n \div ((BASE * BASE) * BASE)
      <4> DEFINE sq == BASE * BASE
      <4>1. sq \in Nat /\ sq > 0 /\ BASE \in Nat /\ BASE > 0 /\ n \in Nat
        BY <1>11, <3>1, Bases
      <4> HIDE DEF sq, n
      <4>2. (n \div sq) \div BASE = n \div (sq * BASE)
        BY <4>1, DivDiv
      <4> QED
        BY <4>2 DEF sq
    <3>3. x \div BASE = 0
      BY <1>2, Bases DEF Digit
    <3>4. (BASE * BASE) * BASE = BASE * (BASE * BASE)
      BY Bases
    <3> QED
      BY <1>11, <3>2, <3>3, <3>4
  <2> QED
    BY <1>4, <1>5, <1>6, <1>15, <2>1, <2>2, <2>3 DEF t, k, start
<1> QED
  BY <1>1, <1>12, <1>13, <1>14, <1>15

\* The first digit that is not zero.
LEMMA FirstDigit ==
  ASSUME NEW t \in Array, NonZero(t) # {}, NEW P, Reads(P, t),
         NEW i, i = Min(NonZero(t))
  PROVE  /\ i \in 1 .. BYTES
         /\ t[i] > 0
         /\ \A j \in 1 .. i-1 : t[j] = 0
         /\ P[i-1] = 0
         /\ P[i] = t[i]
         /\ Pow[BYTES - i] <= P[BYTES]
         /\ P[BYTES] < Pow[BYTES - i + 1]
<1>1. NonZero(t) \in SUBSET Nat
  BY DEF NonZero
<1>2. i \in NonZero(t) /\ \A j \in NonZero(t) : i <= j
  BY <1>1, MinIs
<1>3. i \in 1 .. BYTES /\ t[i] > 0
  BY <1>2 DEF NonZero
<1>4. ASSUME NEW j \in 1 .. i-1 PROVE t[j] = 0
  <2>1. j \in 1 .. BYTES /\ ~ (i <= j)
    BY <1>3, Bases
  <2>2. t[j] \in Nat /\ ~ (t[j] > 0)
    BY <1>2, <2>1, ArrayNumbers DEF NonZero
  <2> QED
    BY <2>2
<1>5. i - 1 \in 0 .. BYTES /\ i \in 0 .. BYTES /\ BYTES \in i .. BYTES /\ BYTES \in i - 1 .. BYTES
      /\ BYTES - i \in Nat /\ BYTES - (i - 1) = BYTES - i + 1 /\ (i - 1) - 0 = i - 1
      /\ 0 \in 0 .. BYTES /\ i - 1 \in 0 .. BYTES
  BY <1>3, Bases
<1>6. P[i-1] = 0
  <2>1. \A j \in 0 + 1 .. i - 1 : t[j] = 0
    BY <1>4
  <2>2. P[i-1] = P[0] * Pow[i - 1]
    BY <1>5, <2>1, PrefixZeros
  <2>3. Pow[i-1] \in Nat /\ P[0] = 0
    BY <1>5, PowPos DEF Reads
  <2> QED
    BY <2>2, <2>3
<1>7. P[i] = t[i]
  <2>1. P[i] = P[i-1] * BASE + t[i] /\ t[i] \in Nat
    BY <1>3, ArrayNumbers DEF Reads
  <2> QED
    BY <1>6, <2>1, Bases
<1>8. Pow[BYTES - i] <= P[BYTES]
  <2>1. PICK s \in 0 .. Pow[BYTES - i] - 1 : P[BYTES] = P[i] * Pow[BYTES - i] + s
    BY <1>5, PrefixSplit
  <2>2. Pow[BYTES - i] \in Nat \ {0} /\ t[i] \in Nat
    BY <1>3, <1>5, PowPos, ArrayNumbers
  <2>3. t[i] * Pow[BYTES - i] >= Pow[BYTES - i] /\ t[i] * Pow[BYTES - i] \in Nat
    BY <1>3, <2>2, MulPos, MulType
  <2> QED
    BY <1>7, <2>1, <2>2, <2>3
<1>9. P[BYTES] < Pow[BYTES - i + 1]
  <2>1. PICK s \in 0 .. Pow[BYTES - i + 1] - 1 : P[BYTES] = P[i-1] * Pow[BYTES - i + 1] + s
    BY <1>5, PrefixSplit
  <2>2. Pow[BYTES - i + 1] \in Nat
    BY <1>5, PowPos
  <2> QED
    BY <1>6, <2>1, <2>2
<1> QED
  BY <1>3, <1>4, <1>6, <1>7, <1>8, <1>9

LEMMA NonZeroIs ==
  ASSUME NEW t \in Array
  PROVE  NonZero(t) = {} <=> Value(t) = 0
<1>1. PICK P : Reads(P, t) /\ Value(t) = P[BYTES]
  BY ArrayNumbers, PrefixExists
<1>2. ASSUME NonZero(t) = {} PROVE Value(t) = 0
  <2>1. \A j \in 0 + 1 .. BYTES : t[j] = 0
    <3> TAKE j \in 0 + 1 .. BYTES
    <3>1. t[j] \in Nat /\ ~ (t[j] > 0)
      BY <1>2, ArrayNumbers DEF NonZero
    <3> QED
      BY <3>1
  <2>2. 0 \in 0 .. BYTES /\ BYTES \in 0 .. BYTES /\ BYTES - 0 \in Nat
    BY Bases
  <2>3. P[BYTES] = P[0] * Pow[BYTES - 0]
    BY <1>1, <2>1, <2>2, PrefixZeros
  <2>4. Pow[BYTES - 0] \in Nat /\ P[0] = 0
    BY <1>1, <2>2, PowPos DEF Reads
  <2> QED
    BY <1>1, <2>3, <2>4
<1>3. ASSUME NonZero(t) # {} PROVE Value(t) > 0
  <2> DEFINE i == Min(NonZero(t))
  <2>1. i \in 1 .. BYTES /\ Pow[BYTES - i] <= P[BYTES]
    BY <1>1, <1>3, FirstDigit
  <2> HIDE DEF i
  <2>2. Pow[BYTES - i] \in Nat \ {0}
    BY <2>1, Bases, PowPos
  <2> QED
    BY <1>1, <2>1, <2>2, Bases DEF Reads
<1> QED
  BY <1>2, <1>3

\* The compact form of an array is that of its value.
LEMMA NbitsIsCompact ==
  ASSUME NEW t \in Array
  PROVE  /\ TargetToNbits(t) = Bitcoin!Compact(Value(t))
         /\ TargetToNbits(t) \in Nbits
         /\ TargetToNbits(t).word[1] < BASE \div 2
<1> DEFINE n == Value(t)
           size == CHOOSE k \in 0 .. n + 1 : Pow[k] > n /\ \A j \in 0 .. k-1 : Pow[j] <= n
           top  == IF size >= 1 THEN n \div Pow[size - 1] ELSE 0
           full == IF top >= BASE \div 2 THEN size + 1 ELSE size
           num  == IF full >= 3 THEN n \div Pow[full - 3] ELSE n * Pow[3 - full]
           triple == <<num \div (BASE * BASE), (num \div BASE) % BASE, num % BASE>>
           n_size == IF NonZero(t) = {} THEN 0 ELSE BYTES + 1 - Min(NonZero(t))
           word == [i \in 1 .. 3 |-> IF n_size >= i THEN t[BYTES - n_size + i] ELSE 0]
<1>1. Bitcoin!Compact(n) = [size |-> full, word |-> triple]
  BY DEF Bitcoin!Compact, Pow
<1>2. TargetToNbits(t) = IF word[1] >= BASE \div 2
                         THEN [size |-> n_size + 1, word |-> <<0, word[1], word[2]>>]
                         ELSE [size |-> n_size, word |-> word]
  BY DEF TargetToNbits
<1>3. n \in Nat
  BY ValueBound
<1>4. BASE \div 2 \in Nat /\ BASE \div 2 > 0 /\ BASE \div 2 < BASE /\ 0 \in Digit
  BY Bases DEF Digit
<1> HIDE DEF n
<1>5. ASSUME NEW k \in 0 .. n + 1, Pow[k] > n, k = 0 \/ Pow[k-1] <= n
      PROVE  size = k
  <2>1. \A j \in 0 .. k-1 : Pow[j] <= n
    <3> TAKE j \in 0 .. k-1
    <3>1. j \in Nat /\ k - 1 \in Nat /\ j <= k - 1 /\ Pow[k-1] <= n
      BY <1>3, <1>5
    <3>2. Pow[j] <= Pow[k-1] /\ Pow[j] \in Nat /\ Pow[k-1] \in Nat
      BY <3>1, PowGrows, PowPos
    <3> QED
      BY <1>3, <3>1, <3>2
  <2>2. ASSUME NEW m \in 0 .. n + 1, Pow[m] > n, \A j \in 0 .. m-1 : Pow[j] <= n
        PROVE  m = k
    <3>1. Pow[m] \in Nat /\ Pow[k] \in Nat
      BY <1>3, PowPos
    <3>2. ~ (m < k)
      BY <1>3, <2>1, <2>2, <3>1
    <3>3. ~ (k < m)
      BY <1>3, <1>5, <2>2, <3>1
    <3> QED
      BY <1>3, <3>2, <3>3
  <2> QED
    BY <1>5, <2>1, <2>2
<1>6. CASE NonZero(t) = {}
  <2>1. n = 0
    BY <1>6, NonZeroIs DEF n
  <2>2. size = 0
    BY <1>5, <2>1, PowFacts
  <2> HIDE DEF size
  <2>3. full = 0
    BY <1>4, <2>2
  <2> HIDE DEF full
  <2>4. num = 0
    <3>1. Pow[3] \in Nat
      BY PowPos
    <3> QED
      BY <2>1, <2>3, <3>1
  <2> HIDE DEF num
  <2>5. triple = <<0, 0, 0>>
    BY <2>4, Bases, ThreeDigits, <1>4
  <2>6. n_size = 0
    BY <1>6
  <2> HIDE DEF n_size
  <2>7. word = <<0, 0, 0>>
    BY <2>6
  <2> HIDE DEF word, triple
  <2>8. TargetToNbits(t) = [size |-> 0, word |-> <<0, 0, 0>>]
    BY <1>2, <1>4, <2>6, <2>7
  <2> QED
    BY <1>1, <1>4, <2>3, <2>5, <2>8, Bases DEF Nbits, n
<1>7. CASE NonZero(t) # {}
  <2>1. PICK P : Reads(P, t) /\ n = P[BYTES]
    BY ArrayNumbers, PrefixExists DEF n
  <2> DEFINE i == Min(NonZero(t))
             k == BYTES + 1 - i
  <2>2. /\ i \in 1 .. BYTES
        /\ t[i] > 0
        /\ P[i-1] = 0
        /\ P[i] = t[i]
        /\ Pow[BYTES - i] <= n
        /\ n < Pow[BYTES - i + 1]
    BY <1>7, <2>1, FirstDigit
  <2>3. n_size = k
    BY <1>7
  <2> HIDE DEF i, n_size
  <2>4. k \in Nat \ {0} /\ k <= BYTES /\ k - 1 = BYTES - i /\ BYTES - i + 1 = k /\ k - 1 \in Nat /\ i = BYTES + 1 - k
    BY <2>2, Bases
  <2> HIDE DEF k
  <2>5. Pow[k-1] <= n /\ n < Pow[k] /\ Pow[k-1] \in Nat \ {0}
    BY <2>2, <2>4, PowPos
  <2>6. k \in 0 .. n + 1
    <3>1. Pow[k-1] > k - 1
      BY <2>4, PowAbove
    <3> QED
      BY <1>3, <2>4, <2>5, <3>1
  <2>7. size = k
    BY <1>5, <2>5, <2>6
  <2> HIDE DEF size
\* The quotient by the power behind a position is the prefix up to it.
  <2>8. ASSUME NEW j \in 0 .. BYTES
        PROVE  n \div Pow[BYTES - j] = P[j]
    <3>1. BYTES \in j .. BYTES /\ BYTES - j \in Nat
      BY Bases
    <3>2. PICK s \in 0 .. Pow[BYTES - j] - 1 : P[BYTES] = P[j] * Pow[BYTES - j] + s
      BY <2>1, <3>1, PrefixSplit
    <3>3. Pow[BYTES - j] \in Nat /\ P[j] \in Nat
      BY <2>1, <3>1, PowPos DEF Reads
    <3>4. P[j] * Pow[BYTES - j] = Pow[BYTES - j] * P[j]
      BY <3>3
    <3> QED
      BY <2>1, <3>2, <3>3, <3>4, DivUnique
  <2> DEFINE x == t[i]
             y == IF k >= 2 THEN t[i+1] ELSE 0
             z == IF k >= 3 THEN t[i+2] ELSE 0
  <2>9. x \in Digit /\ y \in Digit /\ z \in Digit
    <3>1. k >= 2 => i + 1 \in 1 .. BYTES
      BY <2>2, <2>4, Bases
    <3>2. k >= 3 => i + 2 \in 1 .. BYTES
      BY <2>2, <2>4, Bases
    <3> QED
      BY <1>4, <2>2, <3>1, <3>2 DEF Array
  <2>10. x \in Nat /\ y \in Nat /\ z \in Nat
    BY <2>9, Bases DEF Digit
  <2>11. word = <<x, y, z>>
    <3>1. BYTES - n_size + 1 = i /\ BYTES - n_size + 2 = i + 1 /\ BYTES - n_size + 3 = i + 2
      BY <2>2, <2>3, <2>4, Bases
    <3> QED
      BY <2>3, <2>4, <3>1
  <2> HIDE DEF word
  <2>12. top = x
    <3>1. n \div Pow[BYTES - i] = P[i]
      BY <2>2, <2>8, Bases
    <3> QED
      BY <2>2, <2>4, <2>7, <3>1
  <2> HIDE DEF top
  <2>13. k >= 2 => P[i+1] = x * BASE + y
    <3> SUFFICES ASSUME k >= 2 PROVE P[i+1] = x * BASE + y
      OBVIOUS
    <3>1. i + 1 \in 1 .. BYTES /\ (i + 1) - 1 = i
      BY <2>2, <2>4, Bases
    <3>2. P[i+1] = P[i] * BASE + t[i+1]
      BY <2>1, <3>1 DEF Reads
    <3> QED
      BY <2>2, <3>2
  <2>14. k >= 3 => P[i+2] = (x * BASE + y) * BASE + z
    <3> SUFFICES ASSUME k >= 3 PROVE P[i+2] = (x * BASE + y) * BASE + z
      OBVIOUS
    <3>1. i + 2 \in 1 .. BYTES /\ (i + 2) - 1 = i + 1
      BY <2>2, <2>4, Bases
    <3>2. P[i+2] = P[i+1] * BASE + t[i+2]
      BY <2>1, <3>1 DEF Reads
    <3> QED
      BY <2>4, <2>13, <3>2
  <2>15. k = 1 => n = x
    BY <2>1, <2>2, <2>4, Bases
  <2>16. k = 2 => n = x * BASE + y
    <3>1. k = 2 => i + 1 = BYTES
      BY <2>2, <2>4, Bases
    <3> QED
      BY <2>1, <2>13, <3>1
  <2>17. CASE x >= BASE \div 2
    <3>1. full = k + 1
      BY <2>7, <2>12, <2>17
    <3> HIDE DEF full
    <3>2. num = (0 * BASE + x) * BASE + y
      <4>0. 0 * BASE + x = x
        BY <2>10, Bases
      <4>1. CASE k >= 2
        <5>1. i + 1 \in 0 .. BYTES /\ BYTES - (i + 1) = full - 3
          BY <2>2, <2>4, <3>1, <4>1, Bases
        <5>2. n \div Pow[full - 3] = P[i+1]
          BY <2>8, <5>1
        <5> QED
          BY <2>4, <2>13, <3>1, <4>0, <4>1, <5>2
      <4>2. CASE k = 1
        <5>1. y = 0 /\ full = 2 /\ 3 - full = 1
          BY <3>1, <4>2
        <5>2. num = x * BASE
          BY <2>15, <4>2, <5>1, SmallPowers
        <5>3. x * BASE + 0 = x * BASE
          BY <2>10, Bases
        <5> QED
          BY <4>0, <5>1, <5>2, <5>3
      <4> QED
        BY <2>4, <4>1, <4>2
    <3> HIDE DEF num, x, y, z
    <3>3. triple = <<0, x, y>>
      BY <1>4, <2>9, <3>2, ThreeDigits
    <3> HIDE DEF triple
    <3>4. TargetToNbits(t) = [size |-> k + 1, word |-> <<0, x, y>>]
      BY <1>2, <2>3, <2>11, <2>17
    <3> QED
      BY <1>1, <1>4, <2>4, <2>9, <3>1, <3>3, <3>4, Bases DEF Nbits, n
  <2>18. CASE ~ (x >= BASE \div 2)
    <3>1. full = k
      BY <2>7, <2>12, <2>18
    <3> HIDE DEF full
    <3>2. num = (x * BASE + y) * BASE + z
      <4>1. CASE k >= 3
        <5>1. i + 2 \in 0 .. BYTES /\ BYTES - (i + 2) = full - 3
          BY <2>2, <2>4, <3>1, <4>1, Bases
        <5>2. n \div Pow[full - 3] = P[i+2]
          BY <2>8, <5>1
        <5> QED
          BY <2>4, <2>14, <3>1, <4>1, <5>2
      <4>2. CASE k = 2
        <5>1. z = 0 /\ full = 2 /\ 3 - full = 1
          BY <3>1, <4>2
        <5>2. num = (x * BASE + y) * BASE
          BY <2>16, <4>2, <5>1, SmallPowers
        <5>3. (x * BASE + y) * BASE + 0 = (x * BASE + y) * BASE
          BY <2>10, Bases
        <5> QED
          BY <5>1, <5>2, <5>3
      <4>3. CASE k = 1
        <5>1. y = 0 /\ z = 0 /\ full = 1 /\ 3 - full = 2
          BY <3>1, <4>3
        <5>2. num = x * (BASE * BASE)
          BY <2>15, <4>3, <5>1, SmallPowers
        <5>3. (x * BASE + 0) * BASE + 0 = x * (BASE * BASE)
          BY <2>10, Bases
        <5> QED
          BY <5>1, <5>2, <5>3
      <4> QED
        BY <2>4, <4>1, <4>2, <4>3
    <3> HIDE DEF num, x, y, z
    <3>3. triple = <<x, y, z>>
      BY <1>4, <2>9, <3>2, ThreeDigits
    <3> HIDE DEF triple
    <3>4. TargetToNbits(t) = [size |-> k, word |-> <<x, y, z>>]
      BY <1>2, <2>3, <2>11, <2>18
    <3>5. x < BASE \div 2
      BY <1>4, <2>10, <2>18
    <3> QED
      BY <1>1, <1>4, <2>4, <2>9, <3>1, <3>3, <3>4, <3>5, Bases DEF Nbits, n
  <2> QED
    BY <2>17, <2>18
<1> QED
  BY <1>6, <1>7

-----------------------------------------------------------------------------
(***************************************************************************)
(* Targets and difficulties.                                               *)
(***************************************************************************)

LEMMA Leadings == LEADING \in Nat /\ LEADING + 3 <= BYTES
BY DigitAssumption

LEMMA LimitTypes == MAX_DIFFICULTY \in Array /\ UNROUNDED_MAX_TARGET \in Array
<1>1. 0 \in Digit /\ BASE - 1 \in Digit
  BY Bases DEF Digit
<1> QED
  BY <1>1 DEF MAX_DIFFICULTY, UNROUNDED_MAX_TARGET, Array

\* An array with zeros in front is below the power behind them.
LEMMA LeadingZeros ==
  ASSUME NEW t \in Array, NEW P, Reads(P, t), NEW k \in 0 .. BYTES,
         \A j \in 1 .. k : t[j] = 0
  PROVE  P[k] = 0 /\ P[BYTES] < Pow[BYTES - k]
<1>1. 0 \in 0 .. BYTES /\ k \in 0 .. BYTES /\ BYTES \in k .. BYTES /\ k - 0 \in Nat /\ BYTES - k \in Nat
  BY Bases
<1>2. \A j \in 0 + 1 .. k : t[j] = 0
  OBVIOUS
<1>3. P[k] = P[0] * Pow[k - 0]
  BY <1>1, <1>2, PrefixZeros
<1>4. Pow[k - 0] \in Nat /\ P[0] = 0 /\ Pow[BYTES - k] \in Nat
  BY <1>1, PowPos DEF Reads
<1>5. P[k] = 0
  BY <1>3, <1>4
<1>6. PICK s \in 0 .. Pow[BYTES - k] - 1 : P[BYTES] = P[k] * Pow[BYTES - k] + s
  BY <1>1, PrefixSplit
<1> QED
  BY <1>4, <1>5, <1>6

LEMMA MaxTargetBound == Value(UNROUNDED_MAX_TARGET) < Pow[BYTES - LEADING]
<1> DEFINE t == UNROUNDED_MAX_TARGET
<1>1. t \in Array
  BY LimitTypes
<1>2. \A j \in 1 .. LEADING : t[j] = 0
  BY Leadings, Bases DEF UNROUNDED_MAX_TARGET
<1> HIDE DEF t
<1>3. PICK P : Reads(P, t) /\ Value(t) = P[BYTES]
  BY <1>1, ArrayNumbers, PrefixExists
<1>4. LEADING \in 0 .. BYTES
  BY Leadings, Bases
<1> QED
  BY <1>1, <1>2, <1>3, <1>4, LeadingZeros DEF t

\* A number with zeros in front of and behind two digits.
LEMMA MaxDifficultyIs ==
  Value(MAX_DIFFICULTY) = (BASE * BASE - 1) * Pow[BYTES - LEADING - 2]
<1> DEFINE t == MAX_DIFFICULTY
<1>1. t \in Array
  BY LimitTypes
<1>2. \A j \in 1 .. LEADING : t[j] = 0
  BY Leadings, Bases DEF MAX_DIFFICULTY
<1>3. \A j \in LEADING + 2 + 1 .. BYTES : t[j] = 0
  BY Leadings, Bases DEF MAX_DIFFICULTY
<1>4. t[LEADING + 1] = BASE - 1 /\ t[LEADING + 2] = BASE - 1
  BY Leadings, Bases DEF MAX_DIFFICULTY
<1> HIDE DEF t
<1>5. PICK P : Reads(P, t) /\ Value(t) = P[BYTES]
  BY <1>1, ArrayNumbers, PrefixExists
<1>6. LEADING \in 0 .. BYTES /\ LEADING + 1 \in 1 .. BYTES /\ LEADING + 2 \in 1 .. BYTES
      /\ LEADING + 2 \in 0 .. BYTES /\ BYTES \in LEADING + 2 .. BYTES
      /\ (LEADING + 1) - 1 = LEADING /\ (LEADING + 2) - 1 = LEADING + 1
      /\ BYTES - (LEADING + 2) = BYTES - LEADING - 2
  BY Leadings, Bases
<1>7. P[LEADING] = 0
  BY <1>1, <1>2, <1>5, <1>6, LeadingZeros
<1>8. P[LEADING + 1] = P[LEADING] * BASE + (BASE - 1)
  BY <1>4, <1>5, <1>6 DEF Reads
<1>9. P[LEADING + 2] = P[LEADING + 1] * BASE + (BASE - 1)
  BY <1>4, <1>5, <1>6 DEF Reads
<1>10. P[LEADING + 2] = BASE * BASE - 1
  <2>1. P[LEADING + 1] = BASE - 1
    BY <1>7, <1>8, Bases
  <2>2. (BASE - 1) * BASE + (BASE - 1) = BASE * BASE - 1
    BY Bases
  <2> QED
    BY <1>9, <2>1, <2>2
<1>11. P[BYTES] = P[LEADING + 2] * Pow[BYTES - (LEADING + 2)]
  BY <1>1, <1>3, <1>5, <1>6, PrefixZeros
<1> QED
  BY <1>5, <1>6, <1>10, <1>11 DEF t

\* The quotient that GetDifficulty computes digit by digit.
LEMMA DifficultyIsQuotient ==
  ASSUME NEW t \in Array, GetDifficultyDefined(t),
         \A j \in Min(NonZero(t)) + 3 .. BYTES : t[j] = 0
  PROVE  /\ GetDifficulty(t) \in Array
         /\ Value(t) > 0
         /\ Value(GetDifficulty(t)) = Value(MAX_DIFFICULTY) \div Value(t)
<1> DEFINE start == Min(NonZero(t))
           shift == BYTES - start - 2
           num   == (t[start] * BASE + t[start + 1]) * BASE + t[start + 2]
           arr   == DivInPlace(MAX_DIFFICULTY, num)
           g     == [i \in 1 .. BYTES |-> IF i > shift THEN arr[i - shift] ELSE 0]
           M     == Value(MAX_DIFFICULTY)
<1>1. GetDifficulty(t) = g
  BY DEF GetDifficulty
<1>2. NonZero(t) # {} /\ start + 2 <= BYTES
  BY DEF GetDifficultyDefined
<1>3. PICK P : Reads(P, t) /\ Value(t) = P[BYTES]
  BY ArrayNumbers, PrefixExists
<1>4. start \in 1 .. BYTES /\ t[start] > 0 /\ P[start] = t[start]
  BY <1>2, <1>3, FirstDigit
<1>5. \A j \in start + 2 + 1 .. BYTES : t[j] = 0
  BY <1>4, Bases
<1> HIDE DEF start, M
<1>6. /\ start + 1 \in 1 .. BYTES /\ start + 2 \in 1 .. BYTES /\ start + 2 \in 0 .. BYTES
      /\ (start + 1) - 1 = start /\ (start + 2) - 1 = start + 1
      /\ BYTES \in start + 2 .. BYTES /\ BYTES - (start + 2) = shift
      /\ shift \in Nat /\ shift \in 0 .. BYTES /\ BYTES - shift \in 0 .. BYTES /\ BYTES - (BYTES - shift) = shift
      /\ BYTES \in BYTES - shift .. BYTES
  BY <1>2, <1>4, Bases
<1>7. P[start + 1] = P[start] * BASE + t[start + 1] /\ P[start + 2] = P[start + 1] * BASE + t[start + 2]
  BY <1>3, <1>6 DEF Reads
<1>8. num = P[start + 2]
  BY <1>4, <1>7
<1> HIDE DEF num, shift
<1>9. P[BYTES] = num * Pow[shift]
  <2>1. P[BYTES] = P[start + 2] * Pow[BYTES - (start + 2)]
    BY <1>3, <1>5, <1>6, PrefixZeros
  <2> QED
    BY <1>6, <1>8, <2>1
<1>10. Pow[shift] \in Nat \ {0} /\ num \in Nat
  BY <1>3, <1>6, <1>8, PowPos DEF Reads
<1>11. Value(t) > 0
  <2>1. Value(t) # 0 /\ Value(t) \in Nat
    BY <1>2, NonZeroIs, ValueBound
  <2> QED
    BY <2>1
<1>12. num > 0
  <2>1. num # 0
    <3> SUFFICES ASSUME num = 0 PROVE FALSE
      OBVIOUS
    <3>1. 0 * Pow[shift] = 0
      BY <1>10
    <3> QED
      BY <1>3, <1>9, <1>11, <3>1
  <2> QED
    BY <1>10, <2>1
<1>13. arr \in Array /\ Value(arr) = M \div num
  BY <1>10, <1>12, LimitTypes, DivIs DEF M
<1>14. M \in Nat
  BY LimitTypes, ValueBound DEF M
<1> HIDE DEF arr
<1>15. PICK Q : Reads(Q, arr) /\ Value(arr) = Q[BYTES]
  BY <1>13, ArrayNumbers, PrefixExists
<1>16. g \in Array
  <2>1. 0 \in Digit
    BY Bases DEF Digit
  <2>2. \A i \in 1 .. BYTES : i > shift => i - shift \in 1 .. BYTES
    BY <1>6, Bases
  <2> QED
    BY <1>13, <2>1, <2>2 DEF Array
<1> DEFINE G == [i \in 0 .. BYTES |-> IF i > shift THEN Q[i - shift] ELSE 0]
<1>17. Reads(G, g)
  <2>1. \A i \in 0 .. BYTES : i > shift => i - shift \in 0 .. BYTES
    BY <1>6, Bases
  <2>2. \A i \in 0 .. BYTES : Q[i] \in Nat
    BY <1>15 DEF Reads
  <2>3. G \in [0 .. BYTES -> Nat]
    BY <2>1, <2>2
  <2>4. G[0] = 0
    BY <1>6, Bases
  <2>5. ASSUME NEW i \in 1 .. BYTES PROVE G[i] = G[i-1] * BASE + g[i]
    <3>1. i \in 0 .. BYTES /\ i - 1 \in 0 .. BYTES
      BY Bases
    <3>2. CASE i > shift + 1
      <4>1. i > shift /\ i - 1 > shift /\ i - shift \in 1 .. BYTES /\ (i - shift) - 1 = (i - 1) - shift
        BY <1>6, <3>2, Bases
      <4>2. Q[i - shift] = Q[(i - shift) - 1] * BASE + arr[i - shift]
        BY <1>15, <4>1 DEF Reads
      <4>3. G[i] = Q[i - shift] /\ G[i-1] = Q[(i - 1) - shift] /\ g[i] = arr[i - shift]
        BY <3>1, <4>1
      <4> QED
        BY <4>1, <4>2, <4>3
    <3>3. CASE i = shift + 1
      <4>1. i > shift /\ ~ (i - 1 > shift) /\ i - shift = 1 /\ 1 \in 1 .. BYTES /\ 1 - 1 = 0
        BY <1>6, <3>3, Bases
      <4>2. Q[1] = Q[0] * BASE + arr[1] /\ Q[0] = 0
        <5>1. Q[1] = Q[1-1] * BASE + arr[1]
          BY <1>15, <4>1 DEF Reads
        <5> QED
          BY <1>15, <5>1 DEF Reads
      <4>3. G[i] = Q[1] /\ G[i-1] = 0 /\ g[i] = arr[1]
        BY <3>1, <4>1
      <4> QED
        BY <4>2, <4>3
    <3>4. CASE ~ (i > shift)
      <4>1. ~ (i - 1 > shift)
        BY <1>6, <3>4
      <4>2. G[i] = 0 /\ G[i-1] = 0 /\ g[i] = 0
        BY <3>1, <3>4, <4>1
      <4> QED
        BY <4>2, Bases
    <3> QED
      BY <1>6, <3>2, <3>3, <3>4
  <2> HIDE DEF G, g
  <2> QED
    BY <2>3, <2>4, <2>5 DEF Reads
<1>18. G[BYTES] = Q[BYTES - shift]
  <2>1. CASE BYTES > shift
    BY <2>1, Bases
  <2>2. CASE ~ (BYTES > shift)
    <3>1. BYTES - shift = 0 /\ Q[0] = 0
      BY <1>6, <1>15, <2>2, Bases DEF Reads
    <3> QED
      BY <2>2, <3>1, Bases
  <2> QED
    BY <2>1, <2>2
<1> HIDE DEF G, g
<1>19. Value(g) = Q[BYTES - shift]
  BY <1>16, <1>17, <1>18, ArrayNumbers, ValueIs
<1>20. Q[BYTES - shift] = (M \div num) \div Pow[shift]
  <2>1. PICK s \in 0 .. Pow[shift] - 1 : Q[BYTES] = Q[BYTES - shift] * Pow[shift] + s
    <3>1. PICK s \in 0 .. Pow[BYTES - (BYTES - shift)] - 1 :
            Q[BYTES] = Q[BYTES - shift] * Pow[BYTES - (BYTES - shift)] + s
      BY <1>6, <1>13, <1>15, PrefixSplit
    <3> QED
      BY <1>6, <3>1
  <2>2. Q[BYTES - shift] \in Nat
    BY <1>6, <1>15 DEF Reads
  <2>3. Q[BYTES - shift] * Pow[shift] = Pow[shift] * Q[BYTES - shift]
    BY <1>10, <2>2
  <2> QED
    BY <1>10, <1>13, <1>15, <2>1, <2>2, <2>3, DivUnique
<1>21. (M \div num) \div Pow[shift] = M \div (num * Pow[shift])
  BY <1>10, <1>12, <1>14, DivDiv
<1> QED
  BY <1>1, <1>3, <1>9, <1>11, <1>16, <1>19, <1>20, <1>21 DEF M

\* A number of the first digits, and an upper bound of an array by them.
LEMMA BelowMaxDifficulty ==
  ASSUME NEW nbits \in Nbits, SoundNbits(nbits)
  PROVE  Value(NbitsToTarget(nbits)) <= Value(MAX_DIFFICULTY)
<1> DEFINE t == NbitsToTarget(nbits)
           start == BYTES - nbits.size
           p == Pow[BYTES - LEADING - 2]
           m == BASE * BASE - 1
<1>1. NbitsToTargetDefined(nbits) /\ nbits.word[1] < BASE \div 2 /\ LteArr(t, UNROUNDED_MAX_TARGET)
  BY DEF SoundNbits
<1>2. /\ t \in Array
      /\ \A pos \in 1 .. BYTES :
           t[pos] = IF pos - start \in 1 .. 3 THEN nbits.word[pos - start] ELSE 0
  BY <1>1, TargetDigits
<1>3. start \in Nat /\ nbits.word[1] \in Nat
  BY <1>1, WordDigits, Bases DEF NbitsToTargetDefined, Digit
<1> HIDE DEF t, start
<1>4. \A j \in 1 .. LEADING : t[j] = 0
  <2> SUFFICES ASSUME NEW j \in 1 .. LEADING, t[j] # 0 PROVE FALSE
    OBVIOUS
  <2>1. j \in 1 .. BYTES
    BY Leadings, Bases
  <2>2. NonZero(t) # {} /\ NonZero(t) \in SUBSET Nat /\ j \in NonZero(t)
    BY <1>2, <2>1, ArrayNumbers DEF NonZero
  <2> DEFINE i == Min(NonZero(t))
  <2>3. PICK P : Reads(P, t) /\ Value(t) = P[BYTES]
    BY <1>2, ArrayNumbers, PrefixExists
  <2>4. i \in 1 .. BYTES /\ Pow[BYTES - i] <= P[BYTES]
    BY <1>2, <2>2, <2>3, FirstDigit
  <2>5. i <= j
    BY <2>2, MinIs
  <2> HIDE DEF i
  <2>6. BYTES - LEADING \in Nat /\ BYTES - i \in Nat /\ BYTES - LEADING <= BYTES - i
    BY <2>1, <2>4, <2>5, Leadings, Bases
  <2>7. Pow[BYTES - LEADING] <= Pow[BYTES - i] /\ Pow[BYTES - LEADING] \in Nat /\ Pow[BYTES - i] \in Nat
    BY <2>6, PowGrows, PowPos
  <2>8. Value(t) <= Value(UNROUNDED_MAX_TARGET) /\ Value(t) \in Nat /\ Value(UNROUNDED_MAX_TARGET) \in Nat
    BY <1>1, <1>2, LimitTypes, GtIsGreater, ValueBound DEF t
  <2>9. Value(UNROUNDED_MAX_TARGET) < Pow[BYTES - LEADING]
    BY MaxTargetBound
  <2> QED
    BY <2>3, <2>4, <2>7, <2>8, <2>9
<1>5. PICK P : Reads(P, t) /\ Value(t) = P[BYTES]
  BY <1>2, ArrayNumbers, PrefixExists
<1>6. LEADING \in 0 .. BYTES /\ LEADING + 1 \in 1 .. BYTES /\ LEADING + 2 \in 1 .. BYTES
      /\ LEADING + 2 \in 0 .. BYTES /\ BYTES \in LEADING + 2 .. BYTES
      /\ (LEADING + 1) - 1 = LEADING /\ (LEADING + 2) - 1 = LEADING + 1
      /\ BYTES - (LEADING + 2) = BYTES - LEADING - 2 /\ BYTES - LEADING - 2 \in Nat
  BY Leadings, Bases
<1>7. P[LEADING] = 0
  BY <1>2, <1>4, <1>5, <1>6, LeadingZeros
<1> DEFINE x == t[LEADING + 1]
           y == t[LEADING + 2]
<1>8. x \in Nat /\ x < BASE /\ y \in Nat /\ y < BASE
  BY <1>2, <1>6, ArrayNumbers
<1>9. P[LEADING + 1] = P[LEADING] * BASE + x /\ P[LEADING + 2] = P[LEADING + 1] * BASE + y
  BY <1>5, <1>6 DEF Reads
<1>10. P[LEADING + 2] = x * BASE + y
  <2>1. P[LEADING + 1] = x
    BY <1>7, <1>8, <1>9, Bases
  <2> QED
    BY <1>9, <2>1
<1>11. p \in Nat \ {0} /\ m \in Nat
  <2>1. BASE * BASE \in Nat /\ BASE * BASE > 0
    BY Bases, MulType, MulPos
  <2> QED
    BY <1>6, <2>1, PowPos
<1>12. Value(MAX_DIFFICULTY) = m * p
  BY MaxDifficultyIs
<1> HIDE DEF p
<1>13. CASE x = BASE - 1 /\ y = BASE - 1
  <2>1. \A j \in LEADING + 2 + 1 .. BYTES : t[j] = 0
    <3> TAKE j \in LEADING + 2 + 1 .. BYTES
    <3>1. j \in 1 .. BYTES /\ BASE - 1 > 0 /\ BASE - 1 >= BASE \div 2
      BY Leadings, Bases
    <3> DEFINE a == LEADING + 1
               b == LEADING + 2
    <3>1a. a \in 1 .. BYTES /\ b \in 1 .. BYTES /\ x = t[a] /\ y = t[b]
      BY <1>6
    <3> HIDE DEF a, b, x, y
    <3>1b. x = IF a - start \in 1 .. 3 THEN nbits.word[a - start] ELSE 0
      BY <1>2, <3>1a
    <3>1c. y = IF b - start \in 1 .. 3 THEN nbits.word[b - start] ELSE 0
      BY <1>2, <3>1a
    <3>1d. x # 0 /\ y # 0
      BY <1>13, <3>1, Bases
    <3>2. (LEADING + 1) - start \in 1 .. 3 /\ (LEADING + 2) - start \in 1 .. 3
      BY <3>1b, <3>1c, <3>1d DEF a, b
    <3>3. x = nbits.word[(LEADING + 1) - start]
      BY <3>1b, <3>2 DEF a
    <3>4. (LEADING + 1) - start # 1
      BY <1>1, <1>3, <1>13, <3>1, <3>3, Bases
    <3>5. ~ (j - start \in 1 .. 3)
      BY <1>3, <1>6, <3>1, <3>2, <3>4
    <3> QED
      BY <1>2, <3>1, <3>5
  <2>2. P[BYTES] = P[LEADING + 2] * Pow[BYTES - (LEADING + 2)]
    BY <1>2, <1>5, <1>6, <2>1, PrefixZeros
  <2>3. P[LEADING + 2] = m
    <3>1. (BASE - 1) * BASE + (BASE - 1) = BASE * BASE - 1
      BY Bases
    <3> QED
      BY <1>10, <1>13, <3>1
  <2>4. Value(t) = m * p
    BY <1>5, <1>6, <2>2, <2>3 DEF p
  <2> HIDE DEF m
  <2>5. m * p \in Nat
    BY <1>11, MulType
  <2> QED
    BY <1>12, <2>4, <2>5 DEF t
<1>14. CASE ~ (x = BASE - 1 /\ y = BASE - 1)
  <2>1. PICK s \in 0 .. Pow[BYTES - (LEADING + 2)] - 1 :
          P[BYTES] = P[LEADING + 2] * Pow[BYTES - (LEADING + 2)] + s
    BY <1>2, <1>5, <1>6, PrefixSplit
  <2>2. s \in Nat /\ s < p /\ P[BYTES] = P[LEADING + 2] * p + s
    BY <1>6, <1>11, <2>1 DEF p
  <2>3. P[LEADING + 2] + 1 <= m /\ P[LEADING + 2] \in Nat
    <3>1. x * BASE + y \in Nat
      BY <1>8, Bases, MulType
    <3>2. CASE x = BASE - 1
      <4>1. y + 1 < BASE
        BY <1>8, <1>14, <3>2, Bases
      <4>2. (BASE - 1) * BASE = BASE * BASE - BASE /\ BASE * BASE \in Nat
        BY Bases
      <4> QED
        BY <1>8, <1>10, <3>1, <3>2, <4>1, <4>2, Bases
    <3>3. CASE x # BASE - 1
      <4>1. x + 2 <= BASE
        BY <1>8, <3>3, Bases
      <4>2. (x + 2) * BASE <= BASE * BASE /\ (x + 2) * BASE = x * BASE + (BASE + BASE)
        <5>1. x + 2 \in Nat
          BY <1>8
        <5>2. (x + 2) * BASE <= BASE * BASE
          BY <4>1, <5>1, Bases, MulOrder
        <5> QED
          BY <1>8, <5>2, Bases
      <4>3. x * BASE \in Nat /\ BASE * BASE \in Nat
        BY <1>8, Bases, MulType
      <4> QED
        BY <1>8, <1>10, <4>2, <4>3, Bases
    <3> QED
      BY <1>10, <3>1, <3>2, <3>3
  <2> DEFINE q == P[LEADING + 2]
  <2> HIDE DEF m, q
  <2>4. (q + 1) * p <= m * p
    <3>1. q + 1 \in Nat /\ q + 1 <= m
      BY <2>3 DEF q
    <3> QED
      BY <1>11, <3>1, MulOrder
  <2>5. (q + 1) * p = q * p + p /\ q * p \in Nat /\ m * p \in Nat
    BY <1>11, <2>3, MulType DEF q
  <2>6. q * p + s <= m * p
    BY <1>11, <2>2, <2>4, <2>5
  <2> QED
    BY <1>5, <1>12, <2>2, <2>6 DEF t, q
<1> QED
  BY <1>13, <1>14

\* What SoundNbits is for: such a target has a value, and a difficulty.
LEMMA SoundTarget ==
  ASSUME NEW nbits \in Nbits, SoundNbits(nbits),
         NEW t, t = NbitsToTarget(nbits),
         NEW work, work = Value(MAX_DIFFICULTY) \div Bitcoin!Expand(nbits)
  PROVE  /\ t \in Array
         /\ Value(t) = Bitcoin!Expand(nbits)
         /\ Value(t) \in Nat \ {0}
         /\ Value(t) < Pow[BYTES - LEADING]
         /\ GetDifficulty(t) \in Array
         /\ Value(GetDifficulty(t)) = work
         /\ work \in Nat \ {0}
         /\ work < Pow[BYTES - LEADING]
<1>1. NbitsToTargetDefined(nbits) /\ nbits.word[1] < BASE \div 2
      /\ LteArr(t, UNROUNDED_MAX_TARGET) /\ GetDifficultyDefined(t)
  BY DEF SoundNbits
<1> DEFINE start == BYTES - nbits.size
           M == Value(MAX_DIFFICULTY)
<1>2. /\ t \in Array
      /\ \A pos \in 1 .. BYTES :
           t[pos] = IF pos - start \in 1 .. 3 THEN nbits.word[pos - start] ELSE 0
  BY <1>1, TargetDigits
<1>3. Value(t) = Bitcoin!Expand(nbits)
  BY <1>1, TargetIsExpand
<1>4. Value(t) < Pow[BYTES - LEADING]
  <2>1. Value(t) <= Value(UNROUNDED_MAX_TARGET)
    BY <1>1, <1>2, LimitTypes, GtIsGreater
  <2>2. Value(t) \in Nat /\ Value(UNROUNDED_MAX_TARGET) \in Nat /\ Pow[BYTES - LEADING] \in Nat
    <3>1. BYTES - LEADING \in Nat
      BY Leadings, Bases
    <3> QED
      BY <1>2, <3>1, LimitTypes, ValueBound, PowPos
  <2> QED
    BY <2>1, <2>2, MaxTargetBound
<1>5. \A j \in Min(NonZero(t)) + 3 .. BYTES : t[j] = 0
  <2> DEFINE i == Min(NonZero(t))
  <2>1. start \in Nat
    BY <1>1, WordDigits, Bases DEF NbitsToTargetDefined
  <2>2. i \in NonZero(t)
    <3>1. NonZero(t) \in SUBSET Nat /\ NonZero(t) # {}
      BY <1>1 DEF NonZero, GetDifficultyDefined
    <3> QED
      BY <3>1, MinIs
  <2> HIDE DEF i, start
  <2>3. i \in 1 .. BYTES /\ t[i] # 0
    BY <2>2, <1>2, ArrayNumbers DEF NonZero
  <2>4. i - start \in 1 .. 3
    BY <1>2, <2>3
  <2>5. \A j \in i + 3 .. BYTES : j \in 1 .. BYTES /\ ~ (j - start \in 1 .. 3)
    BY <2>1, <2>3, <2>4, Bases
  <2>6. \A j \in i + 3 .. BYTES : t[j] = 0
    BY <1>2, <2>5
  <2> QED
    BY <2>6 DEF i
<1>6. /\ GetDifficulty(t) \in Array
      /\ Value(t) > 0
      /\ Value(GetDifficulty(t)) = M \div Value(t)
  BY <1>1, <1>2, <1>5, DifficultyIsQuotient
<1>7. Value(t) \in Nat \ {0} /\ M \in Nat
  BY <1>2, <1>6, LimitTypes, ValueBound
<1>8. Value(t) <= M
  BY BelowMaxDifficulty
<1>9. work = M \div Value(t)
  BY <1>3
<1>10. M < Pow[BYTES - LEADING]
  <2> DEFINE p == Pow[BYTES - LEADING - 2]
  <2>1. BYTES - LEADING - 2 \in Nat /\ (BYTES - LEADING - 2) + 2 = BYTES - LEADING
    BY Leadings, Bases
  <2>2. Pow[BYTES - LEADING] = p * Pow[2] /\ p \in Nat \ {0}
    BY <2>1, PowAdd, PowPos
  <2>3. M = (BASE * BASE - 1) * p
    BY MaxDifficultyIs
  <2> HIDE DEF p, M
  <2>4. (BASE * BASE - 1) * p < p * (BASE * BASE)
    BY <2>2, Bases
  <2> QED
    BY <2>2, <2>3, <2>4, SmallPowers
<1> HIDE DEF M
<1>11. work \in Nat \ {0} /\ work <= M
  BY <1>7, <1>8, <1>9, QuotientPos
<1>12. work < Pow[BYTES - LEADING]
  <2>1. Pow[BYTES - LEADING] \in Nat
    <3>1. BYTES - LEADING \in Nat
      BY Leadings, Bases
    <3> QED
      BY <3>1, PowPos
  <2> QED
    BY <1>7, <1>10, <1>11, <2>1
<1> QED
  BY <1>2, <1>3, <1>4, <1>6, <1>7, <1>9, <1>11, <1>12

LEMMA MinMaxOfTwo ==
  ASSUME NEW a \in Nat, NEW b \in Nat
  PROVE  /\ Min({a, b}) = IF a <= b THEN a ELSE b
         /\ Max({a, b}) = IF a <= b THEN b ELSE a
<1>1. Min({a, b}) = IF a <= b THEN a ELSE b
  <2>1. Min({a, b}) \in {a, b} /\ \A y \in {a, b} : Min({a, b}) <= y
    <3>1. {a, b} \in SUBSET Nat /\ {a, b} # {}
      OBVIOUS
    <3> QED
      BY <3>1, MinIs
  <2> QED
    BY <2>1
<1>2. Max({a, b}) = IF a <= b THEN b ELSE a
  <2> DEFINE S == {a, b}
             m == IF a <= b THEN b ELSE a
  <2>1. m \in S /\ \A y \in S : m >= y
    OBVIOUS
  <2>2. \A x \in S : (\A y \in S : x >= y) => x = m
    OBVIOUS
  <2> HIDE DEF S, m
  <2>3. Max(S) = m
    BY <2>1, <2>2 DEF Max
  <2> QED
    BY <2>3 DEF S, m
<1> QED
  BY <1>1, <1>2

\* Smaller digits make a smaller number.
LEMMA DigitwiseBelow ==
  ASSUME NEW a \in Array, NEW b \in Array, \A i \in 1 .. BYTES : a[i] <= b[i]
  PROVE  Value(a) <= Value(b)
<1>1. PICK P : Reads(P, a) /\ Value(a) = P[BYTES]
  BY ArrayNumbers, PrefixExists
<1>2. PICK Q : Reads(Q, b) /\ Value(b) = Q[BYTES]
  BY ArrayNumbers, PrefixExists
<1> DEFINE S == {i \in 0 .. BYTES : P[i] <= Q[i]}
<1>3. 0 \in S
  BY <1>1, <1>2, Bases DEF Reads
<1>4. ASSUME NEW i \in 1 .. BYTES, i-1 \in S PROVE i \in S
  <2>1. P[i] = P[i-1] * BASE + a[i] /\ Q[i] = Q[i-1] * BASE + b[i]
    BY <1>1, <1>2 DEF Reads
  <2>2. P[i-1] \in Nat /\ Q[i-1] \in Nat /\ P[i-1] <= Q[i-1]
    BY <1>1, <1>2, <1>4, Bases DEF Reads
  <2>3. a[i] \in Nat /\ b[i] \in Nat /\ a[i] <= b[i]
    BY ArrayNumbers
  <2>4. P[i-1] * BASE <= Q[i-1] * BASE /\ P[i-1] * BASE \in Nat /\ Q[i-1] * BASE \in Nat
    BY <2>2, Bases, MulOrder, MulType
  <2>5. P[i] <= Q[i]
    BY <2>1, <2>3, <2>4
  <2> QED
    BY <2>5
<1> HIDE DEF S
<1>5. \A i \in 0 .. BYTES : i \in S
  BY <1>3, <1>4, Bases, UpTo
<1>6. BYTES \in S
  BY <1>5, Bases
<1> QED
  BY <1>1, <1>2, <1>6 DEF S

\* The compact form rounds down.
LEMMA CompactRoundsDown ==
  ASSUME NEW t \in Array, NbitsToTargetDefined(TargetToNbits(t))
  PROVE  Value(NbitsToTarget(TargetToNbits(t))) <= Value(t)
<1> DEFINE nbits == TargetToNbits(t)
           a == NbitsToTarget(nbits)
           start == BYTES - nbits.size
           n_size == IF NonZero(t) = {} THEN 0 ELSE BYTES + 1 - Min(NonZero(t))
           word == [i \in 1 .. 3 |-> IF n_size >= i THEN t[BYTES - n_size + i] ELSE 0]
<1>1. nbits \in Nbits /\ nbits.word[1] < BASE \div 2
  BY NbitsIsCompact
<1>2. nbits = IF word[1] >= BASE \div 2
              THEN [size |-> n_size + 1, word |-> <<0, word[1], word[2]>>]
              ELSE [size |-> n_size, word |-> word]
  BY DEF TargetToNbits
<1>3. nbits.size \in Nat /\ nbits.size <= BYTES
  BY <1>1, WordDigits, Bases DEF NbitsToTargetDefined
<1>4. n_size \in 0 .. BYTES
  <2>1. ASSUME NonZero(t) # {} PROVE Min(NonZero(t)) \in 1 .. BYTES
    <3>1. NonZero(t) \in SUBSET Nat
      BY DEF NonZero
    <3>2. Min(NonZero(t)) \in NonZero(t)
      BY <2>1, <3>1, MinIs
    <3> QED
      BY <3>2 DEF NonZero
  <2> QED
    BY <2>1, Bases
<1> HIDE DEF nbits, n_size
<1>5. /\ a \in Array
      /\ \A pos \in 1 .. BYTES :
           a[pos] = IF pos - start \in 1 .. 3 THEN nbits.word[pos - start] ELSE 0
  BY <1>1, TargetDigits DEF nbits
<1> HIDE DEF a
<1>6. ASSUME NEW pos \in 1 .. BYTES PROVE a[pos] <= t[pos]
  <2>1. t[pos] \in Nat
    BY ArrayNumbers
  <2> SUFFICES ASSUME pos - start \in 1 .. 3
               PROVE  nbits.word[pos - start] \in {0, t[pos]}
    BY <1>5, <2>1
  <2>2. CASE word[1] >= BASE \div 2
    <3>1. nbits.size = n_size + 1 /\ nbits.word = <<0, word[1], word[2]>>
      BY <1>2, <2>2
    <3>2. start = BYTES - n_size - 1
      BY <1>4, <3>1, Bases
    <3>3. CASE pos - start = 1
      BY <3>1, <3>3
    <3>4. CASE pos - start = 2
      <4>1. pos = BYTES - n_size + 1
        BY <1>4, <3>2, <3>4, Bases
      <4>2. word[1] \in {0, t[pos]}
        BY <4>1
      <4> QED
        BY <3>1, <3>4, <4>2
    <3>5. CASE pos - start = 3
      <4>1. pos = BYTES - n_size + 2
        BY <1>4, <3>2, <3>5, Bases
      <4>2. word[2] \in {0, t[pos]}
        BY <4>1
      <4> QED
        BY <3>1, <3>5, <4>2
    <3> QED
      BY <3>3, <3>4, <3>5
  <2>3. CASE ~ (word[1] >= BASE \div 2)
    <3>1. nbits.size = n_size /\ nbits.word = word
      BY <1>2, <2>3
    <3> DEFINE i == pos - start
    <3>2. i \in 1 .. 3 /\ BYTES - n_size + i = pos
      BY <1>4, <3>1, Bases
    <3> HIDE DEF i, start
    <3>3. word[i] \in {0, t[pos]}
      BY <3>2
    <3> QED
      BY <3>1, <3>3 DEF i
  <2> QED
    BY <2>2, <2>3
<1>7. Value(a) <= Value(t)
  BY <1>5, <1>6, DigitwiseBelow
<1> QED
  BY <1>7 DEF a, nbits

LEMMA Spans ==
  /\ TARGET_TIMESPAN \in Nat \ {0}
  /\ TARGET_TIMESPAN_DIV_4 \in Nat
  /\ TARGET_TIMESPAN_MUL_4 \in Nat
  /\ TARGET_TIMESPAN_DIV_4 <= TARGET_TIMESPAN_MUL_4
  /\ TARGET_TIMESPAN_MUL_4 <= Pow[LEADING]
<1>1. TARGET_TIMESPAN \in Nat \ {0}
  BY HeaderRuleAssumption
<1>2. TARGET_TIMESPAN_MUL_4 <= Pow[LEADING]
  BY LeadingAssumption DEF Pow
<1> QED
  BY <1>1, <1>2 DEF TARGET_TIMESPAN_DIV_4, TARGET_TIMESPAN_MUL_4

\* The largest target leaves room in front of it for the digit that keeps the
\* sign clear.
LEMMA CompactFits ==
  ASSUME NEW t \in Array, Value(t) <= Value(UNROUNDED_MAX_TARGET)
  PROVE  NbitsToTargetDefined(TargetToNbits(t))
<1> DEFINE n_size == IF NonZero(t) = {} THEN 0 ELSE BYTES + 1 - Min(NonZero(t))
<1>1. TargetToNbits(t).size \in {n_size, n_size + 1}
  BY DEF TargetToNbits
<1>2. LEADING \in Nat \ {0}
  <2>1. TARGET_TIMESPAN_MUL_4 > 1 /\ TARGET_TIMESPAN_MUL_4 \in Nat
    BY Spans DEF TARGET_TIMESPAN_MUL_4
  <2>2. LEADING # 0
    BY <2>1, Spans, PowFacts
  <2> QED
    BY <2>2, Leadings
<1>3. CASE NonZero(t) = {}
  <2>1. n_size = 0
    BY <1>3
  <2> QED
    BY <1>1, <2>1, Leadings, Bases DEF NbitsToTargetDefined
<1>4. CASE NonZero(t) # {}
  <2>1. PICK P : Reads(P, t) /\ Value(t) = P[BYTES]
    BY ArrayNumbers, PrefixExists
  <2> DEFINE i == Min(NonZero(t))
             a == BYTES - i
             b == BYTES - LEADING
  <2>2. i \in 1 .. BYTES /\ Pow[a] <= Value(t)
    BY <1>4, <2>1, FirstDigit
  <2>3. n_size = BYTES + 1 - i
    BY <1>4
  <2> HIDE DEF i, n_size
  <2>4. a \in Nat /\ b \in Nat
    BY <2>2, Leadings, Bases
  <2>5. Value(t) \in Nat /\ Value(UNROUNDED_MAX_TARGET) \in Nat /\ Value(UNROUNDED_MAX_TARGET) < Pow[b]
    BY LimitTypes, ValueBound, MaxTargetBound
  <2> HIDE DEF a, b
  <2>6. ~ (Pow[b] <= Pow[a])
    BY <2>2, <2>4, <2>5, PowPos
  <2>7. a < b
    BY <2>4, <2>6, PowGrows
  <2>8. n_size + 1 <= BYTES /\ n_size \in Nat
    BY <1>2, <2>2, <2>3, <2>7, Bases DEF a, b
  <2> QED
    BY <1>1, <2>8, Bases DEF NbitsToTargetDefined
<1> QED
  BY <1>3, <1>4

\* The next target, with its truncations and limits, is Bitcoin's.
LEMMA RetargetIs ==
  ASSUME NEW nbits \in Nbits, SoundNbits(nbits),
         NEW prev_time \in Nat, NEW start_time \in Nat, prev_time >= start_time,
         NEW new, new = ComputeNewNbits(prev_time, start_time, NbitsToTarget(nbits))
  PROVE  /\ new = Bitcoin!Compact(Min({Value(UNROUNDED_MAX_TARGET),
                    (Bitcoin!Expand(nbits) * Bitcoin!Clamp(prev_time - start_time))
                      \div TARGET_TIMESPAN}))
         /\ new \in Nbits
         /\ new.word[1] < BASE \div 2
         /\ NbitsToTargetDefined(new)
         /\ LteArr(NbitsToTarget(new), UNROUNDED_MAX_TARGET)
<1> DEFINE d == prev_time - start_time
           t == NbitsToTarget(nbits)
           time_span == Min({Max({d, TARGET_TIMESPAN_DIV_4}), TARGET_TIMESPAN_MUL_4})
           prod == MulInPlace(t, time_span)
           target == DivInPlace(prod, TARGET_TIMESPAN)
           top == UNROUNDED_MAX_TARGET
           lim == IF GtArr(target, top) THEN top ELSE target
<1>1. new = TargetToNbits(lim)
  BY DEF ComputeNewNbits
<1>2. d \in Nat
  OBVIOUS
<1> HIDE DEF d
<1>3. time_span = Bitcoin!Clamp(d) /\ time_span \in Nat /\ time_span <= TARGET_TIMESPAN_MUL_4
  <2>1. Max({d, TARGET_TIMESPAN_DIV_4}) = IF d <= TARGET_TIMESPAN_DIV_4 THEN TARGET_TIMESPAN_DIV_4 ELSE d
    BY <1>2, Spans, MinMaxOfTwo
  <2> DEFINE x == Max({d, TARGET_TIMESPAN_DIV_4})
  <2>2. x \in Nat
    BY <1>2, <2>1, Spans
  <2> HIDE DEF x
  <2>3. time_span = IF x <= TARGET_TIMESPAN_MUL_4 THEN x ELSE TARGET_TIMESPAN_MUL_4
    BY <2>2, Spans, MinMaxOfTwo DEF x
  <2>4. Min({TARGET_TIMESPAN_MUL_4, d}) = IF TARGET_TIMESPAN_MUL_4 <= d THEN TARGET_TIMESPAN_MUL_4 ELSE d
    BY <1>2, Spans, MinMaxOfTwo
  <2> DEFINE y == Min({TARGET_TIMESPAN_MUL_4, d})
  <2>5. y \in Nat
    BY <1>2, <2>4, Spans
  <2> HIDE DEF y
  <2>6. Max({TARGET_TIMESPAN_DIV_4, y}) = IF TARGET_TIMESPAN_DIV_4 <= y THEN y ELSE TARGET_TIMESPAN_DIV_4
    BY <2>5, Spans, MinMaxOfTwo
  <2>7. Bitcoin!Clamp(d) = Max({TARGET_TIMESPAN_DIV_4, y})
    BY DEF Bitcoin!Clamp, Bitcoin!Max, Bitcoin!Min, Max, Min, y, TARGET_TIMESPAN_DIV_4, TARGET_TIMESPAN_MUL_4
  <2>8. x = IF d <= TARGET_TIMESPAN_DIV_4 THEN TARGET_TIMESPAN_DIV_4 ELSE d
    BY <2>1 DEF x
  <2>9. y = IF TARGET_TIMESPAN_MUL_4 <= d THEN TARGET_TIMESPAN_MUL_4 ELSE d
    BY <2>4 DEF y
  <2> HIDE DEF time_span
  <2> QED
    BY <1>2, <2>2, <2>3, <2>5, <2>6, <2>7, <2>8, <2>9, Spans
<1> HIDE DEF time_span
<1>4. /\ t \in Array
      /\ Value(t) = Bitcoin!Expand(nbits)
      /\ Value(t) \in Nat
      /\ Value(t) < Pow[BYTES - LEADING]
  BY SoundTarget
<1> HIDE DEF t
<1>5. Value(t) * time_span < Pow[BYTES]
  <2>1. BYTES - LEADING \in Nat /\ LEADING \in Nat /\ (BYTES - LEADING) + LEADING = BYTES
    BY Leadings, Bases
  <2>2. Pow[BYTES] = Pow[BYTES - LEADING] * Pow[LEADING]
    BY <2>1, PowAdd
  <2> DEFINE v == Value(t)
             p == Pow[BYTES - LEADING]
             q == Pow[LEADING]
             s == time_span
  <2>3. v \in Nat /\ p \in Nat /\ q \in Nat \ {0} /\ s \in Nat /\ v < p /\ s <= q
    BY <1>3, <1>4, <2>1, PowPos, Spans
  <2> HIDE DEF v, p, q, s
  <2>4. v * s <= v * q
    BY <2>3, MulOrder
  <2>5. (v + 1) * q <= p * q /\ (v + 1) * q = v * q + q
    <3>1. v + 1 \in Nat /\ v + 1 <= p
      BY <2>3
    <3>2. (v + 1) * q <= p * q
      BY <2>3, <3>1, MulOrder
    <3> QED
      BY <2>3, <3>2
  <2>6. v * s \in Nat /\ v * q \in Nat /\ p * q \in Nat
    BY <2>3, MulType
  <2>7. v * s < p * q
    BY <2>3, <2>4, <2>5, <2>6
  <2> QED
    BY <2>2, <2>7 DEF v, p, q, s
<1>6. prod \in Array /\ Value(prod) = Value(t) * time_span
  BY <1>3, <1>4, <1>5, MulIs
<1> HIDE DEF prod
<1>7. target \in Array /\ Value(target) = Value(prod) \div TARGET_TIMESPAN
  BY <1>6, Spans, DivIs
<1> HIDE DEF target
<1>8. top \in Array
  BY LimitTypes
<1> HIDE DEF top
<1>9. Value(target) \in Nat /\ Value(top) \in Nat
  BY <1>7, <1>8, ValueBound
<1>10. lim \in Array /\ Value(lim) = Min({Value(top), Value(target)}) /\ Value(lim) <= Value(top)
  <2>1. GtArr(target, top) <=> Value(target) > Value(top)
    BY <1>7, <1>8, GtIsGreater
  <2>2. Min({Value(top), Value(target)}) = IF Value(top) <= Value(target) THEN Value(top) ELSE Value(target)
    BY <1>9, MinMaxOfTwo
  <2> QED
    BY <1>7, <1>8, <1>9, <2>1, <2>2
<1> HIDE DEF lim
<1>11. new = Bitcoin!Compact(Value(lim)) /\ new \in Nbits /\ new.word[1] < BASE \div 2
  BY <1>1, <1>10, NbitsIsCompact
<1>12. NbitsToTargetDefined(new)
  BY <1>1, <1>10, CompactFits DEF top
<1>13. LteArr(NbitsToTarget(new), top)
  <2>1. Value(NbitsToTarget(new)) <= Value(lim)
    BY <1>1, <1>10, <1>12, CompactRoundsDown
  <2>2. NbitsToTarget(new) \in Array
    BY <1>11, <1>12, TargetDigits
  <2>3. Value(NbitsToTarget(new)) \in Nat /\ Value(lim) \in Nat
    BY <1>10, <2>2, ValueBound
  <2>4. Value(NbitsToTarget(new)) <= Value(top)
    BY <1>9, <1>10, <2>1, <2>3
  <2> QED
    BY <1>8, <2>2, <2>4, GtIsGreater
<1> QED
  BY <1>3, <1>4, <1>6, <1>7, <1>10, <1>11, <1>12, <1>13 DEF top, d

-----------------------------------------------------------------------------
(***************************************************************************)
(* The committed header is in step with its chain.                         *)
(***************************************************************************)

LEMMA RuleConstants ==
  /\ DIFF_ADJUSTMENT_INTERVAL \in Nat \ {0}
  /\ PREV_TIMESTAMPS \in Nat
  /\ Timestamp \in SUBSET Nat
  /\ Clock \in SUBSET Nat
  /\ MaxHeight \in Nat
BY HeaderRuleAssumption

SeenHeader == [timestamp : Timestamp, nbits : Nbits, block_hash : Nat]

LEMMA SeenFields ==
  ASSUME NEW header \in BlockHeader
  PROVE  /\ Seen(header) \in SeenHeader
         /\ Seen(header).timestamp = header.timestamp
         /\ Seen(header).nbits = header.nbits
         /\ Seen(header).block_hash = Value(header.block_hash)
<1>1. header.block_hash \in Array /\ header.timestamp \in Timestamp /\ header.nbits \in Nbits
      /\ header = [timestamp |-> header.timestamp, nbits |-> header.nbits, block_hash |-> header.block_hash]
  BY DEF BlockHeader
<1>2. Value(header.block_hash) \in Nat
  BY <1>1, ValueBound
<1>3. Seen(header) = [timestamp |-> header.timestamp, nbits |-> header.nbits,
                      block_hash |-> Value(header.block_hash)]
  BY <1>1 DEF Seen
<1> QED
  BY <1>1, <1>2, <1>3 DEF SeenHeader

\* Where the first header of the running period is.
PeriodStart(n) == n - ((n-1) % DIFF_ADJUSTMENT_INTERVAL)

LEMMA PeriodStarts ==
  ASSUME NEW n \in Nat \ {0}
  PROVE  /\ PeriodStart(n) \in 1 .. n
         /\ n % DIFF_ADJUSTMENT_INTERVAL = 0 => PeriodStart(n+1) = n + 1
         /\ n % DIFF_ADJUSTMENT_INTERVAL # 0 => PeriodStart(n+1) = PeriodStart(n)
         /\ n % DIFF_ADJUSTMENT_INTERVAL = 0 => PeriodStart(n) = n - DIFF_ADJUSTMENT_INTERVAL + 1
<1> DEFINE I == DIFF_ADJUSTMENT_INTERVAL
           m == n - 1
           q == m \div I
           r == m % I
<1>1. I \in Nat \ {0} /\ m \in Nat
  BY RuleConstants
<1> HIDE DEF I, m
<1>2. q \in Nat /\ r \in 0 .. I - 1 /\ m = I * q + r
  BY <1>1, DivMod
<1>3. r <= m
  BY <1>1, <1>2, MulType
<1> HIDE DEF q, r
<1>4. n = m + 1
  BY DEF m
<1>5. r + 1 < I => n % I = r + 1
  <2> SUFFICES ASSUME r + 1 < I PROVE n % I = r + 1
    OBVIOUS
  <2>1. r + 1 \in 0 .. I - 1 /\ I * q \in Nat
    BY <1>1, <1>2, MulType
  <2> DEFINE x == r + 1
  <2>2. n = I * q + x /\ x \in 0 .. I - 1 /\ n \in Nat
    BY <1>1, <1>2, <1>4, <2>1
  <2> HIDE DEF x
  <2>3. n % I = x
    BY <1>1, <1>2, <2>2, DivUnique
  <2> QED
    BY <2>3 DEF x
<1>6. r + 1 = I => n % I = 0
  <2> SUFFICES ASSUME r + 1 = I PROVE n % I = 0
    OBVIOUS
  <2>1. I * (q + 1) = I * q + I /\ I * q \in Nat
    BY <1>1, <1>2, MulType
  <2>2. n = I * (q + 1) + 0 /\ q + 1 \in Nat /\ 0 \in 0 .. I - 1
    BY <1>1, <1>2, <1>4, <2>1
  <2> QED
    BY <1>1, <2>2, DivUnique
<1>7. r \in Nat /\ (r + 1 < I \/ r + 1 = I)
  BY <1>1, <1>2
<1>8. PeriodStart(n) = n - r
  BY DEF PeriodStart, r, I, m
<1>9. PeriodStart(n+1) = (n + 1) - (n % I)
  <2>1. (n + 1) - 1 = n
    OBVIOUS
  <2> QED
    BY <2>1 DEF PeriodStart, I
<1> QED
  BY <1>1, <1>3, <1>4, <1>5, <1>6, <1>7, <1>8, <1>9 DEF I

HeaderInv ==
  /\ TypeOK
  /\ chain \in Seq(SeenHeader)
  /\ Len(chain) > PREV_TIMESTAMPS
  /\ ContextMatches
  /\ SoundNbits(last.header.nbits)

LEMMA ContextFacts ==
  ASSUME HeaderInv,
         NEW n, n = Len(chain)
  PROVE  /\ n \in Nat \ {0}
         /\ n > PREV_TIMESTAMPS
         /\ last \in CommittedBlockHeader
         /\ last.header \in BlockHeader
         /\ last.header.nbits \in Nbits
         /\ last.header.timestamp \in Nat
         /\ last.last_diff_adjustment \in Nat
         /\ last.chain_work \in Array
         /\ last.blockheight = n - 1
         /\ \A i \in 1 .. n : chain[i] \in SeenHeader /\ chain[i].timestamp \in Nat
         /\ chain[n] = Seen(last.header)
         /\ chain[n].nbits = last.header.nbits
         /\ chain[n].timestamp = last.header.timestamp
         /\ last.last_diff_adjustment = chain[PeriodStart(n)].timestamp
         /\ \A i \in 1 .. PREV_TIMESTAMPS :
              last.prev_block_timestamps[i] = chain[n - 1 - PREV_TIMESTAMPS + i].timestamp
<1>1. n \in Nat \ {0} /\ n > PREV_TIMESTAMPS
  BY RuleConstants DEF HeaderInv
<1>2. last \in CommittedBlockHeader
  BY DEF HeaderInv, TypeOK
<1>3. last.header \in BlockHeader /\ last.last_diff_adjustment \in Nat /\ last.chain_work \in Array
  BY <1>2, RuleConstants DEF CommittedBlockHeader
<1>4. last.header.nbits \in Nbits /\ last.header.timestamp \in Nat
  BY <1>3, RuleConstants DEF BlockHeader
<1>5. \A i \in 1 .. n : chain[i] \in SeenHeader /\ chain[i].timestamp \in Nat
  <2> TAKE i \in 1 .. n
  <2>1. chain[i] \in SeenHeader
    BY <1>1 DEF HeaderInv
  <2>2. chain[i].timestamp \in Timestamp
    BY <2>1 DEF SeenHeader
  <2> QED
    BY <2>1, <2>2, RuleConstants
<1>6. /\ last.blockheight = n - 1
      /\ chain[n] = Seen(last.header)
      /\ last.last_diff_adjustment = chain[PeriodStart(n)].timestamp
      /\ \A i \in 1 .. PREV_TIMESTAMPS :
           last.prev_block_timestamps[i] = chain[n - 1 - PREV_TIMESTAMPS + i].timestamp
  BY DEF HeaderInv, ContextMatches, PeriodStart
<1> QED
  BY <1>1, <1>2, <1>3, <1>4, <1>5, <1>6, SeenFields

LEMMA InitInv == Init => HeaderInv
<1> SUFFICES ASSUME Init PROVE HeaderInv
  OBVIOUS
<1>1. PICK first \in FirstChains :
        /\ last = CheckpointOf(first)
        /\ chain = [i \in DOMAIN first |-> Seen(first[i])]
  BY DEF Init
<1>2. /\ first \in Seq(BlockHeader)
      /\ Len(first) > PREV_TIMESTAMPS
      /\ SoundNbits(first[Len(first)].nbits)
  BY FirstChainAssumption
<1> DEFINE n == Len(first)
           work == GetDifficulty(NbitsToTarget(first[n].nbits))
           adj == first[PeriodStart(n)].timestamp
           past == [i \in 1 .. PREV_TIMESTAMPS |-> first[n - 1 - PREV_TIMESTAMPS + i].timestamp]
<1>3. n \in Nat \ {0} /\ n > PREV_TIMESTAMPS /\ DOMAIN first = 1 .. n
  BY <1>2, RuleConstants
<1>4. last = [chain_work |-> work, header |-> first[n], last_diff_adjustment |-> adj,
              blockheight |-> n - 1, prev_block_timestamps |-> past]
  BY <1>1 DEF CheckpointOf, PeriodStart
<1>5. \A i \in 1 .. n : first[i] \in BlockHeader
  BY <1>2
<1> HIDE DEF n
<1>6. \A i \in 1 .. n : first[i].timestamp \in Timestamp /\ first[i].nbits \in Nbits
  BY <1>5 DEF BlockHeader
<1>7. n \in 1 .. n /\ PeriodStart(n) \in 1 .. n
  BY <1>3, PeriodStarts
<1>8. \A i \in 1 .. PREV_TIMESTAMPS : n - 1 - PREV_TIMESTAMPS + i \in 1 .. n
  BY <1>3, RuleConstants
<1>9. work \in Array
  <2>1. SoundNbits(first[n].nbits) /\ first[n].nbits \in Nbits
    BY <1>2, <1>6, <1>7 DEF n
  <2> QED
    BY <2>1, SoundTarget
<1>10. adj \in Timestamp /\ past \in [1 .. PREV_TIMESTAMPS -> Timestamp]
  BY <1>6, <1>7, <1>8
<1> HIDE DEF work, adj, past
<1>11. last \in CommittedBlockHeader
  BY <1>3, <1>4, <1>5, <1>7, <1>9, <1>10 DEF CommittedBlockHeader
<1>12. chain \in Seq(SeenHeader) /\ Len(chain) = n /\ \A i \in 1 .. n : chain[i] = Seen(first[i])
  <2>1. \A i \in 1 .. n : Seen(first[i]) \in SeenHeader
    BY <1>5, SeenFields
  <2>2. chain = [i \in 1 .. n |-> Seen(first[i])]
    BY <1>1, <1>3
  <2>3. chain \in [1 .. n -> SeenHeader]
    BY <2>1, <2>2
  <2> QED
    BY <1>3, <2>2, <2>3
<1>13. ContextMatches
  <2>1. \A i \in 1 .. n : chain[i].timestamp = first[i].timestamp
    BY <1>5, <1>12, SeenFields
  <2>2. adj = chain[PeriodStart(n)].timestamp
    BY <1>7, <2>1 DEF adj
  <2>3. \A i \in 1 .. PREV_TIMESTAMPS : past[i] = chain[n - 1 - PREV_TIMESTAMPS + i].timestamp
    BY <1>8, <2>1 DEF past
  <2> QED
    BY <1>4, <1>7, <1>12, <2>2, <2>3 DEF ContextMatches, PeriodStart
<1>14. SoundNbits(last.header.nbits)
  BY <1>2, <1>4 DEF n
<1>15. TypeOK
  BY <1>3, <1>4, <1>11, <1>12 DEF TypeOK
<1> QED
  BY <1>3, <1>12, <1>11, <1>13, <1>14, <1>15 DEF HeaderInv

\* The target that the code asks for is the one that Bitcoin asks for.
LEMMA CorrectTarget ==
  ASSUME HeaderInv, NEW nbits \in Nbits, HasCorrectDifficultyTarget(last, nbits),
         NbitsToTargetDefined(nbits), GetDifficultyDefined(NbitsToTarget(nbits))
  PROVE  nbits = Bitcoin!RequiredNbits /\ SoundNbits(nbits)
<1> DEFINE n == Len(chain)
           prev == last.header.nbits
           p == last.header.timestamp
           s == last.last_diff_adjustment
<1>1. /\ n \in Nat \ {0}
      /\ last.header.nbits \in Nbits
      /\ p \in Nat /\ s \in Nat
      /\ last.blockheight = n - 1
      /\ chain[n].nbits = last.header.nbits
      /\ chain[n].timestamp = p
      /\ s = chain[PeriodStart(n)].timestamp
  BY ContextFacts
<1>2. SoundNbits(prev)
  BY DEF HeaderInv
<1>3. last.blockheight + 1 = n
  BY <1>1
<1>4. CASE n % DIFF_ADJUSTMENT_INTERVAL = 0
  <2>1. /\ p >= s
        /\ nbits = ComputeNewNbits(p, s, NbitsToTarget(prev))
    BY <1>3, <1>4 DEF HasCorrectDifficultyTarget, ShouldDiffAdjust, ComputeNewNbitsDefined
  <2>2. /\ nbits = Bitcoin!Compact(Min({Value(UNROUNDED_MAX_TARGET),
                     (Bitcoin!Expand(prev) * Bitcoin!Clamp(p - s)) \div TARGET_TIMESPAN}))
        /\ nbits.word[1] < BASE \div 2
        /\ LteArr(NbitsToTarget(nbits), UNROUNDED_MAX_TARGET)
    <3>1. prev \in Nbits
      BY <1>1
    <3>2. p \in Nat /\ s \in Nat
      BY <1>1
    <3> HIDE DEF prev, p, s
    <3>3. /\ nbits = Bitcoin!Compact(Min({Value(UNROUNDED_MAX_TARGET),
                       (Bitcoin!Expand(prev) * Bitcoin!Clamp(p - s)) \div TARGET_TIMESPAN}))
          /\ nbits.word[1] < BASE \div 2
          /\ LteArr(NbitsToTarget(nbits), UNROUNDED_MAX_TARGET)
      BY <1>2, <2>1, <3>1, <3>2, RetargetIs
    <3> QED
      BY <3>3
  <2>3. Bitcoin!PeriodTime = p - s
    <3>1. PeriodStart(n) = n - DIFF_ADJUSTMENT_INTERVAL + 1
      BY <1>1, <1>4, PeriodStarts
    <3> QED
      BY <1>1, <3>1 DEF Bitcoin!PeriodTime, Bitcoin!Tip
  <2>4. Bitcoin!RequiredNbits =
          Bitcoin!Compact(Min({Value(UNROUNDED_MAX_TARGET),
            (Bitcoin!Expand(prev) * Bitcoin!Clamp(p - s)) \div TARGET_TIMESPAN}))
    BY <1>1, <1>4, <2>3 DEF Bitcoin!RequiredNbits, Bitcoin!Tip, Bitcoin!Min, Min
  <2> QED
    BY <2>2, <2>4 DEF SoundNbits
<1>5. CASE n % DIFF_ADJUSTMENT_INTERVAL # 0
  <2>1. nbits = prev
    BY <1>3, <1>5 DEF HasCorrectDifficultyTarget, ShouldDiffAdjust
  <2>2. Bitcoin!RequiredNbits = prev
    BY <1>1, <1>5 DEF Bitcoin!RequiredNbits, Bitcoin!Tip
  <2> QED
    BY <1>2, <2>1, <2>2
<1> QED
  BY <1>4, <1>5

LEMMA VerifyHeaderInv ==
  ASSUME HeaderInv, NEW header \in BlockHeader, NEW now \in Clock, VerifyHeader(header, now)
  PROVE  HeaderInv'
<1> DEFINE n == Len(chain)
           t == NbitsToTarget(header.nbits)
           work == AddInPlace(last.chain_work, GetDifficulty(t))
           adj == IF ShouldDiffAdjust(last.blockheight + 1)
                  THEN header.timestamp ELSE last.last_diff_adjustment
           past == PushTimestamp(last.prev_block_timestamps, last.header.timestamp)
<1>1. HeaderPasses(header, last, now) /\ last' = CommittedAfter(header, last)
      /\ chain' = Append(chain, Seen(header))
  BY DEF VerifyHeader
<1>2. /\ n \in Nat \ {0}
      /\ n > PREV_TIMESTAMPS
      /\ last \in CommittedBlockHeader
      /\ last.header \in BlockHeader
      /\ last.chain_work \in Array
      /\ last.blockheight = n - 1
      /\ chain[n].timestamp = last.header.timestamp
      /\ last.last_diff_adjustment = chain[PeriodStart(n)].timestamp
      /\ \A i \in 1 .. PREV_TIMESTAMPS :
           last.prev_block_timestamps[i] = chain[n - 1 - PREV_TIMESTAMPS + i].timestamp
  BY ContextFacts
<1>3. chain \in Seq(SeenHeader)
  BY DEF HeaderInv
<1>4. header.nbits \in Nbits /\ header.timestamp \in Timestamp
  BY DEF BlockHeader
<1>5. SoundNbits(header.nbits)
  BY <1>1, <1>4, CorrectTarget DEF HeaderPasses
<1>6. last' = [chain_work |-> work, header |-> header, last_diff_adjustment |-> adj,
               blockheight |-> last.blockheight + 1, prev_block_timestamps |-> past]
  BY <1>1 DEF CommittedAfter
<1>7. work \in Array
  BY <1>2, <1>4, <1>5, SoundTarget, AddIs
<1>8. last.last_diff_adjustment \in Timestamp /\ last.header.timestamp \in Timestamp
      /\ last.prev_block_timestamps \in [1 .. PREV_TIMESTAMPS -> Timestamp]
  BY <1>2 DEF CommittedBlockHeader, BlockHeader
<1>9. adj \in Timestamp
  BY <1>4, <1>8
<1>10. past \in [1 .. PREV_TIMESTAMPS -> Timestamp]
       /\ \A i \in 1 .. PREV_TIMESTAMPS :
            past[i] = IF i < PREV_TIMESTAMPS THEN last.prev_block_timestamps[i+1]
                      ELSE last.header.timestamp
  <2>1. \A i \in 1 .. PREV_TIMESTAMPS : i < PREV_TIMESTAMPS => i + 1 \in 1 .. PREV_TIMESTAMPS
    BY RuleConstants
  <2> QED
    BY <1>8, <2>1 DEF PushTimestamp
<1>11. /\ chain' \in Seq(SeenHeader)
       /\ Len(chain') = n + 1
       /\ chain'[n+1] = Seen(header)
       /\ \A i \in 1 .. n : chain'[i] = chain[i]
  <2>1. Seen(header) \in SeenHeader
    BY SeenFields
  <2> QED
    BY <1>1, <1>2, <1>3, <2>1
<1> HIDE DEF n, work, past, adj
<1>12. last'.blockheight = n /\ last'.header = header /\ last'.last_diff_adjustment = adj
       /\ last'.prev_block_timestamps = past
  BY <1>2, <1>6
<1>13. last' \in CommittedBlockHeader
  BY <1>2, <1>6, <1>7, <1>9, <1>10 DEF CommittedBlockHeader
<1>14. TypeOK'
  BY <1>11, <1>12, <1>13 DEF TypeOK
<1>15. adj = chain'[PeriodStart(n+1)].timestamp
  <2>1. last.blockheight + 1 = n
    BY <1>2
  <2>2. CASE n % DIFF_ADJUSTMENT_INTERVAL = 0
    <3>1. adj = header.timestamp
      BY <2>1, <2>2 DEF adj, ShouldDiffAdjust
    <3>2. PeriodStart(n+1) = n + 1
      BY <1>2, <2>2, PeriodStarts
    <3> QED
      BY <1>11, <3>1, <3>2, SeenFields
  <2>3. CASE n % DIFF_ADJUSTMENT_INTERVAL # 0
    <3>1. adj = last.last_diff_adjustment
      BY <2>1, <2>3 DEF adj, ShouldDiffAdjust
    <3>2. PeriodStart(n+1) = PeriodStart(n) /\ PeriodStart(n) \in 1 .. n
      BY <1>2, <2>3, PeriodStarts
    <3> QED
      BY <1>2, <1>11, <3>1, <3>2
  <2> QED
    BY <2>2, <2>3
<1>16. \A i \in 1 .. PREV_TIMESTAMPS :
         past[i] = chain'[(n + 1) - 1 - PREV_TIMESTAMPS + i].timestamp
  <2> TAKE i \in 1 .. PREV_TIMESTAMPS
  <2>1. CASE i < PREV_TIMESTAMPS
    <3> DEFINE k == n - 1 - PREV_TIMESTAMPS + (i+1)
    <3>1. i + 1 \in 1 .. PREV_TIMESTAMPS /\ k \in 1 .. n
          /\ (n + 1) - 1 - PREV_TIMESTAMPS + i = k
      BY <1>2, <2>1, RuleConstants
    <3>2. past[i] = last.prev_block_timestamps[i+1]
      BY <1>10, <2>1
    <3>3. last.prev_block_timestamps[i+1] = chain[k].timestamp
      BY <1>2, <3>1
    <3> QED
      BY <1>11, <3>1, <3>2, <3>3
  <2>2. CASE ~ (i < PREV_TIMESTAMPS)
    <3>1. (n + 1) - 1 - PREV_TIMESTAMPS + i = n /\ n \in 1 .. n
      BY <1>2, <2>2, RuleConstants
    <3>2. past[i] = last.header.timestamp
      BY <1>10, <2>2
    <3> QED
      BY <1>2, <1>11, <3>1, <3>2
  <2> QED
    BY <2>1, <2>2
<1>17. ContextMatches'
  <2>1. n = (n + 1) - 1
    BY <1>2
  <2> QED
    BY <1>11, <1>12, <1>15, <1>16, <2>1 DEF ContextMatches, PeriodStart
<1>18. SoundNbits(last.header.nbits)'
  BY <1>5, <1>12
<1>19. Len(chain') > PREV_TIMESTAMPS
  BY <1>2, <1>11, RuleConstants
<1> QED
  BY <1>11, <1>14, <1>17, <1>18, <1>19 DEF HeaderInv

LEMMA NextInv == HeaderInv /\ [Next]_vars => HeaderInv'
<1> SUFFICES ASSUME HeaderInv, [Next]_vars PROVE HeaderInv'
  OBVIOUS
<1>1. CASE Next
  <2>1. PICK header \in Offered(last) \cap BlockHeader, now \in Clock : VerifyHeader(header, now)
    BY <1>1 DEF Next
  <2> QED
    BY <2>1, VerifyHeaderInv
<1>2. CASE UNCHANGED vars
  BY <1>2 DEF vars, HeaderInv, TypeOK, ContextMatches
<1> QED
  BY <1>1, <1>2

LEMMA Invariance == Spec => []HeaderInv
BY InitInv, NextInv, PTL DEF Spec

\* A committed header has the fields and the height that its chain needs.
THEOREM HeadersTyped == Spec => []TypeOK
<1>1. HeaderInv => TypeOK
  BY DEF HeaderInv
<1> QED
  BY <1>1, Invariance, PTL

\* For every interval between adjustments and every number of past times, the
\* context that is handed on header by header is the one that can be read from
\* the chain.
THEOREM ContextFollowsChain == Spec => []ContextMatches
<1>1. HeaderInv => ContextMatches
  BY DEF HeaderInv
<1> QED
  BY <1>1, Invariance, PTL

-----------------------------------------------------------------------------
(***************************************************************************)
(* The median of the last times.                                           *)
(***************************************************************************)

\* The numbers that a function has on a finite set have a bound.
LEMMA BoundExists ==
  ASSUME NEW S, IsFiniteSet(S), NEW f \in [S -> Nat]
  PROVE  \E u \in Nat : \A i \in S : f[i] <= u
<1> DEFINE P == {T \in SUBSET S : \E u \in Nat : \A i \in T : f[i] <= u}
<1>1. ASSUME NEW T \in SUBSET S, \A x \in T : T \ {x} \in P
      PROVE  T \in P
  <2>1. CASE T = {}
    <3>1. 0 \in Nat /\ \A i \in T : f[i] <= 0
      BY <2>1
    <3> QED
      BY <3>1
  <2>2. CASE T # {}
    <3>1. PICK x \in T : TRUE
      BY <2>2
    <3>2. PICK u \in Nat : \A i \in T \ {x} : f[i] <= u
      BY <1>1
    <3> DEFINE v == IF f[x] <= u THEN u ELSE f[x]
    <3>3. v \in Nat /\ u <= v /\ f[x] <= v
      OBVIOUS
    <3>4. \A i \in T : f[i] \in Nat
      OBVIOUS
    <3> HIDE DEF v
    <3>5. \A i \in T : f[i] <= v
      BY <3>2, <3>3, <3>4
    <3> QED
      BY <3>3, <3>5
  <2> QED
    BY <2>1, <2>2
<1> HIDE DEF P
<1>2. S \in P
  BY <1>1, SubsetInduction
<1> QED
  BY <1>2 DEF P

\* A time that at most h others are before, and that ends more than h.
MedianOf(f, S, h) ==
  CHOOSE t \in {f[i] : i \in S} :
    /\ Cardinality({i \in S : f[i] < t}) <= h
    /\ Cardinality({i \in S : f[i] <= t}) > h

\* An odd number of times has a median, and a time is after it when it is after
\* more than half of them.
LEMMA MedianIs ==
  ASSUME NEW S, IsFiniteSet(S), NEW f \in [S -> Nat], NEW h \in Nat, Cardinality(S) > h,
         NEW m, m = MedianOf(f, S, h)
  PROVE  /\ m \in Nat
         /\ \A t \in Nat : t > m <=> Cardinality({i \in S : f[i] < t}) > h
<1> DEFINE Before(t) == {i \in S : f[i] < t}
           Until(t) == {i \in S : f[i] <= t}
           A == {t \in Nat : Cardinality(Until(t)) > h}
<1>1. ASSUME NEW T \in SUBSET S
      PROVE  Cardinality(T) \in Nat /\ \A R \in SUBSET T : Cardinality(R) \in Nat /\ Cardinality(R) <= Cardinality(T)
  <2>1. IsFiniteSet(T)
    BY FS_Subset
  <2> QED
    BY <2>1, FS_Subset, FS_CardinalityType
<1>2. A # {}
  <2>1. PICK u \in Nat : \A i \in S : f[i] <= u
    BY BoundExists
  <2>2. Until(u) = S
    BY <2>1
  <2> QED
    BY <2>2
<1>3. A \in SUBSET Nat
  OBVIOUS
<1> HIDE DEF A
<1>4. PICK t \in A : \A y \in A : t <= y
  BY <1>2, <1>3, SmallestExists
<1>5. t \in Nat /\ Cardinality(Until(t)) > h
  BY <1>4 DEF A
<1>6. Cardinality(Before(t)) <= h
  <2>1. CASE t = 0
    <3>1. Before(t) = {}
      BY <2>1
    <3> QED
      BY <3>1, FS_EmptySet
  <2>2. CASE t # 0
    <3>1. t - 1 \in Nat /\ ~ (t <= t - 1)
      BY <1>5, <2>2
    <3>2. ~ (Cardinality(Until(t-1)) > h)
      BY <1>4, <3>1 DEF A
    <3>3. Before(t) = Until(t-1)
      BY <1>5
    <3>4. Cardinality(Until(t-1)) \in Nat
      BY <1>1
    <3> HIDE DEF Before, Until
    <3> QED
      BY <3>2, <3>3, <3>4
  <2> QED
    BY <2>1, <2>2
<1>7. t \in {f[i] : i \in S}
  <2> SUFFICES ASSUME t \notin {f[i] : i \in S} PROVE FALSE
    OBVIOUS
  <2>1. Before(t) = Until(t)
    BY <1>5
  <2> QED
    BY <1>1, <1>5, <1>6, <2>1
<1>8. m \in {f[i] : i \in S} /\ Cardinality(Before(m)) <= h /\ Cardinality(Until(m)) > h
  BY <1>5, <1>6, <1>7 DEF MedianOf
<1>9. m \in Nat
  BY <1>8
<1>10. ASSUME NEW x \in Nat
       PROVE  x > m <=> Cardinality(Before(x)) > h
  <2>1. Cardinality(Before(x)) \in Nat /\ Cardinality(Until(m)) \in Nat /\ Cardinality(Before(m)) \in Nat
    BY <1>1
  <2>2. ASSUME x > m PROVE Cardinality(Before(x)) > h
    <3>1. Until(m) \in SUBSET Before(x)
      <4> SUFFICES ASSUME NEW i \in S, f[i] <= m PROVE f[i] < x
        OBVIOUS
      <4>1. f[i] \in Nat
        OBVIOUS
      <4> HIDE DEF Before, Until
      <4> QED
        BY <1>9, <2>2, <4>1
    <3>2. Cardinality(Until(m)) <= Cardinality(Before(x))
      BY <1>1, <3>1
    <3> QED
      BY <1>8, <2>1, <3>2
  <2>3. ASSUME x <= m PROVE Cardinality(Before(x)) <= h
    <3>1. Before(x) \in SUBSET Before(m)
      <4> SUFFICES ASSUME NEW i \in S, f[i] < x PROVE f[i] < m
        OBVIOUS
      <4>1. f[i] \in Nat
        OBVIOUS
      <4> HIDE DEF Before, Until
      <4> QED
        BY <1>9, <2>3, <4>1
    <3>2. Cardinality(Before(x)) <= Cardinality(Before(m))
      BY <1>1, <3>1
    <3> QED
      BY <1>8, <2>1, <3>2
  <2> QED
    BY <1>9, <2>1, <2>2, <2>3
<1> QED
  BY <1>9, <1>10

\* The times in the committed header, with its own, are those of the last blocks.
LEMMA CountIs ==
  ASSUME HeaderInv, NEW t \in Nat,
         NEW n, n = Len(chain)
  PROVE  Cardinality({i \in n - PREV_TIMESTAMPS .. n : chain[i].timestamp < t})
         = Cardinality({i \in DOMAIN last.prev_block_timestamps : t > last.prev_block_timestamps[i]})
           + (IF t > last.header.timestamp THEN 1 ELSE 0)
<1> DEFINE arr == last.prev_block_timestamps
           k == PREV_TIMESTAMPS
           A == {i \in 1 .. k : t > arr[i]}
           B == {j \in n - k .. n - 1 : chain[j].timestamp < t}
           S == {i \in n - k .. n : chain[i].timestamp < t}
           f == [i \in A |-> n - 1 - k + i]
<1>1. /\ n \in Nat \ {0}
      /\ n > k
      /\ last \in CommittedBlockHeader
      /\ last.header.timestamp \in Nat
      /\ \A i \in 1 .. n : chain[i].timestamp \in Nat
      /\ chain[n].timestamp = last.header.timestamp
      /\ \A i \in 1 .. k : arr[i] = chain[n - 1 - k + i].timestamp
  BY ContextFacts
<1>2. k \in Nat
  BY RuleConstants
<1>3. DOMAIN arr = 1 .. k
  BY <1>1 DEF CommittedBlockHeader
<1> HIDE DEF arr, k
<1>4. IsFiniteSet(A) /\ IsFiniteSet(B)
  <2>1. IsFiniteSet(1 .. k) /\ IsFiniteSet(n - k .. n - 1)
    BY <1>1, <1>2, FS_Interval
  <2> QED
    BY <2>1, FS_Subset
<1>5. ExistsBijection(A, B)
  <2>1. \A i \in A : f[i] \in B
    <3> TAKE i \in A
    <3>1. i \in 1 .. k /\ t > arr[i] /\ arr[i] = chain[n - 1 - k + i].timestamp
      BY <1>1
    <3>2. n - 1 - k + i \in n - k .. n - 1
      BY <1>1, <1>2, <3>1
    <3>3. n - 1 - k + i \in 1 .. n
      BY <1>1, <1>2, <3>1
    <3> DEFINE j == n - 1 - k + i
    <3>4. j \in n - k .. n - 1 /\ j \in 1 .. n /\ t > chain[j].timestamp
      BY <3>1, <3>2, <3>3
    <3>5. f[i] = j
      OBVIOUS
    <3> HIDE DEF j, f
    <3>6. chain[j].timestamp < t
      BY <1>1, <3>4
    <3> QED
      BY <3>4, <3>5, <3>6
  <2>2. \A x, y \in A : f[x] = f[y] => x = y
    BY <1>1, <1>2
  <2>3. \A j \in B : \E i \in A : f[i] = j
    <3> TAKE j \in B
    <3> DEFINE i == j - (n - 1 - k)
    <3>1. i \in 1 .. k /\ n - 1 - k + i = j /\ j \in 1 .. n
      BY <1>1, <1>2
    <3> HIDE DEF i
    <3>2. arr[i] = chain[j].timestamp
      BY <1>1, <3>1
    <3>3. t > arr[i]
      BY <1>1, <3>1, <3>2
    <3>4. i \in A
      BY <3>1, <3>3
    <3> QED
      BY <3>1, <3>4
  <2>4. f \in [A -> B]
    BY <2>1
  <2> HIDE DEF A, B, f
  <2> QED
    BY <2>2, <2>3, <2>4 DEF ExistsBijection, Bijection, Injection, IsInjective, Surjection
<1>6. Cardinality(A) = Cardinality(B) /\ Cardinality(B) \in Nat
  BY <1>4, <1>5, FS_Bijection, FS_CardinalityType
<1>7. n \notin B
  BY <1>1
<1>8. S = IF t > last.header.timestamp THEN B \cup {n} ELSE B
  BY <1>1, <1>2
<1>9. Cardinality(S) = Cardinality(B) + (IF t > last.header.timestamp THEN 1 ELSE 0)
  <2> HIDE DEF A, B, S
  <2>1. Cardinality(B \cup {n}) = Cardinality(B) + 1
    BY <1>4, <1>7, FS_AddElement
  <2>2. CASE t > last.header.timestamp
    BY <1>8, <2>1, <2>2
  <2>3. CASE ~ (t > last.header.timestamp)
    BY <1>6, <1>8, <2>3
  <2> QED
    BY <2>2, <2>3
<1> QED
  BY <1>3, <1>6, <1>9 DEF arr, k

\* The comparison with the median is Bitcoin's.
LEMMA MedianTimes ==
  ASSUME HeaderInv, NEW t \in Nat
  PROVE  IsLargerThanMedian(last.prev_block_timestamps, last.header.timestamp, t)
         <=> t > Bitcoin!MedianTimePast
<1> DEFINE n == Len(chain)
           k == PREV_TIMESTAMPS
           h == k \div 2
           S == n - k .. n
           f == [i \in S |-> chain[i].timestamp]
           m == MedianOf(f, S, h)
<1>1. /\ n \in Nat \ {0}
      /\ n > k
      /\ \A i \in 1 .. n : chain[i].timestamp \in Nat
  BY ContextFacts
<1>2. k \in Nat /\ k % 2 = 0
  BY HeaderRuleAssumption
<1>3. h \in Nat /\ (k + 1) \div 2 = h /\ h <= k
  BY <1>2
<1> HIDE DEF n, h
<1>4. S \subseteq 1 .. n
  BY <1>1, <1>2
<1>5. IsFiniteSet(S) /\ Cardinality(S) > h
  <2>1. n - k \in Int /\ n \in Int /\ ~ (n - k > n) /\ n - (n - k) + 1 = k + 1
    BY <1>1, <1>2
  <2>2. IsFiniteSet(S) /\ Cardinality(S) = k + 1
    BY <2>1, FS_Interval
  <2> QED
    BY <1>2, <1>3, <2>2
<1>6. f \in [S -> Nat] /\ \A i \in S : f[i] = chain[i].timestamp
  BY <1>1, <1>4
<1>7. Bitcoin!MedianTimePast = m
  <2>1. n - (k + 1) + 1 = n - k
    BY <1>1, <1>2
  <2>2. {chain[i].timestamp : i \in S} = {f[i] : i \in S}
    BY <1>6
  <2>3. \A x : {i \in S : chain[i].timestamp < x} = {i \in S : f[i] < x}
               /\ {i \in S : chain[i].timestamp <= x} = {i \in S : f[i] <= x}
    BY <1>6
  <2>4. Bitcoin!MedianTimePast =
          CHOOSE x \in {chain[i].timestamp : i \in S} :
            /\ Cardinality({i \in S : chain[i].timestamp < x}) <= h
            /\ Cardinality({i \in S : chain[i].timestamp <= x}) > h
    BY <1>3, <2>1 DEF Bitcoin!MedianTimePast, Bitcoin!Cardinality, Cardinality, n
  <2> HIDE DEF S, f
  <2> QED
    BY <2>2, <2>3, <2>4 DEF MedianOf
<1>8. t > m <=> Cardinality({i \in S : f[i] < t}) > h
  <2> HIDE DEF f, S
  <2>1. m = MedianOf(f, S, h)
    OBVIOUS
  <2> HIDE DEF m
  <2> QED
    BY <1>3, <1>5, <1>6, <2>1, MedianIs
<1>9. {i \in S : f[i] < t} = {i \in S : chain[i].timestamp < t}
  BY <1>6
<1>10. Cardinality({i \in S : chain[i].timestamp < t})
         = Cardinality({i \in DOMAIN last.prev_block_timestamps : t > last.prev_block_timestamps[i]})
           + (IF t > last.header.timestamp THEN 1 ELSE 0)
  BY CountIs DEF n
<1> QED
  BY <1>7, <1>8, <1>9, <1>10 DEF IsLargerThanMedian, h

-----------------------------------------------------------------------------
(***************************************************************************)
(* The rules are Bitcoin's.                                                *)
(***************************************************************************)

\* A header that is passed is one that Bitcoin's rules accept.
LEMMA PassedIsValid ==
  ASSUME HeaderInv, NEW header \in BlockHeader, NEW now \in Clock, HeaderPasses(header, last, now)
  PROVE  Bitcoin!ValidHeader(Seen(header))
<1> DEFINE t == NbitsToTarget(header.nbits)
<1>1. header.nbits \in Nbits /\ header.timestamp \in Nat /\ header.block_hash \in Array
  BY RuleConstants DEF BlockHeader
<1>2. header.nbits = Bitcoin!RequiredNbits /\ SoundNbits(header.nbits)
  BY <1>1, CorrectTarget DEF HeaderPasses
<1>3. Value(header.block_hash) <= Bitcoin!Expand(header.nbits)
  <2>1. t \in Array /\ Value(t) = Bitcoin!Expand(header.nbits)
    BY <1>1, <1>2, SoundTarget
  <2>2. LteArr(header.block_hash, t)
    BY DEF HeaderPasses
  <2> HIDE DEF t
  <2> QED
    BY <1>1, <2>1, <2>2, GtIsGreater
<1>4. header.timestamp > Bitcoin!MedianTimePast
  BY <1>1, MedianTimes DEF HeaderPasses
<1> QED
  BY <1>2, <1>3, <1>4, SeenFields DEF Bitcoin!ValidHeader

LEMMA StartIsBitcoins == HeaderInv => Bitcoin!Init
<1>1. HeaderInv => Len(chain) \in Nat /\ Len(chain) >= PREV_TIMESTAMPS + 1
  BY RuleConstants DEF HeaderInv
<1> QED
  BY <1>1 DEF Bitcoin!Init

LEMMA StepIsBitcoins == HeaderInv /\ [Next]_vars => [Bitcoin!Next]_chain
<1> SUFFICES ASSUME HeaderInv, [Next]_vars PROVE [Bitcoin!Next]_chain
  OBVIOUS
<1>1. CASE UNCHANGED vars
  BY <1>1 DEF vars
<1>2. ASSUME NEW header \in BlockHeader, NEW now \in Clock, VerifyHeader(header, now)
      PROVE  Bitcoin!Next
  <2>1. HeaderPasses(header, last, now) /\ chain' = Append(chain, Seen(header))
    BY <1>2 DEF VerifyHeader
  <2>2. Bitcoin!ValidHeader(Seen(header))
    BY <1>2, <2>1, PassedIsValid
  <2>3. Bitcoin!Last(chain') = Seen(header)
    <3>1. chain \in Seq(SeenHeader) /\ Seen(header) \in SeenHeader
      BY SeenFields DEF HeaderInv
    <3>2. Len(chain') = Len(chain) + 1 /\ chain'[Len(chain) + 1] = Seen(header)
      BY <2>1, <3>1
    <3> QED
      BY <3>2 DEF Bitcoin!Last, Last
  <2> QED
    BY <2>1, <2>2, <2>3 DEF Bitcoin!Next
<1> QED
  BY <1>1, <1>2 DEF Next

\* The relay follows Bitcoin's rules on the whole chain: whatever the base, the
\* number of digits and the interval, no header passes whose target, work or time
\* Bitcoin would refuse.
THEOREM RelayImplementsBitcoin == Spec => ImplementsBitcoin
<1>1. Init => Bitcoin!Init
  BY InitInv, StartIsBitcoins
<1> QED
  BY <1>1, Invariance, StepIsBitcoins, PTL DEF Spec, ImplementsBitcoin, Bitcoin!Spec

\* A target of three digits or more has a difficulty.
LEMMA DifficultyDefined ==
  ASSUME NEW t \in Array, Value(t) >= BASE * BASE
  PROVE  GetDifficultyDefined(t)
<1>1. PICK P : Reads(P, t) /\ Value(t) = P[BYTES]
  BY ArrayNumbers, PrefixExists
<1>2. BASE * BASE > 0 /\ BASE * BASE \in Nat /\ Value(t) \in Nat
  BY Bases, MulPos, MulType, ValueBound
<1>3. NonZero(t) # {}
  BY <1>2, NonZeroIs
<1> DEFINE i == Min(NonZero(t))
           a == BYTES - i + 1
<1>4. i \in 1 .. BYTES /\ Value(t) < Pow[a]
  BY <1>1, <1>3, FirstDigit
<1> HIDE DEF i
<1>5. a \in Nat
  BY <1>4, Bases
<1> HIDE DEF a
<1>6. ~ (Pow[a] <= Pow[2])
  BY <1>2, <1>4, <1>5, SmallPowers, PowPos
<1>7. ~ (a <= 2)
  BY <1>5, <1>6, PowGrows
<1>8. i + 2 <= BYTES
  BY <1>4, <1>5, <1>7, Bases DEF a
<1> QED
  BY <1>3, <1>8 DEF GetDifficultyDefined, i

\* The target that Bitcoin asks for is the one that the code asks for, unless
\* the period goes back in time.
LEMMA RequiredTarget ==
  ASSUME HeaderInv, ~ GoesBack,
         NEW nbits, nbits = Bitcoin!RequiredNbits
  PROVE  /\ HasCorrectDifficultyTarget(last, nbits)
         /\ nbits \in Nbits
         /\ NbitsToTargetDefined(nbits)
         /\ nbits.word[1] < BASE \div 2
<1> DEFINE n == Len(chain)
           prev == last.header.nbits
           p == last.header.timestamp
           s == last.last_diff_adjustment
<1>1. /\ n \in Nat \ {0}
      /\ prev \in Nbits
      /\ p \in Nat /\ s \in Nat
      /\ last.blockheight = n - 1
      /\ chain[n].nbits = prev
      /\ chain[n].timestamp = p
      /\ s = chain[PeriodStart(n)].timestamp
  BY ContextFacts
<1>2. SoundNbits(prev)
  BY DEF HeaderInv
<1>3. last.blockheight + 1 = n
  BY <1>1
<1>4. CASE n % DIFF_ADJUSTMENT_INTERVAL = 0
  <2>1. Bitcoin!PeriodTime = p - s
    <3>1. PeriodStart(n) = n - DIFF_ADJUSTMENT_INTERVAL + 1
      BY <1>1, <1>4, PeriodStarts
    <3> QED
      BY <1>1, <3>1 DEF Bitcoin!PeriodTime, Bitcoin!Tip
  <2>2. p >= s
    BY <1>1, <1>4, <2>1 DEF GoesBack, ShouldDiffAdjust
  <2> DEFINE new == ComputeNewNbits(p, s, NbitsToTarget(prev))
  <2>3. nbits = Bitcoin!Compact(Min({Value(UNROUNDED_MAX_TARGET),
            (Bitcoin!Expand(prev) * Bitcoin!Clamp(p - s)) \div TARGET_TIMESPAN}))
    BY <1>1, <1>4, <2>1 DEF Bitcoin!RequiredNbits, Bitcoin!Tip, Bitcoin!Min, Min
  <2>4. /\ new = Bitcoin!Compact(Min({Value(UNROUNDED_MAX_TARGET),
                   (Bitcoin!Expand(prev) * Bitcoin!Clamp(p - s)) \div TARGET_TIMESPAN}))
        /\ new \in Nbits
        /\ NbitsToTargetDefined(new)
        /\ new.word[1] < BASE \div 2
    <3>1. new = ComputeNewNbits(p, s, NbitsToTarget(prev))
      OBVIOUS
    <3> HIDE DEF new, prev, p, s
    <3> QED
      BY <1>1, <1>2, <2>2, <3>1, RetargetIs
  <2> HIDE DEF new
  <2>5. nbits = new
    BY <2>3, <2>4
  <2>6. NbitsToTargetDefined(prev)
    BY <1>2 DEF SoundNbits
  <2>7. HasCorrectDifficultyTarget(last, nbits)
    BY <1>3, <1>4, <2>2, <2>5, <2>6
       DEF HasCorrectDifficultyTarget, ShouldDiffAdjust, ComputeNewNbitsDefined, new
  <2> QED
    BY <2>4, <2>5, <2>7
<1>5. CASE n % DIFF_ADJUSTMENT_INTERVAL # 0
  <2>1. nbits = prev
    BY <1>1, <1>5 DEF Bitcoin!RequiredNbits, Bitcoin!Tip
  <2>2. HasCorrectDifficultyTarget(last, nbits)
    BY <1>3, <1>5, <2>1 DEF HasCorrectDifficultyTarget, ShouldDiffAdjust
  <2> QED
    BY <1>1, <1>2, <2>1, <2>2 DEF SoundNbits
<1> QED
  BY <1>4, <1>5

LEMMA AcceptsAll == HeaderInv => AcceptsBitcoin
<1> DEFINE nbits == Bitcoin!RequiredNbits
           target == NbitsToTarget(nbits)
           Header(t) == [timestamp |-> t, nbits |-> nbits, block_hash |-> target]
<1> SUFFICES ASSUME HeaderInv, ~ GoesBack,
                    Bitcoin!Expand(nbits) >= BASE * BASE,
                    NEW now \in Clock, NEW t \in Timestamp,
                    Bitcoin!MedianTimePast < t, t < now + MAX_FUTURE_BLOCKTIME
             PROVE  HeaderPasses(Header(t), last, now)
  BY DEF AcceptsBitcoin, AcceptsAllOfBitcoin
<1>1. nbits = Bitcoin!RequiredNbits /\ t \in Nat
  BY RuleConstants
<1> HIDE DEF nbits
<1>2. /\ HasCorrectDifficultyTarget(last, nbits)
      /\ nbits \in Nbits
      /\ NbitsToTargetDefined(nbits)
      /\ nbits.word[1] < BASE \div 2
  BY <1>1, RequiredTarget
<1>3. target \in Array /\ Value(target) = Bitcoin!Expand(nbits)
  BY <1>2, TargetDigits, TargetIsExpand
<1>4. GetDifficultyDefined(target)
  BY <1>3, DifficultyDefined
<1>5. IsLargerThanMedian(last.prev_block_timestamps, last.header.timestamp, t)
  <2>1. IsLargerThanMedian(last.prev_block_timestamps, last.header.timestamp, t)
        <=> t > Bitcoin!MedianTimePast
    BY <1>1, MedianTimes
  <2> QED
    BY <2>1, <1>1
<1>6. LteArr(target, target)
  BY DEF LteArr, GteArr
<1> QED
  BY <1>2, <1>4, <1>5, <1>6 DEF HeaderPasses

\* The relay does not lag behind Bitcoin: unless a period goes back in time, the
\* next target can always be computed, and a timely header that meets it passes.
THEOREM RelayAcceptsBitcoin == Spec => []AcceptsBitcoin
BY Invariance, AcceptsAll, PTL

-----------------------------------------------------------------------------
(***************************************************************************)
(* The work of a chain.                                                    *)
(***************************************************************************)

\* The sum w of the works of the headers of chain c from the end of `first', with
\* a bound that leaves no overflow: each is below the largest target, and there
\* are no more of them than the digits in front of it count.
IsWork(first, c, w) ==
  LET added == Len(first) .. Len(c) IN
  /\ Len(first) \in 1 .. Len(c)
  /\ \A i \in DOMAIN first : Seen(first[i]) = c[i]
  /\ \A i \in added : Work(c[i]) \in Nat \ {0}
  /\ w = SumFunctionOnSet([i \in added |-> Work(c[i])], added)
  /\ w <= Len(c) * (Pow[BYTES - LEADING] - 1)

WorkInv == \E first \in FirstChains : IsWork(first, chain, Value(last.chain_work))

LEMMA WorkBound ==
  /\ Pow[BYTES - LEADING] - 1 \in Nat
  /\ Pow[BYTES - LEADING] \in Nat
  /\ \A k \in Nat : k <= MaxHeight + 1 => k * (Pow[BYTES - LEADING] - 1) < Pow[BYTES]
<1> DEFINE p == Pow[BYTES - LEADING]
           q == Pow[LEADING]
<1>1. BYTES - LEADING \in Nat /\ LEADING \in Nat /\ (BYTES - LEADING) + LEADING = BYTES
  BY Leadings, Bases
<1>2. p \in Nat \ {0} /\ q \in Nat \ {0} /\ Pow[BYTES] = p * q
  BY <1>1, PowPos, PowAdd
<1>3. MaxHeight \in Nat /\ MaxHeight + 1 <= q
  BY <1>2, RuleConstants, LeadingAssumption DEF Pow
<1> HIDE DEF p, q
<1>4. ASSUME NEW k \in Nat, k <= MaxHeight + 1
      PROVE  k * (p - 1) < p * q
  <2>1. k <= q /\ p - 1 \in Nat
    BY <1>2, <1>3, <1>4
  <2>2. k * (p - 1) <= q * (p - 1)
    BY <1>2, <2>1, MulOrder
  <2>3. q * (p - 1) = p * q - q
    BY <1>2
  <2>4. k * (p - 1) \in Nat /\ p * q \in Nat
    BY <1>2, <2>1, MulType
  <2> QED
    BY <1>2, <2>2, <2>3, <2>4
<1> QED
  BY <1>2, <1>4 DEF p

LEMMA InitWork == Init => WorkInv
<1> SUFFICES ASSUME Init PROVE WorkInv
  OBVIOUS
<1>1. PICK first \in FirstChains :
        /\ last = CheckpointOf(first)
        /\ chain = [i \in DOMAIN first |-> Seen(first[i])]
  BY DEF Init
<1>2. /\ first \in Seq(BlockHeader)
      /\ Len(first) > PREV_TIMESTAMPS
      /\ SoundNbits(first[Len(first)].nbits)
  BY FirstChainAssumption
<1> DEFINE n == Len(first)
           nbits == first[n].nbits
           t == NbitsToTarget(nbits)
           w == Value(MAX_DIFFICULTY) \div Bitcoin!Expand(nbits)
           f == [i \in n .. n |-> Work(chain[i])]
<1>3. n \in Nat \ {0} /\ DOMAIN first = 1 .. n /\ n \in 1 .. n
  BY <1>2, RuleConstants
<1>4. first[n] \in BlockHeader /\ nbits \in Nbits
  <2>1. first[n] \in BlockHeader
    BY <1>2, <1>3
  <2> QED
    BY <2>1 DEF BlockHeader
<1>5. last.chain_work = GetDifficulty(t)
  BY <1>1 DEF CheckpointOf
<1>6. Value(last.chain_work) = w /\ w \in Nat \ {0} /\ w < Pow[BYTES - LEADING]
  BY <1>2, <1>4, <1>5, SoundTarget
<1>7. Len(chain) = n /\ \A i \in DOMAIN first : chain[i] = Seen(first[i])
  BY <1>1, <1>3
<1>8. Work(chain[n]) = w
  BY <1>3, <1>4, <1>7, SeenFields DEF Work
<1> HIDE DEF n, w
<1>9. n .. n = {n} /\ f[n] = w
  BY <1>3, <1>8
<1>10. SumFunctionOnSet(f, n .. n) = w
  <2> DEFINE S == n .. n
  <2>1. IsFiniteSet(S) /\ Cardinality(S) = 1
    BY <1>9, FS_Singleton
  <2>2. \A i \in S : f[i] = w
    BY <1>9
  <2> HIDE DEF S, f
  <2>3. SumFunctionOnSet(f, S) = w * 1
    BY <1>6, <2>1, <2>2, SumConstant
  <2> QED
    BY <1>6, <2>3 DEF S
<1>11. w <= n * (Pow[BYTES - LEADING] - 1)
  <2> DEFINE p == Pow[BYTES - LEADING] - 1
  <2>1. p \in Nat /\ w <= p
    <3> DEFINE q == Pow[BYTES - LEADING]
    <3>1. q \in Nat /\ q - 1 \in Nat
      BY WorkBound
    <3> HIDE DEF q
    <3>2. w < q
      BY <1>6 DEF q
    <3>3. w <= q - 1
      BY <1>6, <3>1, <3>2
    <3> QED
      BY <3>1, <3>3 DEF q
  <2> HIDE DEF p
  <2>2. 1 * p <= n * p
    BY <1>3, <2>1, MulOrder
  <2>3. n * p \in Nat
    BY <1>3, <2>1, MulType
  <2> QED
    BY <1>6, <2>1, <2>2, <2>3 DEF p
<1>12. \A i \in n .. n : Work(chain[i]) \in Nat \ {0}
  BY <1>6, <1>8, <1>9
<1> HIDE DEF f
<1>13. IsWork(first, chain, w)
  BY <1>3, <1>7, <1>10, <1>11, <1>12 DEF IsWork, n, f
<1> QED
  BY <1>6, <1>13 DEF WorkInv

LEMMA VerifyHeaderWork ==
  ASSUME HeaderInv, WorkInv, last.blockheight < MaxHeight,
         NEW header \in BlockHeader, NEW now \in Clock, VerifyHeader(header, now)
  PROVE  WorkInv'
<1>1. PICK first \in FirstChains : IsWork(first, chain, Value(last.chain_work))
  BY DEF WorkInv
<1> DEFINE m == Len(first)
           n == Len(chain)
           p == Pow[BYTES - LEADING] - 1
           v == Value(last.chain_work)
           t == NbitsToTarget(header.nbits)
           d == GetDifficulty(t)
           w == Value(MAX_DIFFICULTY) \div Bitcoin!Expand(header.nbits)
           S == m .. n
           f == [i \in S |-> Work(chain[i])]
           g == [i \in m .. n + 1 |-> Work(chain'[i])]
<1>2. HeaderPasses(header, last, now) /\ last'.chain_work = AddInPlace(last.chain_work, d)
      /\ chain' = Append(chain, Seen(header))
  BY DEF VerifyHeader, CommittedAfter
<1>3. n \in Nat \ {0} /\ last.chain_work \in Array /\ last.blockheight = n - 1
  BY ContextFacts
<1>4. header.nbits \in Nbits /\ SoundNbits(header.nbits)
  <2>1. header.nbits \in Nbits
    BY DEF BlockHeader
  <2> QED
    BY <1>2, <2>1, CorrectTarget DEF HeaderPasses
<1>5. d \in Array /\ Value(d) = w /\ w \in Nat \ {0} /\ w <= p /\ p \in Nat
  <2> DEFINE q == Pow[BYTES - LEADING]
  <2>1. d \in Array /\ Value(d) = w /\ w \in Nat \ {0} /\ w < q
    BY <1>4, SoundTarget
  <2>2. q \in Nat /\ q - 1 \in Nat
    BY WorkBound
  <2> HIDE DEF q, d, w
  <2>3. w <= q - 1
    BY <2>1, <2>2
  <2> QED
    BY <2>1, <2>2, <2>3 DEF q
<1>6. /\ Len(chain') = n + 1
      /\ chain'[n+1] = Seen(header)
      /\ \A i \in 1 .. n : chain'[i] = chain[i]
  BY <1>2, <1>3, SeenFields DEF HeaderInv
<1>7. /\ m \in 1 .. n
      /\ \A i \in DOMAIN first : Seen(first[i]) = chain[i]
      /\ \A i \in S : Work(chain[i]) \in Nat \ {0}
      /\ v = SumFunctionOnSet(f, S)
      /\ v <= n * p
  BY <1>1 DEF IsWork
<1>8. DOMAIN first = 1 .. m
  BY FirstChainAssumption
<1>9. Work(chain'[n+1]) = w
  BY <1>6, SeenFields DEF Work
<1> HIDE DEF m, n, p, v, d, w
<1>10. v \in Nat
  BY <1>3, ValueBound DEF v
<1>11. v + w <= (n + 1) * p /\ (n + 1) * p < Pow[BYTES]
  <2>1. n + 1 \in Nat /\ n + 1 <= MaxHeight + 1
    BY <1>3, RuleConstants
  <2>2. (n + 1) * p < Pow[BYTES]
    BY <2>1, WorkBound DEF p
  <2>3. (n + 1) * p = n * p + p /\ n * p \in Nat
    BY <1>3, <1>5, MulType
  <2> QED
    BY <1>5, <1>7, <1>10, <2>2, <2>3
<1>12. Value(last'.chain_work) = v + w
  <2>1. v + w < Pow[BYTES]
    <3>1. Pow[BYTES] \in Nat /\ (n + 1) * p \in Nat
      BY <1>3, <1>5, Bases, PowPos, MulType
    <3> QED
      BY <1>5, <1>10, <1>11, <3>1
  <2> QED
    BY <1>2, <1>3, <1>5, <2>1, AddIs DEF v
<1>13. \A i \in S : chain'[i] = chain[i]
  BY <1>3, <1>6, <1>7
<1>14. SumFunctionOnSet(g, m .. n + 1) = v + w
  <2>1. m .. n + 1 = S \cup {n + 1} /\ n + 1 \notin S
    BY <1>3, <1>7
  <2>2. IsFiniteSet(S)
    BY <1>3, <1>7, FS_Interval
  <2>3. \A i \in S : g[i] = f[i] /\ g[i] \in Int
    BY <1>7, <1>13, <2>1
  <2>4. g[n + 1] = w
    BY <1>9, <2>1
  <2> HIDE DEF S, f, g
  <2> DEFINE x == n + 1
  <2>5. x \notin S /\ g[x] = w /\ g[x] \in Int
    BY <1>5, <2>1, <2>4
  <2> HIDE DEF x
  <2>6. \A i \in S \cup {x} : g[i] \in Int
    BY <2>3, <2>5
  <2>7. SumFunctionOnSet(g, S \cup {x}) = g[x] + SumFunctionOnSet(g, S)
    BY <2>2, <2>5, <2>6, SumAdd
  <2>8. SumFunctionOnSet(g, S) = SumFunctionOnSet(f, S)
    BY <2>2, <2>3, SumCongruence
  <2>9. SumFunctionOnSet(f, S) = v /\ g[x] = w
    BY <1>7, <2>5 DEF S, f
  <2>10. m .. n + 1 = S \cup {x}
    BY <2>1 DEF x
  <2>11. SumFunctionOnSet(g, m .. n + 1) = w + v
    BY <2>7, <2>8, <2>9, <2>10
  <2> QED
    BY <1>5, <1>10, <2>11
<1>15. \A i \in m .. n + 1 : Work(chain'[i]) \in Nat \ {0}
  <2> SUFFICES ASSUME NEW i \in m .. n + 1 PROVE Work(chain'[i]) \in Nat \ {0}
    OBVIOUS
  <2>1. CASE i = n + 1
    BY <1>5, <1>9, <2>1
  <2>2. CASE i # n + 1
    <3>1. i \in S
      BY <1>3, <1>7, <2>2
    <3> QED
      BY <1>7, <1>13, <3>1
  <2> QED
    BY <2>1, <2>2
<1>16. \A i \in DOMAIN first : Seen(first[i]) = chain'[i]
  BY <1>3, <1>6, <1>7, <1>8
<1>17. m \in 1 .. n + 1
  BY <1>3, <1>7
<1> HIDE DEF g
<1>18. IsWork(first, chain', v + w)
  BY <1>6, <1>11, <1>14, <1>15, <1>16, <1>17 DEF IsWork, m, p, g
<1> QED
  BY <1>12, <1>18 DEF WorkInv

LEMMA NextWork == HeaderInv /\ WorkInv /\ [Next]_vars => WorkInv'
<1> SUFFICES ASSUME HeaderInv, WorkInv, [Next]_vars PROVE WorkInv'
  OBVIOUS
<1>1. CASE UNCHANGED vars
  BY <1>1 DEF vars, WorkInv
<1> QED
  BY <1>1, VerifyHeaderWork DEF Next

LEMMA WorkInvariance == Spec => []WorkInv
BY InitWork, NextWork, Invariance, PTL DEF Spec

\* The work in a committed header is the sum of the works of the headers of its
\* chain, none of which is zero: no digit is lost at any base, and at no height
\* that a u32 holds.
THEOREM WorkIsTheSum == Spec => []WorkIsSum
<1>1. WorkInv => WorkIsSum
  <2> SUFFICES ASSUME NEW first \in FirstChains, IsWork(first, chain, Value(last.chain_work))
               PROVE  WorkIsSum
    BY DEF WorkInv
  <2> DEFINE added == Len(first) .. Len(chain)
             f == [i \in added |-> Work(chain[i])]
  <2>1. /\ \A i \in DOMAIN first : Seen(first[i]) = chain[i]
        /\ Value(last.chain_work) = SumFunctionOnSet(f, added)
        /\ \A i \in added : Work(chain[i]) \in Nat \ {0}
    BY DEF IsWork
  <2>2. \A i \in added : Work(chain[i]) > 0
    <3> HIDE DEF added
    <3> QED
      BY <2>1
  <2> QED
    BY <2>1, <2>2 DEF WorkIsSum
<1> QED
  BY <1>1, WorkInvariance, PTL
=============================================================================
