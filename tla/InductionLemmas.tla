---------------------------- MODULE InductionLemmas ----------------------------
(***************************************************************************)
(* Induction, for the two kinds of recursion there are in the programs,    *)
(* and the arithmetic of digits that comes with one of them.               *)
(*                                                                         *)
(* Loops over vectors and arrays are recursive functions of the position:  *)
(* the first section shows that such a function exists and how to reason   *)
(* about it.  Numbers are arrays of digits, of 256 bits in headers and of  *)
(* some bytes in transactions: the second section is about quotients and   *)
(* powers of the base.  Balances are kept in many accounts and properties  *)
(* compare their sums: what a vault holds with what it owes, how many      *)
(* swaps were opened with how many were counted.  An instruction changes   *)
(* one or two of the terms, and the lemmas of the other sections say what  *)
(* that does to the sum.  The sum of the library is a recursive function   *)
(* on sets, which removes an arbitrary element first; what matters is that *)
(* any element may be taken out.                                           *)
(***************************************************************************)
EXTENDS FiniteSetTheorems, WellFoundedInduction, NaturalsInduction, TLAPS

-----------------------------------------------------------------------------
(***************************************************************************)
(* Induction over 0 .. n, and iteration.                                   *)
(***************************************************************************)

\* A set that contains 0 and is closed under successor up to n contains all of
\* 0 .. n: the induction behind every loop over headers.
LEMMA UpTo ==
  ASSUME NEW n \in Nat, NEW S,
         0 \in S,
         \A i \in 1 .. n : i-1 \in S => i \in S
  PROVE  \A i \in 0 .. n : i \in S
<1> DEFINE T == (0 .. n) \ S
<1> SUFFICES ASSUME T # {} PROVE FALSE
  OBVIOUS
<1>1. IsWellFoundedOn(OpToRel(<, Nat), Nat)
  BY NatLessThanWellFounded
<1>2. T \subseteq Nat
  OBVIOUS
<1> HIDE DEF T
<1>3. PICK x \in T : \A y \in T : ~ (<<y, x>> \in OpToRel(<, Nat))
  BY <1>1, <1>2, WFMin
<1>4. x \in 0 .. n /\ x \notin S /\ x # 0
  BY DEF T
<1>5. x - 1 \in T
  BY <1>4 DEF T
<1>6. <<x-1, x>> \in OpToRel(<, Nat)
  BY <1>4 DEF OpToRel
<1> QED
  BY <1>3, <1>5, <1>6

\* A set of natural numbers has a smallest one.
LEMMA SmallestExists ==
  ASSUME NEW S \in SUBSET Nat, S # {}
  PROVE  \E x \in S : \A y \in S : x <= y
<1>1. IsWellFoundedOn(OpToRel(<, Nat), Nat)
  BY NatLessThanWellFounded
<1>2. PICK x \in S : \A y \in S : ~ (<<y, x>> \in OpToRel(<, Nat))
  BY <1>1, WFMin
<1>3. \A y \in S : ~ (y < x)
  BY <1>2 DEF OpToRel
<1> QED
  BY <1>3

\* step[i] is what round i of a loop does to the state, a member of D.
IsStep(step, n, D) == step \in [1 .. n -> [D -> D]]

Iterates(f, n, D, d, step) ==
  /\ f \in [0 .. n -> D]
  /\ f[0] = d
  /\ \A i \in 1 .. n : f[i] = step[i][f[i-1]]

\* A loop of n rounds from any start has a sequence of states.
LEMMA IterationExists ==
  ASSUME NEW n \in Nat, NEW D, NEW d \in D, NEW step, IsStep(step, n, D)
  PROVE  \E f : Iterates(f, n, D, d, step)
<1> USE DEF IsStep, Iterates
<1> DEFINE S == {k \in 0 .. n : \E f : Iterates(f, k, D, d, step)}
<1>1. 0 \in S
  <2> DEFINE g == [i \in 0 .. 0 |-> d]
  <2>1. g \in [0 .. 0 -> D] /\ g[0] = d /\ \A i \in 1 .. 0 : g[i] = step[i][g[i-1]]
    OBVIOUS
  <2>2. 0 \in 0 .. n
    OBVIOUS
  <2> HIDE DEF g
  <2> QED
    BY <2>1, <2>2
<1>2. ASSUME NEW k \in 1 .. n, k-1 \in S PROVE k \in S
  <2>1. PICK f \in [0 .. k-1 -> D] :
          f[0] = d /\ \A i \in 1 .. k-1 : f[i] = step[i][f[i-1]]
    BY <1>2
  <2> DEFINE y == step[k][f[k-1]]
             g == [i \in 0 .. k |-> IF i = k THEN y ELSE f[i]]
  <2>2. y \in D
    BY <2>1
  <2> HIDE DEF y
  <2>3. g \in [0 .. k -> D]
    BY <2>1, <2>2
  <2>4. g[0] = d
    BY <2>1
  <2>5. ASSUME NEW i \in 1 .. k PROVE g[i] = step[i][g[i-1]]
    <3>1. CASE i = k
      <4>1. g[i] = y /\ g[i-1] = f[k-1]
        BY <3>1
      <4> QED
        BY <4>1, <3>1 DEF y
    <3>2. CASE i # k
      <4>1. i \in 1 .. k-1
        BY <3>2
      <4>2. g[i] = f[i] /\ g[i-1] = f[i-1]
        BY <4>1
      <4> QED
        BY <4>1, <4>2, <2>1
    <3> QED
      BY <3>1, <3>2
  <2> HIDE DEF g
  <2>6. k \in 0 .. n
    OBVIOUS
  <2> QED
    BY <2>3, <2>4, <2>5, <2>6
<1> HIDE DEF S
<1>3. \A k \in 1 .. n : k-1 \in S => k \in S
  BY <1>2
<1>4. \A k \in 0 .. n : k \in S
  BY <1>1, <1>3, UpTo
<1>5. n \in S
  BY <1>4
<1> QED
  BY <1>5 DEF S

\* The same without an end: such a sequence of states for every round.
IsEndlessStep(step, D) == step \in [Nat \ {0} -> [D -> D]]

IteratesForever(f, D, d, step) ==
  /\ f \in [Nat -> D]
  /\ f[0] = d
  /\ \A i \in Nat \ {0} : f[i] = step[i][f[i-1]]

LEMMA EndlessIterationExists ==
  ASSUME NEW D, NEW d \in D, NEW step, IsEndlessStep(step, D)
  PROVE  \E f : IteratesForever(f, D, d, step)
<1> USE DEF IsEndlessStep
<1> DEFINE First(n) == [i \in 1 .. n |-> step[i]]
           F(n) == CHOOSE f : Iterates(f, n, D, d, First(n))
           g == [n \in Nat |-> F(n)[n]]
<1>1. ASSUME NEW n \in Nat
      PROVE  /\ F(n) \in [0 .. n -> D]
             /\ F(n)[0] = d
             /\ \A i \in 1 .. n : F(n)[i] = step[i][F(n)[i-1]]
  <2>1. IsStep(First(n), n, D)
    BY DEF IsStep
  <2>2. \A i \in 1 .. n : First(n)[i] = step[i]
    OBVIOUS
  <2> HIDE DEF First
  <2>3. \E f : Iterates(f, n, D, d, First(n))
    BY <2>1, IterationExists
  <2>4. Iterates(F(n), n, D, d, First(n))
    BY <2>3
  <2> HIDE DEF F
  <2> QED
    BY <2>2, <2>4 DEF Iterates
<1> HIDE DEF F
<1>2. ASSUME NEW n \in Nat
      PROVE  \A i \in 0 .. n : F(n+1)[i] = F(n)[i]
  <2> DEFINE S == {i \in 0 .. n : F(n+1)[i] = F(n)[i]}
  <2>1. 0 \in S
    BY <1>1
  <2>2. ASSUME NEW i \in 1 .. n, i-1 \in S PROVE i \in S
    <3>1. n + 1 \in Nat /\ i \in 1 .. n + 1
      OBVIOUS
    <3>2. F(n+1)[i] = step[i][F(n+1)[i-1]] /\ F(n)[i] = step[i][F(n)[i-1]]
      BY <1>1, <3>1
    <3> QED
      BY <2>2, <3>2
  <2> HIDE DEF S
  <2>3. \A i \in 1 .. n : i-1 \in S => i \in S
    BY <2>2
  <2>4. \A i \in 0 .. n : i \in S
    BY <2>1, <2>3, UpTo
  <2> QED
    BY <2>4 DEF S
<1>3. g \in [Nat -> D] /\ g[0] = d
  BY <1>1
<1>4. ASSUME NEW i \in Nat \ {0} PROVE g[i] = step[i][g[i-1]]
  <2>1. i - 1 \in Nat /\ (i - 1) + 1 = i /\ i \in 1 .. i
    OBVIOUS
  <2>2. F(i)[i] = step[i][F(i)[i-1]]
    BY <1>1, <2>1
  <2>3. F(i)[i-1] = F(i-1)[i-1]
    BY <1>2, <2>1
  <2> QED
    BY <2>1, <2>2, <2>3
<1> HIDE DEF g
<1>5. IteratesForever(g, D, d, step)
  BY <1>3, <1>4 DEF IteratesForever
<1> QED
  BY <1>5

-----------------------------------------------------------------------------
(***************************************************************************)
(* Division, products and powers.                                          *)
(***************************************************************************)

LEMMA DivMod ==
  ASSUME NEW a \in Nat, NEW d \in Nat, d > 0
  PROVE  /\ a \div d \in Nat
         /\ a % d \in 0 .. d - 1
         /\ a = d * (a \div d) + (a % d)
OBVIOUS

LEMMA DivUnique ==
  ASSUME NEW d \in Nat, NEW q \in Nat, NEW r \in 0 .. d - 1, NEW a, a = d * q + r
  PROVE  a \div d = q /\ a % d = r
OBVIOUS

LEMMA DivDiv ==
  ASSUME NEW a \in Nat, NEW b \in Nat, b > 0, NEW c \in Nat, c > 0
  PROVE  (a \div b) \div c = a \div (b * c)
OBVIOUS

LEMMA QuotientPos ==
  ASSUME NEW a \in Nat, NEW d \in Nat, d > 0, d <= a
  PROVE  a \div d \in Nat \ {0} /\ a \div d <= a
OBVIOUS

LEMMA MulOrder ==
  ASSUME NEW a \in Nat, NEW b \in Nat, a <= b, NEW c \in Nat
  PROVE  a * c <= b * c /\ c * a <= c * b
OBVIOUS

LEMMA MulType == \A a, b \in Nat : a * b \in Nat
OBVIOUS

LEMMA MulLaws ==
  \A a, b, c \in Nat :
    /\ (a + b) * c = a * c + b * c
    /\ a * b = b * a
    /\ (a * b) * c = a * (b * c)
    /\ a * 1 = a
OBVIOUS

LEMMA MulPos == \A a, b \in Nat : a > 0 /\ b > 0 => a * b > 0 /\ a * b >= b
OBVIOUS

LEMMA IntDivMod ==
  ASSUME NEW x \in Int, NEW d \in Nat, d > 0
  PROVE  /\ x \div d \in Int
         /\ x % d \in 0 .. d - 1
         /\ x = d * (x \div d) + (x % d)
OBVIOUS

LEMMA IntModUnique ==
  ASSUME NEW d \in Nat, NEW q \in Int, NEW r \in 0 .. d - 1, NEW a, a = d * q + r
  PROVE  a % d = r
OBVIOUS

LEMMA IntMulLaws ==
  \A x, y, z \in Int :
    /\ x * y \in Int
    /\ (x + y) * z = x * z + y * z
    /\ x * y = y * x
    /\ (x * y) * z = x * (y * z)
OBVIOUS

IsPowers(f, b) == f = [k \in Nat |-> IF k = 0 THEN 1 ELSE b * f[k-1]]

LEMMA PowersExist ==
  ASSUME NEW b \in Nat
  PROVE  \E f : IsPowers(f, b)
<1> DEFINE step == [i \in Nat \ {0} |-> [x \in Nat |-> b * x]]
           Rec(g) == g = [k \in Nat |-> IF k = 0 THEN 1 ELSE b * g[k-1]]
<1>1. IsEndlessStep(step, Nat)
  BY MulType DEF IsEndlessStep
<1>2. \A i \in Nat \ {0} : \A x \in Nat : step[i][x] = b * x
  OBVIOUS
<1> HIDE DEF step
<1>3. PICK f : IteratesForever(f, Nat, 1, step)
  BY <1>1, EndlessIterationExists
<1>4. \A i \in Nat \ {0} : f[i] = b * f[i-1]
  <2> TAKE i \in Nat \ {0}
  <2>1. f[i] = step[i][f[i-1]] /\ f[i-1] \in Nat
    BY <1>3 DEF IteratesForever
  <2> QED
    BY <1>2, <2>1
<1>5. Rec(f)
  BY <1>3, <1>4 DEF IteratesForever
<1> QED
  BY <1>5 DEF IsPowers

LEMMA PowersType ==
  ASSUME NEW b \in Nat \ {0, 1}, NEW Pow, IsPowers(Pow, b)
  PROVE  /\ Pow \in [Nat -> Nat]
         /\ Pow[0] = 1
         /\ \A k \in Nat : Pow[k+1] = b * Pow[k]
<1>7. Pow = [k \in Nat |-> IF k = 0 THEN 1 ELSE b * Pow[k-1]]
  BY DEF IsPowers
<1>8. Pow[0] = 1 /\ \A i \in Nat \ {0} : Pow[i] = b * Pow[i-1]
  BY <1>7
<1>9. ASSUME NEW n \in Nat PROVE Pow[n] \in Nat
  <2> DEFINE S == {i \in 0 .. n : Pow[i] \in Nat}
  <2>1. 0 \in S
    BY <1>8
  <2>2. \A i \in 1 .. n : i-1 \in S => i \in S
    BY <1>8, MulType
  <2> HIDE DEF S
  <2>3. n \in S
    BY <2>1, <2>2, UpTo
  <2> QED
    BY <2>3 DEF S
<1>10. Pow = [k \in Nat |-> Pow[k]]
  BY <1>7
<1>11. \A k \in Nat : Pow[k+1] = b * Pow[k]
  <2> TAKE k \in Nat
  <2>1. k + 1 \in Nat \ {0} /\ (k + 1) - 1 = k
    OBVIOUS
  <2> QED
    BY <1>8, <2>1
<1> QED
  BY <1>8, <1>9, <1>10, <1>11

LEMMA PowersPos ==
  ASSUME NEW b \in Nat \ {0, 1}, NEW Pow, IsPowers(Pow, b),
         NEW n \in Nat
  PROVE  Pow[n] \in Nat \ {0}
<1> DEFINE S == {i \in 0 .. n : Pow[i] > 0}
<1>1. 0 \in S
  BY PowersType
<1>2. ASSUME NEW i \in 1 .. n, i-1 \in S PROVE i \in S
  <2>1. i - 1 \in Nat /\ (i - 1) + 1 = i
    OBVIOUS
  <2>2. Pow[i] = b * Pow[i-1] /\ Pow[i-1] \in Nat /\ Pow[i-1] > 0
    BY <1>2, <2>1, PowersType
  <2>3. Pow[i] > 0
    BY <2>2, MulPos
  <2> QED
    BY <2>3
<1> HIDE DEF S
<1>3. n \in S
  BY <1>1, <1>2, UpTo
<1> QED
  BY <1>3, PowersType DEF S

LEMMA PowersAdd ==
  ASSUME NEW b \in Nat \ {0, 1}, NEW Pow, IsPowers(Pow, b),
         NEW m \in Nat, NEW n \in Nat
  PROVE  Pow[m + n] = Pow[m] * Pow[n]
<1> DEFINE S == {i \in 0 .. n : Pow[m + i] = Pow[m] * Pow[i]}
<1>1. 0 \in S
  BY PowersType
<1>2. ASSUME NEW i \in 1 .. n, i-1 \in S PROVE i \in S
  <2>1. i - 1 \in Nat /\ (i - 1) + 1 = i /\ m + (i - 1) \in Nat /\ (m + (i - 1)) + 1 = m + i
    OBVIOUS
  <2>2. Pow[i] = b * Pow[i-1] /\ Pow[m + i] = b * Pow[m + (i-1)]
    BY <2>1, PowersType
  <2>3. Pow[m + (i-1)] = Pow[m] * Pow[i-1]
    BY <1>2
  <2>4. Pow[m] \in Nat /\ Pow[i-1] \in Nat
    BY <2>1, PowersType
  <2>5. b * (Pow[m] * Pow[i-1]) = Pow[m] * (b * Pow[i-1])
    BY <2>4, MulLaws
  <2> QED
    BY <2>2, <2>3, <2>5
<1> HIDE DEF S
<1>3. n \in S
  BY <1>1, <1>2, UpTo
<1> QED
  BY <1>3 DEF S

\* Powers grow, by the base at least with each exponent.
LEMMA PowersGrow ==
  ASSUME NEW b \in Nat \ {0, 1}, NEW Pow, IsPowers(Pow, b),
         NEW m \in Nat, NEW n \in Nat
  PROVE  /\ m <= n => Pow[m] <= Pow[n]
         /\ m < n => b * Pow[m] <= Pow[n] /\ Pow[m] < Pow[n]
<1>1. ASSUME NEW i \in Nat, NEW j \in Nat, i <= j
      PROVE  Pow[i] <= Pow[j]
  <2>1. j - i \in Nat /\ (j - i) + i = j
    BY <1>1
  <2>2. Pow[j] = Pow[j - i] * Pow[i]
    BY <2>1, PowersAdd
  <2>3. Pow[j - i] \in Nat \ {0} /\ Pow[i] \in Nat \ {0}
    BY <2>1, PowersPos
  <2> QED
    BY <2>2, <2>3, MulPos
<1>2. ASSUME m < n
      PROVE  b * Pow[m] <= Pow[n] /\ Pow[m] < Pow[n]
  <2>1. b * Pow[m] <= Pow[n]
    BY <1>1, <1>2, PowersType
  <2>2. Pow[m] \in Nat \ {0} /\ Pow[n] \in Nat
    BY PowersPos
  <2>3. b * Pow[m] > Pow[m]
    BY <2>2
  <2>4. b * Pow[m] \in Nat
    BY <2>2, MulType
  <2> QED
    BY <2>1, <2>2, <2>3, <2>4
<1> QED
  BY <1>1, <1>2

LEMMA PowersAbove ==
  ASSUME NEW b \in Nat \ {0, 1}, NEW Pow, IsPowers(Pow, b),
         NEW n \in Nat
  PROVE  Pow[n] > n
<1> DEFINE S == {i \in 0 .. n : Pow[i] > i}
<1>1. 0 \in S
  BY PowersType
<1>2. ASSUME NEW i \in 1 .. n, i-1 \in S PROVE i \in S
  <2>1. i - 1 \in Nat /\ i \in Nat /\ i - 1 < i
    OBVIOUS
  <2>2. Pow[i-1] < Pow[i] /\ Pow[i-1] \in Nat /\ Pow[i] \in Nat
    BY <2>1, PowersGrow, PowersPos
  <2>3. Pow[i-1] > i - 1
    BY <1>2
  <2> QED
    BY <2>2, <2>3
<1> HIDE DEF S
<1>3. n \in S
  BY <1>1, <1>2, UpTo
<1> QED
  BY <1>3 DEF S

-----------------------------------------------------------------------------
(***************************************************************************)
(* Induction over the subsets of a finite set.                             *)
(***************************************************************************)

\* A set P of sets contains a finite set when it contains every subset of it
\* that is larger by one than only sets in P.
LEMMA SubsetInduction ==
  ASSUME NEW S, IsFiniteSet(S), NEW P,
         \A T \in SUBSET S : (\A x \in T : T \ {x} \in P) => T \in P
  PROVE  S \in P
<1> DEFINE N == {n \in Nat : \E T \in SUBSET S : T \notin P /\ Cardinality(T) = n}
<1> SUFFICES ASSUME S \notin P PROVE FALSE
  OBVIOUS
<1>1. IsWellFoundedOn(OpToRel(<, Nat), Nat)
  BY NatLessThanWellFounded
<1>2. Cardinality(S) \in N
  BY FS_CardinalityType
<1>3. N \subseteq Nat
  OBVIOUS
<1>4. PICK n \in N : \A k \in N : ~ (<<k, n>> \in OpToRel(<, Nat))
  <2> HIDE DEF N
  <2> QED
    BY <1>1, <1>2, <1>3, WFMin
<1>5. PICK T \in SUBSET S : T \notin P /\ Cardinality(T) = n
  BY <1>4
<1>6. PICK x \in T : T \ {x} \notin P
  BY <1>5
<1>7. IsFiniteSet(T)
  BY <1>5, FS_Subset
<1>8. Cardinality(T \ {x}) = n - 1 /\ n - 1 \in Nat
  <2>1. Cardinality(T \ {x}) = Cardinality(T) - 1 /\ IsFiniteSet(T \ {x})
    BY <1>6, <1>7, FS_RemoveElement
  <2>2. Cardinality(T \ {x}) \in Nat
    BY <2>1, FS_CardinalityType
  <2> QED
    BY <2>1, <2>2, <1>5
<1>9. n - 1 \in N
  BY <1>5, <1>6, <1>8
<1>10. <<n - 1, n>> \in OpToRel(<, Nat)
  BY <1>3, <1>4, <1>8 DEF OpToRel
<1> QED
  BY <1>4, <1>9, <1>10

-----------------------------------------------------------------------------
(***************************************************************************)
(* The equation behind SumFunctionOnSet.                                   *)
(***************************************************************************)

Pick(s) == CHOOSE x \in s : TRUE

\* g gives the sum of f over every set of D, which is closed under Pick.
Sums(g, f, D) ==
  g = [s \in D |-> IF s = {} THEN 0 ELSE f[Pick(s)] + g[s \ {Pick(s)}]]

SumsOn(g, f, S) == Sums(g, f, SUBSET S)

LEMMA PickMember ==
  ASSUME NEW s, s # {}
  PROVE  Pick(s) \in s
BY DEF Pick

\* The recursion is well founded: there is such a function on the subsets of
\* any finite set.
LEMMA SumsExist ==
  ASSUME NEW S, IsFiniteSet(S), NEW f
  PROVE  \E g : SumsOn(g, f, S)
<1> DEFINE Size(n) == {s \in SUBSET S : Cardinality(s) <= n}
           N == {n \in Nat : \E g : Sums(g, f, Size(n))}
<1>0. ASSUME NEW s \in SUBSET S
      PROVE  /\ IsFiniteSet(s) /\ Cardinality(s) \in Nat
             /\ \A x \in s : Cardinality(s \ {x}) = Cardinality(s) - 1
             /\ Cardinality(s) = 0 => s = {}
             /\ Cardinality(s) <= Cardinality(S)
  BY FS_Subset, FS_CardinalityType, FS_RemoveElement, FS_EmptySet
<1>1. 0 \in N
  <2> DEFINE g == [s \in Size(0) |-> 0]
  <2>1. \A s \in Size(0) : s = {}
    BY <1>0
  <2>2. Sums(g, f, Size(0))
    BY <2>1 DEF Sums
  <2> QED
    BY <2>2
<1>2. ASSUME NEW n \in Nat, n \in N PROVE n + 1 \in N
  <2>1. PICK g : Sums(g, f, Size(n))
    BY <1>2
  <2> DEFINE h == [s \in Size(n + 1) |->
                     IF s = {} THEN 0 ELSE f[Pick(s)] + g[s \ {Pick(s)}]]
  <2>2. ASSUME NEW s \in Size(n + 1), s # {}
        PROVE  s \ {Pick(s)} \in Size(n) /\ s \ {Pick(s)} \in Size(n + 1)
    BY <1>0, <2>2, PickMember
  <2>3. ASSUME NEW t \in Size(n), t \in Size(n + 1)
        PROVE  h[t] = g[t]
    <3>1. h[t] = IF t = {} THEN 0 ELSE f[Pick(t)] + g[t \ {Pick(t)}]
      BY <2>3
    <3>2. g[t] = IF t = {} THEN 0 ELSE f[Pick(t)] + g[t \ {Pick(t)}]
      <4> HIDE DEF Size
      <4> QED
        BY <2>1, <2>3 DEF Sums
    <3> QED
      BY <3>1, <3>2
  <2>4. \A s \in Size(n + 1) :
          (IF s = {} THEN 0 ELSE f[Pick(s)] + g[s \ {Pick(s)}])
          = (IF s = {} THEN 0 ELSE f[Pick(s)] + h[s \ {Pick(s)}])
    BY <2>2, <2>3
  <2>5. Sums(h, f, Size(n + 1))
    <3> HIDE DEF Size
    <3> QED
      BY <2>4 DEF Sums
  <2> HIDE DEF h, Size
  <2> QED
    BY <2>5
<1>3. \A n \in Nat : n \in N => n + 1 \in N
  BY <1>2
<1>4. \A n \in Nat : n \in N
  <2> DEFINE A == {n \in Nat : n \notin N}
  <2> SUFFICES ASSUME A # {} PROVE FALSE
    OBVIOUS
  <2>1. PICK n \in A : \A k \in A : ~ (<<k, n>> \in OpToRel(<, Nat))
    <3>1. A \subseteq Nat /\ IsWellFoundedOn(OpToRel(<, Nat), Nat)
      BY NatLessThanWellFounded
    <3> HIDE DEF A
    <3> QED
      BY <3>1, WFMin
  <2> HIDE DEF N
  <2>2. n \in Nat /\ n # 0 /\ n - 1 \in Nat
    BY <1>1
  <2>3. n - 1 \in A
    BY <1>3, <2>2
  <2>4. <<n - 1, n>> \in OpToRel(<, Nat)
    BY <2>2 DEF OpToRel
  <2> QED
    BY <2>1, <2>3, <2>4
<1>5. Size(Cardinality(S)) = SUBSET S /\ Cardinality(S) \in N
  BY <1>0, <1>4, FS_CardinalityType
<1> QED
  BY <1>5 DEF SumsOn

AgreeOn(S, f, e) == \A x \in S : f[x] = e[x]

\* Sums of functions that agree on a finite set have the same value for it.
LEMMA SumsAgree ==
  ASSUME NEW S, IsFiniteSet(S), NEW f, NEW e, AgreeOn(S, f, e),
         NEW g, SumsOn(g, f, S), NEW h, SumsOn(h, e, S)
  PROVE  g[S] = h[S]
<1> DEFINE P == {T \in SUBSET S : g[T] = h[T]}
<1>1. ASSUME NEW T \in SUBSET S, \A x \in T : T \ {x} \in P
      PROVE  T \in P
  <2>1. CASE T = {}
    BY <2>1 DEF SumsOn, Sums
  <2>2. CASE T # {}
    <3>1. Pick(T) \in T
      BY <2>2, PickMember
    <3>2. g[T \ {Pick(T)}] = h[T \ {Pick(T)}] /\ f[Pick(T)] = e[Pick(T)]
      BY <1>1, <3>1 DEF AgreeOn
    <3>3. g[T] = f[Pick(T)] + g[T \ {Pick(T)}]
      BY <2>2 DEF SumsOn, Sums
    <3>4. h[T] = e[Pick(T)] + h[T \ {Pick(T)}]
      BY <2>2 DEF SumsOn, Sums
    <3> QED
      BY <3>2, <3>3, <3>4
  <2> QED
    BY <2>1, <2>2
<1> HIDE DEF P
<1>2. S \in P
  BY <1>1, SubsetInduction
<1> QED
  BY <1>2 DEF P

\* Sums over the subsets of S are sums over those of a subset of S.
LEMMA SumsRestrict ==
  ASSUME NEW S, NEW R \in SUBSET S, NEW f, NEW g, SumsOn(g, f, S)
  PROVE  \E k : SumsOn(k, f, R) /\ k[R] = g[R]
<1> DEFINE k == [T \in SUBSET R |-> g[T]]
<1>1. ASSUME NEW T \in SUBSET R
      PROVE  k[T] = IF T = {} THEN 0 ELSE f[Pick(T)] + k[T \ {Pick(T)}]
  <2>1. g[T] = IF T = {} THEN 0 ELSE f[Pick(T)] + g[T \ {Pick(T)}]
    BY DEF SumsOn, Sums
  <2>2. k[T] = g[T] /\ k[T \ {Pick(T)}] = g[T \ {Pick(T)}]
    OBVIOUS
  <2> QED
    BY <2>1, <2>2
<1>2. k = [T \in SUBSET R |-> k[T]]
  OBVIOUS
<1> HIDE DEF k
<1>3. SumsOn(k, f, R)
  BY <1>1, <1>2 DEF SumsOn, Sums
<1>4. k[R] = g[R]
  BY DEF k
<1> QED
  BY <1>3, <1>4

\* The library's sum is the value of such a function.
LEMMA SumIsSums ==
  ASSUME NEW S, IsFiniteSet(S), NEW f
  PROVE  \E g : SumsOn(g, f, S) /\ SumFunctionOnSet(f, S) = g[S]
<1> DEFINE G == CHOOSE g : SumsOn(g, f, S)
<1>1. SumsOn(G, f, S)
  BY SumsExist
<1>2. SumFunctionOnSet(f, S) = G[S]
  BY DEF SumFunctionOnSet, FoldFunctionOnSet, MapThenFoldSet, SumsOn, Sums, Pick
<1> QED
  BY <1>1, <1>2

-----------------------------------------------------------------------------
(***************************************************************************)
(* What the proofs use.                                                    *)
(***************************************************************************)

LEMMA SumEmpty ==
  ASSUME NEW f
  PROVE  SumFunctionOnSet(f, {}) = 0
<1>1. IsFiniteSet({})
  BY FS_EmptySet
<1>2. PICK g : SumsOn(g, f, {}) /\ SumFunctionOnSet(f, {}) = g[{}]
  BY <1>1, SumIsSums
<1> QED
  BY <1>2 DEF SumsOn, Sums

\* Only the values on the set count.
LEMMA SumCongruence ==
  ASSUME NEW S, IsFiniteSet(S), NEW f, NEW e, \A x \in S : f[x] = e[x]
  PROVE  SumFunctionOnSet(f, S) = SumFunctionOnSet(e, S)
<1>1. PICK g : SumsOn(g, f, S) /\ SumFunctionOnSet(f, S) = g[S]
  BY SumIsSums
<1>2. PICK h : SumsOn(h, e, S) /\ SumFunctionOnSet(e, S) = h[S]
  BY SumIsSums
<1>3. g[S] = h[S]
  <2>1. AgreeOn(S, f, e)
    BY DEF AgreeOn
  <2> QED
    BY <1>1, <1>2, <2>1, SumsAgree
<1> QED
  BY <1>1, <1>2, <1>3

LEMMA SumPick ==
  ASSUME NEW S, IsFiniteSet(S), S # {}, NEW f
  PROVE  SumFunctionOnSet(f, S)
           = f[Pick(S)] + SumFunctionOnSet(f, S \ {Pick(S)})
<1> DEFINE R == S \ {Pick(S)}
<1>1. IsFiniteSet(R)
  BY FS_Subset
<1>2. PICK g : SumsOn(g, f, S) /\ SumFunctionOnSet(f, S) = g[S]
  BY SumIsSums
<1>3. PICK h : SumsOn(h, f, R) /\ SumFunctionOnSet(f, R) = h[R]
  BY <1>1, SumIsSums
<1>4. g[R] = h[R]
  <2>1. R \in SUBSET S /\ AgreeOn(R, f, f)
    BY DEF AgreeOn
  <2> HIDE DEF R
  <2>2. PICK k : SumsOn(k, f, R) /\ k[R] = g[R]
    BY <1>2, <2>1, SumsRestrict
  <2> QED
    BY <1>1, <1>3, <2>1, <2>2, SumsAgree
<1>5. g[S] = f[Pick(S)] + g[R]
  BY <1>2 DEF SumsOn, Sums
<1> QED
  BY <1>2, <1>3, <1>4, <1>5

LEMMA SumInt ==
  ASSUME NEW S, IsFiniteSet(S), NEW f, \A x \in S : f[x] \in Int
  PROVE  SumFunctionOnSet(f, S) \in Int
<1> DEFINE P == {T \in SUBSET S : SumFunctionOnSet(f, T) \in Int}
<1>1. ASSUME NEW T \in SUBSET S, \A x \in T : T \ {x} \in P
      PROVE  T \in P
  <2>1. IsFiniteSet(T)
    BY FS_Subset
  <2>2. CASE T = {}
    BY <2>2, SumEmpty
  <2>3. CASE T # {}
    <3>1. Pick(T) \in T
      BY <2>3, PickMember
    <3>2. SumFunctionOnSet(f, T) = f[Pick(T)] + SumFunctionOnSet(f, T \ {Pick(T)})
      BY <2>1, <2>3, SumPick
    <3> QED
      BY <1>1, <3>1, <3>2
  <2> QED
    BY <2>2, <2>3
<1> HIDE DEF P
<1>2. S \in P
  BY <1>1, SubsetInduction
<1> QED
  BY <1>2 DEF P

\* Any element may be taken out first.
LEMMA SumRemove ==
  ASSUME NEW S, IsFiniteSet(S), NEW f, \A y \in S : f[y] \in Int, NEW x \in S
  PROVE  SumFunctionOnSet(f, S) = f[x] + SumFunctionOnSet(f, S \ {x})
<1> DEFINE Sum(T) == SumFunctionOnSet(f, T)
           P == {T \in SUBSET S : \A y \in T : Sum(T) = f[y] + Sum(T \ {y})}
<1>0. ASSUME NEW T \in SUBSET S
      PROVE  IsFiniteSet(T) /\ Sum(T) \in Int
  <2>1. IsFiniteSet(T)
    BY FS_Subset
  <2> QED
    BY <2>1, SumInt
<1>1. ASSUME NEW T \in SUBSET S, \A y \in T : T \ {y} \in P
      PROVE  T \in P
  <2> SUFFICES ASSUME NEW y \in T
               PROVE  Sum(T) = f[y] + Sum(T \ {y})
    OBVIOUS
  <2> DEFINE c == Pick(T)
  <2>1. c \in T
    BY PickMember
  <2>2. Sum(T) = f[c] + Sum(T \ {c})
    BY <1>0, SumPick
  <2>3. CASE y = c
    BY <2>2, <2>3
  <2>4. CASE y # c
    <3> HIDE DEF c
    <3>1. Sum(T \ {c}) = f[y] + Sum((T \ {c}) \ {y})
      BY <1>1, <2>1, <2>4
    <3>2. Sum(T \ {y}) = f[c] + Sum((T \ {y}) \ {c})
      BY <1>1, <2>1, <2>4
    <3>3. (T \ {c}) \ {y} = (T \ {y}) \ {c} /\ (T \ {c}) \ {y} \in SUBSET S
      OBVIOUS
    <3>4. Sum((T \ {c}) \ {y}) \in Int /\ f[y] \in Int /\ f[c] \in Int
      BY <1>0, <2>1, <3>3
    <3>5. PICK r \in Int : r = Sum((T \ {c}) \ {y}) /\ r = Sum((T \ {y}) \ {c})
      BY <3>3, <3>4
    <3>6. f[c] + (f[y] + r) = f[y] + (f[c] + r)
      BY <3>4
    <3> QED
      BY <2>2, <3>1, <3>2, <3>5, <3>6
  <2> QED
    BY <2>3, <2>4
<1> HIDE DEF P
<1>2. S \in P
  BY <1>1, SubsetInduction
<1> QED
  BY <1>2 DEF P

LEMMA SumNat ==
  ASSUME NEW S, IsFiniteSet(S), NEW f, \A x \in S : f[x] \in Nat
  PROVE  SumFunctionOnSet(f, S) \in Nat
<1> DEFINE P == {T \in SUBSET S : SumFunctionOnSet(f, T) \in Nat}
<1>1. ASSUME NEW T \in SUBSET S, \A x \in T : T \ {x} \in P
      PROVE  T \in P
  <2>1. IsFiniteSet(T)
    BY FS_Subset
  <2>2. CASE T = {}
    BY <2>2, SumEmpty
  <2>3. CASE T # {}
    <3>1. Pick(T) \in T
      BY <2>3, PickMember
    <3>2. SumFunctionOnSet(f, T) = f[Pick(T)] + SumFunctionOnSet(f, T \ {Pick(T)})
      BY <2>1, <2>3, SumPick
    <3> QED
      BY <1>1, <3>1, <3>2
  <2> QED
    BY <2>2, <2>3
<1> HIDE DEF P
<1>2. S \in P
  BY <1>1, SubsetInduction
<1> QED
  BY <1>2 DEF P

\* One term of a sum of natural numbers is at most the sum.
LEMMA SumTerm ==
  ASSUME NEW S, IsFiniteSet(S), NEW f, \A y \in S : f[y] \in Nat, NEW x \in S
  PROVE  f[x] <= SumFunctionOnSet(f, S)
<1>1. SumFunctionOnSet(f, S) = f[x] + SumFunctionOnSet(f, S \ {x})
  BY SumRemove
<1>2. IsFiniteSet(S \ {x})
  BY FS_Subset
<1>3. SumFunctionOnSet(f, S \ {x}) \in Nat
  BY <1>2, SumNat
<1> QED
  BY <1>1, <1>3

LEMMA SumAdd ==
  ASSUME NEW S, IsFiniteSet(S), NEW x, x \notin S,
         NEW f, \A y \in S : f[y] \in Int, f[x] \in Int
  PROVE  SumFunctionOnSet(f, S \cup {x}) = f[x] + SumFunctionOnSet(f, S)
<1>1. IsFiniteSet(S \cup {x})
  BY FS_AddElement
<1>2. SumFunctionOnSet(f, S \cup {x})
        = f[x] + SumFunctionOnSet(f, (S \cup {x}) \ {x})
  BY <1>1, SumRemove
<1>3. (S \cup {x}) \ {x} = S
  OBVIOUS
<1> QED
  BY <1>2, <1>3

\* One term changes.
LEMMA SumChange ==
  ASSUME NEW S, IsFiniteSet(S), NEW x \in S,
         NEW f, \A y \in S : f[y] \in Int,
         NEW e, \A y \in S : e[y] \in Int,
         \A y \in S \ {x} : e[y] = f[y]
  PROVE  SumFunctionOnSet(e, S) = SumFunctionOnSet(f, S) - f[x] + e[x]
<1>1. SumFunctionOnSet(f, S) = f[x] + SumFunctionOnSet(f, S \ {x})
  BY SumRemove
<1>2. SumFunctionOnSet(e, S) = e[x] + SumFunctionOnSet(e, S \ {x})
  BY SumRemove
<1>3. IsFiniteSet(S \ {x})
  BY FS_Subset
<1>4. SumFunctionOnSet(f, S \ {x}) = SumFunctionOnSet(e, S \ {x})
  BY <1>3, SumCongruence
<1>5. SumFunctionOnSet(f, S \ {x}) \in Int
  BY <1>3, SumInt
<1> QED
  BY <1>1, <1>2, <1>4, <1>5

LEMMA SumZero ==
  ASSUME NEW S, IsFiniteSet(S), NEW f, \A x \in S : f[x] = 0
  PROVE  SumFunctionOnSet(f, S) = 0
<1> DEFINE P == {T \in SUBSET S : SumFunctionOnSet(f, T) = 0}
<1>1. ASSUME NEW T \in SUBSET S, \A x \in T : T \ {x} \in P
      PROVE  T \in P
  <2>1. IsFiniteSet(T)
    BY FS_Subset
  <2>2. CASE T = {}
    BY <2>2, SumEmpty
  <2>3. CASE T # {}
    <3>1. Pick(T) \in T
      BY <2>3, PickMember
    <3>2. SumFunctionOnSet(f, T) = f[Pick(T)] + SumFunctionOnSet(f, T \ {Pick(T)})
      BY <2>1, <2>3, SumPick
    <3> QED
      BY <1>1, <3>1, <3>2
  <2> QED
    BY <2>2, <2>3
<1> HIDE DEF P
<1>2. S \in P
  BY <1>1, SubsetInduction
<1> QED
  BY <1>2 DEF P

\* A sum of one value is that value times the number of elements.
LEMMA SumConstant ==
  ASSUME NEW S, IsFiniteSet(S), NEW f, NEW c \in Nat, \A x \in S : f[x] = c
  PROVE  SumFunctionOnSet(f, S) = c * Cardinality(S)
<1> DEFINE P == {T \in SUBSET S : SumFunctionOnSet(f, T) = c * Cardinality(T)}
<1>1. ASSUME NEW T \in SUBSET S, \A x \in T : T \ {x} \in P
      PROVE  T \in P
  <2>1. IsFiniteSet(T) /\ Cardinality(T) \in Nat
    BY FS_Subset, FS_CardinalityType
  <2>2. CASE T = {}
    BY <2>2, SumEmpty, FS_EmptySet
  <2>3. CASE T # {}
    <3>1. Pick(T) \in T
      BY <2>3, PickMember
    <3>2. SumFunctionOnSet(f, T) = f[Pick(T)] + SumFunctionOnSet(f, T \ {Pick(T)})
      BY <2>1, <2>3, SumPick
    <3>3. Cardinality(T \ {Pick(T)}) = Cardinality(T) - 1
      BY <2>1, <3>1, FS_RemoveElement
    <3>4. SumFunctionOnSet(f, T) = c + c * (Cardinality(T) - 1)
      BY <1>1, <3>1, <3>2, <3>3
    <3>5. \A k \in Nat : c + c * (k - 1) = c * k
      OBVIOUS
    <3> QED
      BY <2>1, <3>4, <3>5
  <2> QED
    BY <2>2, <2>3
<1> HIDE DEF P
<1>2. S \in P
  BY <1>1, SubsetInduction
<1> QED
  BY <1>2 DEF P
=============================================================================
