-------------------------- MODULE TxInclusion_proofs --------------------------
(***************************************************************************)
(* Proofs about TxInclusion, for every set of transactions and every width *)
(* of the fields.                                                          *)
(*                                                                         *)
(* Trees and paths in them are recursive functions of the level: a path    *)
(* with the neighbours of a transaction is at the transaction's ancestor   *)
(* on each level, and a path that ends in the tree has always been in it.  *)
(* For the parser, At(data, o, s) says that the bytes s are in data from   *)
(* offset o on.  The serialization of a transaction has each of its parts  *)
(* at an offset, and a reader at this offset gives the part back and the   *)
(* offset after it, by induction over the inputs and the outputs.          *)
(***************************************************************************)
EXTENDS TxInclusion, InductionLemmas, SequenceTheorems

-----------------------------------------------------------------------------
(***************************************************************************)
(* The index, the widths and the depth of a tree.                          *)
(***************************************************************************)

Halves(f, a, n) ==
  /\ f \in [0 .. n -> Nat]
  /\ f[0] = a
  /\ \A i \in 1 .. n : f[i] = f[i-1] \div 2

LEMMA ShiftedHalves ==
  ASSUME NEW a \in Nat, NEW n \in Nat
  PROVE  Halves(Shifted(a, n), a, n)
<1> DEFINE step == [i \in 1 .. n |-> [x \in Nat |-> x \div 2]]
           Rec(g) == g = [i \in 0 .. n |-> IF i = 0 THEN a ELSE g[i-1] \div 2]
           c == CHOOSE g : Rec(g)
<1>1. \A x \in Nat : x \div 2 \in Nat
  OBVIOUS
<1>2. IsStep(step, n, Nat)
  BY <1>1 DEF IsStep
<1>3. \A i \in 1 .. n : \A x \in Nat : step[i][x] = x \div 2
  OBVIOUS
<1> HIDE DEF step
<1>4. PICK f : Iterates(f, n, Nat, a, step)
  BY <1>2, IterationExists
<1>5. ASSUME NEW i \in 1 .. n PROVE f[i] = f[i-1] \div 2
  <2>1. f[i-1] \in Nat /\ f[i] = step[i][f[i-1]]
    BY <1>4 DEF Iterates
  <2> QED
    BY <1>3, <2>1
<1>6. Rec(f)
  BY <1>4, <1>5 DEF Iterates
<1>7. Rec(c)
  BY <1>6
<1>8. Shifted(a, n) = c
  BY DEF Shifted
<1> HIDE DEF c
<1>9. c[0] = a /\ \A i \in 1 .. n : c[i] = c[i-1] \div 2
  BY <1>7
<1>10. \A i \in 0 .. n : c[i] \in Nat
  <2> DEFINE S == {i \in 0 .. n : c[i] \in Nat}
  <2>1. 0 \in S
    BY <1>9
  <2>2. \A i \in 1 .. n : i-1 \in S => i \in S
    BY <1>1, <1>9
  <2> HIDE DEF S
  <2>3. \A i \in 0 .. n : i \in S
    BY <2>1, <2>2, UpTo
  <2> QED
    BY <2>3 DEF S
<1>11. c = [i \in 0 .. n |-> c[i]]
  BY <1>7
<1> QED
  BY <1>8, <1>9, <1>10, <1>11 DEF Halves

\* Shifting for longer does not change what was shifted out before.
LEMMA ShiftedPrefix ==
  ASSUME NEW a \in Nat, NEW n \in Nat, NEW i \in 0 .. n
  PROVE  Shifted(a, i)[i] = Shifted(a, n)[i]
<1> DEFINE S == {j \in 0 .. i : Shifted(a, i)[j] = Shifted(a, n)[j]}
<1>0. i \in Nat /\ 0 \in 0 .. i
  OBVIOUS
<1>1. 0 \in S
  BY <1>0, ShiftedHalves DEF Halves
<1>2. ASSUME NEW j \in 1 .. i, j-1 \in S PROVE j \in S
  <2>1. j \in 1 .. n /\ i \in Nat
    OBVIOUS
  <2>2. Shifted(a, i)[j] = Shifted(a, i)[j-1] \div 2
    BY <2>1, ShiftedHalves DEF Halves
  <2>3. Shifted(a, n)[j] = Shifted(a, n)[j-1] \div 2
    BY <2>1, ShiftedHalves DEF Halves
  <2> QED
    BY <1>2, <2>2, <2>3
<1> HIDE DEF S
<1>3. \A j \in 0 .. i : j \in S
  BY <1>1, <1>2, UpTo
<1>4. i \in S
  BY <1>3
<1> QED
  BY <1>4 DEF S

IsWidth(w, n) ==
  /\ w \in [0 .. n -> Nat \ {0}]
  /\ w[0] = n
  /\ \A d \in 1 .. n : w[d] = (w[d-1] + 1) \div 2

LEMMA WidthsAre ==
  ASSUME NEW n \in Nat \ {0}
  PROVE  IsWidth(Widths(n), n)
<1> DEFINE P == Nat \ {0}
           step == [i \in 1 .. n |-> [x \in P |-> (x + 1) \div 2]]
           Rec(g) == g = [i \in 0 .. n |-> IF i = 0 THEN n ELSE (g[i-1] + 1) \div 2]
           c == CHOOSE g : Rec(g)
<1>1. \A x \in P : (x + 1) \div 2 \in P
  OBVIOUS
<1> HIDE DEF P
<1>2. IsStep(step, n, P)
  BY <1>1 DEF IsStep
<1>3. \A i \in 1 .. n : \A x \in P : step[i][x] = (x + 1) \div 2
  OBVIOUS
<1> HIDE DEF step
<1>4. PICK f : Iterates(f, n, P, n, step)
  BY <1>2, IterationExists DEF P
<1>5. ASSUME NEW i \in 1 .. n PROVE f[i] = (f[i-1] + 1) \div 2
  <2>1. f[i-1] \in P /\ f[i] = step[i][f[i-1]]
    BY <1>4 DEF Iterates
  <2> QED
    BY <1>3, <2>1
<1>6. Rec(f)
  BY <1>4, <1>5 DEF Iterates
<1>7. Rec(c)
  BY <1>6
<1>8. Widths(n) = c
  BY DEF Widths
<1> HIDE DEF c
<1>9. c[0] = n /\ \A i \in 1 .. n : c[i] = (c[i-1] + 1) \div 2
  BY <1>7
<1>10. \A i \in 0 .. n : c[i] \in P
  <2> DEFINE S == {i \in 0 .. n : c[i] \in P}
  <2>1. 0 \in S
    BY <1>9 DEF P
  <2>2. \A i \in 1 .. n : i-1 \in S => i \in S
    BY <1>1, <1>9
  <2> HIDE DEF S
  <2>3. \A i \in 0 .. n : i \in S
    BY <2>1, <2>2, UpTo
  <2> QED
    BY <2>3 DEF S
<1>11. c = [i \in 0 .. n |-> c[i]]
  BY <1>7
<1> QED
  BY <1>8, <1>9, <1>10, <1>11 DEF IsWidth, P

\* Every tree has a root: a level of more than one hash is followed by a
\* narrower one.
LEMMA DepthIs ==
  ASSUME NEW n \in Nat \ {0}
  PROVE  Depth(n) \in 0 .. n /\ Widths(n)[Depth(n)] = 1
<1> DEFINE w == Widths(n)
           S == {d \in 0 .. n : w[d] = 1 \/ w[d] <= n - d}
           E == {d \in 0 .. n : w[d] = 1}
<1>1. IsWidth(w, n)
  BY WidthsAre
<1>2. Depth(n) = Min(E)
  BY DEF Depth
<1> HIDE DEF w
<1>3. 0 \in S
  BY <1>1 DEF IsWidth
<1>4. ASSUME NEW d \in 1 .. n, d-1 \in S PROVE d \in S
  <2>0. d - 1 \in 0 .. n /\ d \in 0 .. n
    OBVIOUS
  <2>1. w[d] = (w[d-1] + 1) \div 2 /\ w[d-1] \in Nat \ {0}
    BY <1>1, <2>0 DEF IsWidth
  <2>2. w[d-1] = 1 \/ w[d-1] <= n - (d-1)
    BY <1>4
  <2>3. w[d-1] = 1 => w[d] = 1
    BY <2>1
  <2>4. w[d-1] # 1 => w[d] < w[d-1] /\ w[d] \in Nat
    BY <2>1
  <2>5. w[d] = 1 \/ w[d] <= n - d
    <3> HIDE DEF S
    <3> QED
      BY <2>0, <2>1, <2>2, <2>3, <2>4
  <2> QED
    BY <2>0, <2>5
<1> HIDE DEF S
<1>5. \A d \in 0 .. n : d \in S
  BY <1>3, <1>4, UpTo
<1>6. n \in S
  BY <1>5
<1>7. n \in E
  BY <1>1, <1>6 DEF S, IsWidth
<1>8. E \in SUBSET Nat
  OBVIOUS
<1>9. \A d \in E : d \in 0 .. n /\ w[d] = 1
  OBVIOUS
<1> HIDE DEF E
<1>10. \E x \in E : \A y \in E : x <= y
  BY <1>7, <1>8, SmallestExists
<1>11. Min(E) \in E
  BY <1>10 DEF Min
<1> QED
  BY <1>2, <1>9, <1>11 DEF w

-----------------------------------------------------------------------------
(***************************************************************************)
(* The levels of a tree, and the path from a leaf to the root.             *)
(***************************************************************************)

IsLevels(l, txids, m) ==
  l = [d \in 0 .. m |-> IF d = 0 THEN txids ELSE Parents(l[d-1])]

LEMMA LevelsExist ==
  ASSUME NEW txids, NEW m \in Nat
  PROVE  \E l : IsLevels(l, txids, m)
<1> DEFINE S == {k \in 0 .. m : \E l : IsLevels(l, txids, k)}
<1>1. 0 \in S
  <2> DEFINE g == [d \in 0 .. 0 |-> txids]
  <2>1. g = [d \in 0 .. 0 |-> IF d = 0 THEN txids ELSE Parents(g[d-1])]
    OBVIOUS
  <2> HIDE DEF g
  <2>2. IsLevels(g, txids, 0)
    BY <2>1 DEF IsLevels
  <2> QED
    BY <2>2
<1>2. ASSUME NEW k \in 1 .. m, k-1 \in S PROVE k \in S
  <2>1. PICK f : IsLevels(f, txids, k-1)
    BY <1>2
  <2> DEFINE F(d) == IF d = 0 THEN txids ELSE Parents(f[d-1])
             g == [d \in 0 .. k |-> F(d)]
  <2>2. ASSUME NEW d \in 0 .. k-1 PROVE g[d] = f[d]
    <3>1. f[d] = IF d = 0 THEN txids ELSE Parents(f[d-1])
      BY <2>1 DEF IsLevels
    <3>2. d \in 0 .. k
      OBVIOUS
    <3> QED
      BY <3>1, <3>2
  <2>3. ASSUME NEW d \in 0 .. k
        PROVE  F(d) = IF d = 0 THEN txids ELSE Parents(g[d-1])
    <3>1. CASE d = 0
      BY <3>1
    <3>2. CASE d # 0
      <4>1. d - 1 \in 0 .. k-1
        BY <3>2
      <4>2. g[d-1] = f[d-1]
        BY <2>2, <4>1
      <4> HIDE DEF g
      <4> QED
        BY <4>2
    <3> QED
      BY <3>1, <3>2
  <2>4. \A d \in 0 .. k : g[d] = F(d)
    OBVIOUS
  <2>5. g = [d \in 0 .. k |-> g[d]]
    OBVIOUS
  <2> HIDE DEF g, F
  <2>6. g = [d \in 0 .. k |-> IF d = 0 THEN txids ELSE Parents(g[d-1])]
    BY <2>3, <2>4, <2>5
  <2>7. IsLevels(g, txids, k)
    BY <2>6 DEF IsLevels
  <2> QED
    BY <2>7
<1> HIDE DEF S
<1>3. \A k \in 0 .. m : k \in S
  BY <1>1, <1>2, UpTo
<1>4. m \in S
  BY <1>3
<1> QED
  BY <1>4 DEF S

LEMMA LevelsAre ==
  ASSUME NEW txids, Len(txids) \in Nat \ {0}
  PROVE  /\ DOMAIN Levels(txids) = 0 .. Depth(Len(txids))
         /\ Levels(txids)[0] = txids
         /\ \A d \in 1 .. Depth(Len(txids)) :
              Levels(txids)[d] = Parents(Levels(txids)[d-1])
<1> DEFINE m == Depth(Len(txids))
           Rec(g) == g = [d \in 0 .. m |-> IF d = 0 THEN txids ELSE Parents(g[d-1])]
           l == CHOOSE g : Rec(g)
<1>1. m \in Nat
  BY DepthIs
<1>2. Levels(txids) = l
  BY DEF Levels
<1> HIDE DEF m
<1>3. \E g : Rec(g)
  BY <1>1, LevelsExist DEF IsLevels
<1>4. Rec(l)
  BY <1>3
<1> HIDE DEF l
<1>5. DOMAIN l = 0 .. m /\ l[0] = txids /\ \A d \in 1 .. m : l[d] = Parents(l[d-1])
  BY <1>1, <1>4
<1> QED
  BY <1>2, <1>5 DEF m

\* A level has as many hashes as the width says, each of two of the level below.
LEMMA LevelHas ==
  ASSUME NEW txids, NEW n \in Nat \ {0}, DOMAIN txids = 1 .. n, Len(txids) = n,
         NEW d \in 0 .. Depth(n)
  PROVE  /\ Len(Levels(txids)[d]) = Widths(n)[d]
         /\ DOMAIN Levels(txids)[d] = 1 .. Widths(n)[d]
<1> DEFINE l == Levels(txids)
           w == Widths(n)
           m == Depth(n)
           S == {k \in 0 .. m : Len(l[k]) = w[k] /\ DOMAIN l[k] = 1 .. w[k]}
<1>1. IsWidth(w, n) /\ m \in 0 .. n
  BY WidthsAre, DepthIs
<1>2. l[0] = txids /\ \A k \in 1 .. m : l[k] = Parents(l[k-1])
  BY LevelsAre
<1> HIDE DEF l, w, m
<1>3. 0 \in S
  BY <1>1, <1>2 DEF IsWidth
<1>4. ASSUME NEW k \in 1 .. m, k-1 \in S PROVE k \in S
  <2>1. k \in 1 .. n /\ k \in 0 .. n /\ k - 1 \in 0 .. n
    BY <1>1
  <2>2. w[k] = (w[k-1] + 1) \div 2 /\ w[k] \in Nat
    BY <1>1, <2>1 DEF IsWidth
  <2>3. Len(l[k-1]) = w[k-1]
    BY <1>4
  <2>4. DOMAIN Parents(l[k-1]) = 1 .. w[k] /\ Len(Parents(l[k-1])) = w[k]
    BY <2>2, <2>3 DEF Parents
  <2> QED
    BY <1>2, <2>4
<1> HIDE DEF S
<1>5. \A k \in 0 .. m : k \in S
  BY <1>1, <1>3, <1>4, UpTo
<1>6. d \in S
  BY <1>5 DEF m
<1> QED
  BY <1>6 DEF S, l, w

\* What the relay computes from a proof of n pieces.
IsPath(c, txid, index, merkle_proof, n) ==
  c = [i \in 0 .. n |->
        IF i = 0 THEN txid
        ELSE IF index[i-1] % 2 = 0
        THEN Sha256d(<<c[i-1], merkle_proof[i]>>)
        ELSE Sha256d(<<merkle_proof[i], c[i-1]>>)]

LEMMA PathExists ==
  ASSUME NEW txid, NEW index, NEW merkle_proof, NEW n \in Nat
  PROVE  \E c : IsPath(c, txid, index, merkle_proof, n)
<1> DEFINE G(i, x) == IF index[i-1] % 2 = 0 THEN Sha256d(<<x, merkle_proof[i]>>)
                      ELSE Sha256d(<<merkle_proof[i], x>>)
           Rec(g, k) == g = [i \in 0 .. k |-> IF i = 0 THEN txid ELSE G(i, g[i-1])]
           S == {k \in 0 .. n : \E g : Rec(g, k)}
<1>0. ASSUME NEW g, Rec(g, n) PROVE IsPath(g, txid, index, merkle_proof, n)
  BY <1>0 DEF IsPath
<1> HIDE DEF G
<1>1. 0 \in S
  <2> DEFINE g == [i \in 0 .. 0 |-> txid]
  <2>1. Rec(g, 0)
    OBVIOUS
  <2> HIDE DEF g, Rec
  <2> QED
    BY <2>1
<1>2. ASSUME NEW k \in 1 .. n, k-1 \in S PROVE k \in S
  <2>1. PICK f : Rec(f, k-1)
    BY <1>2
  <2> DEFINE F(i) == IF i = 0 THEN txid ELSE G(i, f[i-1])
             g == [i \in 0 .. k |-> F(i)]
  <2>2. ASSUME NEW i \in 0 .. k-1 PROVE g[i] = f[i]
    <3>1. f[i] = IF i = 0 THEN txid ELSE G(i, f[i-1])
      BY <2>1
    <3>2. i \in 0 .. k
      OBVIOUS
    <3> QED
      BY <3>1, <3>2
  <2>3. ASSUME NEW i \in 0 .. k
        PROVE  F(i) = IF i = 0 THEN txid ELSE G(i, g[i-1])
    <3>1. CASE i = 0
      BY <3>1
    <3>2. CASE i # 0
      <4>1. i - 1 \in 0 .. k-1
        BY <3>2
      <4>2. g[i-1] = f[i-1]
        BY <2>2, <4>1
      <4> HIDE DEF g
      <4> QED
        BY <4>2
    <3> QED
      BY <3>1, <3>2
  <2>4. \A i \in 0 .. k : g[i] = F(i)
    OBVIOUS
  <2>5. g = [i \in 0 .. k |-> g[i]]
    OBVIOUS
  <2> HIDE DEF g, F
  <2>6. Rec(g, k)
    BY <2>3, <2>4, <2>5
  <2> HIDE DEF Rec
  <2> QED
    BY <2>6
<1> HIDE DEF S
<1>3. \A k \in 0 .. n : k \in S
  BY <1>1, <1>2, UpTo
<1>4. n \in S
  BY <1>3
<1>5. \E g : Rec(g, n)
  BY <1>4 DEF S
<1> HIDE DEF Rec
<1> QED
  BY <1>0, <1>5

Follows(c, txid, index, merkle_proof, n) ==
  /\ c[0] = txid
  /\ \A i \in 1 .. n :
       c[i] = IF index[i-1] % 2 = 0 THEN Sha256d(<<c[i-1], merkle_proof[i]>>)
              ELSE Sha256d(<<merkle_proof[i], c[i-1]>>)

LEMMA ComputeMerkleIs ==
  ASSUME NEW txid, NEW a, NEW merkle_proof, Len(merkle_proof) \in Nat
  PROVE  \E c : /\ Follows(c, txid, Shifted(a, Len(merkle_proof)), merkle_proof, Len(merkle_proof))
                /\ ComputeMerkle(txid, a, merkle_proof) = c[Len(merkle_proof)]
<1> DEFINE n == Len(merkle_proof)
           index == Shifted(a, n)
           Rec(c) == c = [i \in 0 .. n |->
                          IF i = 0 THEN txid
                          ELSE IF index[i-1] % 2 = 0
                          THEN Sha256d(<<c[i-1], merkle_proof[i]>>)
                          ELSE Sha256d(<<merkle_proof[i], c[i-1]>>)]
           p == CHOOSE c : Rec(c)
<1>1. ComputeMerkle(txid, a, merkle_proof) = p[n]
  BY DEF ComputeMerkle
<1> HIDE DEF n, index
<1>2. n \in Nat
  BY DEF n
<1>3. \E c : Rec(c)
  <2>1. PICK c : IsPath(c, txid, index, merkle_proof, n)
    BY <1>2, PathExists
  <2>2. Rec(c)
    BY <2>1 DEF IsPath
  <2> HIDE DEF Rec
  <2> QED
    BY <2>2
<1>4. Rec(p)
  <2> HIDE DEF Rec
  <2> QED
    BY <1>3
<1> HIDE DEF p
<1>5. Follows(p, txid, index, merkle_proof, n)
  <2>1. 0 \in 0 .. n /\ \A i \in 1 .. n : i \in 0 .. n /\ i # 0
    BY <1>2
  <2>2. p[0] = txid
    BY <1>4, <2>1
  <2>3. ASSUME NEW i \in 1 .. n
        PROVE  p[i] = IF index[i-1] % 2 = 0 THEN Sha256d(<<p[i-1], merkle_proof[i]>>)
                      ELSE Sha256d(<<merkle_proof[i], p[i-1]>>)
    BY <1>4, <2>1
  <2> QED
    BY <2>2, <2>3 DEF Follows
<1> QED
  BY <1>1, <1>5 DEF n, index

\* Positions stay within the levels on the way up.
LEMMA OwnWithin ==
  ASSUME NEW n \in Nat \ {0}, NEW a \in 0 .. n-1, NEW i \in 0 .. Depth(n)
  PROVE  Shifted(a, Depth(n))[i] < Widths(n)[i]
<1> DEFINE m == Depth(n)
           own == Shifted(a, m)
           w == Widths(n)
           S == {k \in 0 .. m : own[k] < w[k]}
<1>1. m \in 0 .. n /\ m \in Nat /\ IsWidth(w, n)
  BY WidthsAre, DepthIs
<1>2. Halves(own, a, m)
  BY <1>1, ShiftedHalves
<1> HIDE DEF m, own, w
<1>3. 0 \in S
  BY <1>1, <1>2 DEF IsWidth, Halves
<1>4. ASSUME NEW k \in 1 .. m, k-1 \in S PROVE k \in S
  <2>1. k - 1 \in 0 .. m /\ k - 1 \in 0 .. n /\ k \in 0 .. m /\ k \in 1 .. n
    BY <1>1
  <2>2. own[k] = own[k-1] \div 2 /\ own[k-1] \in Nat
    BY <1>2, <2>1 DEF Halves
  <2>3. w[k] = (w[k-1] + 1) \div 2 /\ w[k-1] \in Nat
    BY <1>1, <2>1 DEF IsWidth
  <2>4. own[k-1] < w[k-1]
    BY <1>4
  <2>5. own[k] < w[k]
    BY <2>2, <2>3, <2>4
  <2> QED
    BY <2>1, <2>5
<1> HIDE DEF S
<1>5. \A k \in 0 .. m : k \in S
  BY <1>1, <1>3, <1>4, UpTo
<1>6. i \in S
  BY <1>5 DEF m
<1> QED
  BY <1>6 DEF S, m, own, w

LEMMA MinOfTwo ==
  ASSUME NEW a \in Nat, NEW b \in Nat
  PROVE  Min({a, b}) = IF a <= b THEN a ELSE b
<1> DEFINE S == {a, b}
<1>1. \E x \in S : \A y \in S : x <= y
  OBVIOUS
<1>2. Min(S) \in S /\ \A y \in S : Min(S) <= y
  BY <1>1 DEF Min
<1> QED
  BY <1>2

\* The relay's path through a tree with the neighbours that are in the proof.
LEMMA ProofAccepted ==
  ASSUME NEW n \in Nat \ {0}, NEW txids, DOMAIN txids = 1 .. n, Len(txids) = n,
         NEW a \in 0 .. n-1
  PROVE  ComputeMerkle(txids[a + 1], a, ProofOf(txids, a)) = MerkleRoot(txids)
<1> DEFINE m == Depth(n)
           l == Levels(txids)
           w == Widths(n)
           own == Shifted(a, m)
           merkle_proof == ProofOf(txids, a)
<1>1. m \in 0 .. n /\ m \in Nat /\ IsWidth(w, n) /\ w[m] = 1
  BY WidthsAre, DepthIs
<1>2. l[0] = txids /\ \A k \in 1 .. m : l[k] = Parents(l[k-1])
  BY LevelsAre
<1>3. \A k \in 0 .. m : Len(l[k]) = w[k] /\ DOMAIN l[k] = 1 .. w[k]
  BY LevelHas
<1>4. Halves(own, a, m)
  BY <1>1, ShiftedHalves
<1>5. \A k \in 0 .. m : own[k] < w[k]
  BY OwnWithin
<1>6. MerkleRoot(txids) = l[m][1]
  BY DEF MerkleRoot
<1>7. Len(merkle_proof) = m
  BY <1>1 DEF ProofOf
<1>8. ASSUME NEW i \in 1 .. m
      PROVE  merkle_proof[i] =
               l[i-1][Min({(IF own[i-1] % 2 = 0 THEN own[i-1] + 1 ELSE own[i-1] - 1) + 1, w[i-1]})]
  <2>1. i - 1 \in 0 .. m
    BY <1>1
  <2>2. Shifted(a, i-1)[i-1] = own[i-1]
    BY <1>1, <2>1, ShiftedPrefix
  <2>3. Len(l[i-1]) = w[i-1]
    BY <1>3, <2>1
  <2> QED
    BY <2>2, <2>3 DEF ProofOf
<1>9. PICK c : /\ Follows(c, txids[a + 1], Shifted(a, Len(merkle_proof)), merkle_proof, Len(merkle_proof))
               /\ ComputeMerkle(txids[a + 1], a, merkle_proof) = c[Len(merkle_proof)]
  BY <1>1, <1>7, ComputeMerkleIs
<1>10. Follows(c, txids[a + 1], own, merkle_proof, m)
  BY <1>7, <1>9
<1>11. ComputeMerkle(txids[a + 1], a, merkle_proof) = c[m]
  BY <1>7, <1>9
<1> HIDE DEF m, l, w, own, merkle_proof
<1> DEFINE S == {k \in 0 .. m : c[k] = l[k][own[k] + 1]}
<1>12. 0 \in S
  BY <1>1, <1>2, <1>4, <1>10 DEF Halves, Follows
<1>13. ASSUME NEW i \in 1 .. m, i-1 \in S PROVE i \in S
  <2> DEFINE o == own[i-1]
             wide == w[i-1]
             L == l[i-1]
             j == own[i] + 1
  <2>0. i - 1 \in 0 .. m /\ i - 1 \in 0 .. n /\ i \in 0 .. m /\ i \in 1 .. n
    BY <1>1
  <2>1. o \in Nat /\ own[i] = o \div 2
    BY <1>4, <2>0 DEF Halves
  <2>2. wide \in Nat \ {0} /\ w[i] = (wide + 1) \div 2
    BY <1>1, <2>0 DEF IsWidth
  <2>3. o < wide /\ Len(L) = wide
    BY <1>3, <1>5, <2>0
  <2>4. c[i-1] = L[o + 1]
    BY <1>13
  <2>5. l[i] = Parents(L)
    BY <1>2
  <2>6. merkle_proof[i] = L[Min({(IF o % 2 = 0 THEN o + 1 ELSE o - 1) + 1, wide})]
    BY <1>8
  <2>7. c[i] = IF o % 2 = 0 THEN Sha256d(<<c[i-1], merkle_proof[i]>>)
               ELSE Sha256d(<<merkle_proof[i], c[i-1]>>)
    BY <1>10 DEF Follows
  <2>8. l[i][own[i] + 1] = l[i][j]
    OBVIOUS
  <2>9. j = (o \div 2) + 1
    BY <2>1
  <2> HIDE DEF o, wide, L, j
  <2>10. j \in 1 .. (Len(L) + 1) \div 2
    BY <2>1, <2>2, <2>3, <2>9
  <2>11. l[i][j] = Sha256d(<<L[2*j - 1], L[Min({2*j, wide})]>>)
    BY <2>3, <2>5, <2>10 DEF Parents
  <2>12. CASE o % 2 = 0
    <3>1. 2*j - 1 = o + 1 /\ 2*j = (o + 1) + 1
      BY <2>1, <2>9, <2>12
    <3>2. merkle_proof[i] = L[Min({(o + 1) + 1, wide})]
      BY <2>6, <2>12
    <3> QED
      BY <2>0, <2>4, <2>7, <2>8, <2>11, <2>12, <3>1, <3>2
  <2>13. CASE o % 2 # 0
    <3>1. 2*j - 1 = o /\ 2*j = o + 1 /\ o >= 1 /\ (o - 1) + 1 = o
      BY <2>1, <2>9, <2>13
    <3>2. Min({o, wide}) = o /\ Min({o + 1, wide}) = o + 1
      BY <2>1, <2>2, <2>3, MinOfTwo
    <3>3. merkle_proof[i] = L[Min({o, wide})]
      BY <2>6, <2>13, <3>1
    <3> QED
      BY <2>0, <2>4, <2>7, <2>8, <2>11, <2>13, <3>1, <3>2, <3>3
  <2> QED
    BY <2>12, <2>13
<1> HIDE DEF S
<1>14. \A k \in 0 .. m : k \in S
  BY <1>1, <1>12, <1>13, UpTo
<1>15. c[m] = l[m][own[m] + 1]
  BY <1>1, <1>14 DEF S
<1>16. own[m] = 0
  <2>1. own[m] \in Nat /\ own[m] < 1
    BY <1>1, <1>4, <1>5 DEF Halves
  <2> QED
    BY <2>1
<1> QED
  BY <1>6, <1>11, <1>15, <1>16 DEF merkle_proof

-----------------------------------------------------------------------------
(***************************************************************************)
(* Blocks.                                                                 *)
(***************************************************************************)

IsBlock == block \in Seq(Transaction) /\ block # <<>>

LEMMA BlockInvariant == Spec => []IsBlock
<1>1. Init => IsBlock
  <2> SUFFICES ASSUME NEW tx \in Transaction, block = <<tx>> PROVE IsBlock
    BY DEF Init
  <2>1. <<tx>> \in Seq(Transaction) /\ Len(<<tx>>) = 1 /\ Len(<<>>) = 0
    OBVIOUS
  <2>2. <<tx>> # <<>>
    BY <2>1
  <2> QED
    BY <2>1, <2>2 DEF IsBlock
<1>2. IsBlock /\ [Next]_block => IsBlock'
  <2> SUFFICES ASSUME IsBlock, [Next]_block PROVE IsBlock'
    OBVIOUS
  <2>1. CASE Next
    <3>1. PICK tx \in Transaction : block' = Append(block, tx)
      BY <2>1 DEF Next
    <3> QED
      BY <3>1, AppendProperties DEF IsBlock
  <2>2. CASE UNCHANGED block
    BY <2>2 DEF IsBlock
  <2> QED
    BY <2>1, <2>2
<1> QED
  BY <1>1, <1>2, PTL DEF Spec

LEMMA BlockSize ==
  ASSUME IsBlock
  PROVE  /\ Len(block) \in Nat \ {0}
         /\ DOMAIN block = 1 .. Len(block)
         /\ \A i \in DOMAIN block : block[i] \in Transaction
         /\ DOMAIN Txids = 1 .. Len(block)
         /\ Len(Txids) = Len(block)
         /\ \A i \in DOMAIN block : Txids[i] = Txid(block[i])
<1>1. Len(block) \in Nat \ {0} /\ DOMAIN block = 1 .. Len(block)
      /\ \A i \in DOMAIN block : block[i] \in Transaction
  BY EmptySeq, LenProperties DEF IsBlock
<1> QED
  BY <1>1 DEF Txids

LEMMA BlockProofs ==
  ASSUME IsBlock
  PROVE  ProofsComplete
<1> SUFFICES ASSUME NEW i \in DOMAIN block
             PROVE  ComputeMerkle(Txids[i], i - 1, ProofOf(Txids, i - 1)) = MerkleRoot(Txids)
  BY DEF ProofsComplete
<1>1. i - 1 \in 0 .. Len(block) - 1 /\ (i - 1) + 1 = i
  BY BlockSize
<1> QED
  BY <1>1, BlockSize, ProofAccepted

\* The proof of every transaction of a block is accepted: compute_merkle, which
\* takes the sides from the bits of the index, ends at the root of Bitcoin's tree
\* for any number of transactions.
THEOREM RelayAcceptsTransactions == Spec => []ProofsComplete
<1>1. IsBlock => ProofsComplete
  BY BlockProofs
<1> QED
  BY <1>1, BlockInvariant, PTL

-----------------------------------------------------------------------------
(***************************************************************************)
(* Bytes at an offset.                                                     *)
(***************************************************************************)

Bytes == Seq(Byte)

LEMMA Sizes ==
  /\ BASE \in Nat \ {0, 1} /\ BASE > 4
  /\ SHORT \in Nat \ {0} /\ WORD \in Nat \ {0} /\ LONG \in Nat \ {0} /\ HASH \in Nat \ {0}
  /\ WORD > 1 /\ LONG >= 2 * WORD - 1
BY WidthAssumption

LEMMA PowerIs == IsPowers(Power, BASE)
<1> DEFINE Rec(g) == g = [k \in Nat |-> IF k = 0 THEN 1 ELSE BASE * g[k-1]]
<1>1. \E f : Rec(f)
  <2>1. PICK f : IsPowers(f, BASE)
    BY Sizes, PowersExist
  <2> QED
    BY <2>1 DEF IsPowers
<1>2. Power = CHOOSE g : Rec(g)
  BY DEF Power
<1> HIDE DEF Rec
<1>3. Rec(Power)
  BY <1>1, <1>2
<1> QED
  BY <1>3 DEF Rec, IsPowers

LEMMA PowerFacts ==
  /\ Power[0] = 1
  /\ \A k \in Nat : Power[k] \in Nat \ {0} /\ Power[k+1] = BASE * Power[k]
BY PowerIs, Sizes, PowersType, PowersPos

\* The bytes s are in data, from offset o on.
At(data, o, s) ==
  /\ o \in Nat /\ o + Len(s) <= Len(data)
  /\ \A i \in 1 .. Len(s) : data[o + i] = s[i]

LEMMA AtStart ==
  ASSUME NEW data \in Bytes
  PROVE  At(data, 0, data)
<1>1. Len(data) \in Nat
  OBVIOUS
<1> QED
  BY <1>1 DEF At

LEMMA AtConcat ==
  ASSUME NEW data \in Bytes, NEW o \in Nat, NEW s \in Bytes, NEW t \in Bytes, At(data, o, s \o t)
  PROVE  At(data, o, s) /\ At(data, o + Len(s), t)
<1>1. /\ Len(s) \in Nat /\ Len(t) \in Nat /\ Len(data) \in Nat
      /\ Len(s \o t) = Len(s) + Len(t)
      /\ \A i \in 1 .. Len(s) + Len(t) :
           (s \o t)[i] = IF i <= Len(s) THEN s[i] ELSE t[i - Len(s)]
  BY ConcatProperties DEF Bytes
<1> DEFINE u == s \o t
           m == Len(s)
           n == Len(t)
<1>2. /\ o \in Nat /\ o + (m + n) <= Len(data)
      /\ \A i \in 1 .. m + n : data[o + i] = u[i]
  BY <1>1 DEF At
<1>3. \A i \in 1 .. m + n : u[i] = IF i <= m THEN s[i] ELSE t[i - m]
  BY <1>1
<1>4. m \in Nat /\ n \in Nat /\ Len(data) \in Nat
  BY <1>1
<1> HIDE DEF u
<1>5. At(data, o, s)
  <2>1. \A i \in 1 .. m : data[o + i] = s[i]
    BY <1>2, <1>3, <1>4
  <2> QED
    BY <1>2, <1>4, <2>1 DEF At
<1>6. At(data, o + m, t)
  <2>1. ASSUME NEW i \in 1 .. n PROVE data[(o + m) + i] = t[i]
    <3>1. m + i \in 1 .. m + n /\ ~ (m + i <= m) /\ (m + i) - m = i /\ (o + m) + i = o + (m + i)
      BY <1>2, <1>4
    <3>2. data[o + (m + i)] = u[m + i] /\ u[m + i] = t[(m + i) - m]
      BY <1>2, <1>3, <3>1
    <3> QED
      BY <3>1, <3>2
  <2> QED
    BY <1>2, <1>4, <2>1 DEF At
<1> QED
  BY <1>5, <1>6

LEMMA AtSlice ==
  ASSUME NEW data \in Bytes, NEW o \in Nat, NEW s \in Bytes, At(data, o, s)
  PROVE  Slice(data, o, Len(s)) = s
<1> DEFINE n == Len(s)
           t == SubSeq(data, o + 1, o + n)
<1>1. o \in Nat /\ n \in Nat /\ Len(data) \in Nat /\ o + n <= Len(data)
  BY DEF At, Bytes
<1>2. \A i \in o + 1 .. o + n : data[i] \in Byte
  BY <1>1, ElementOfSeq DEF Bytes
<1>3. /\ t \in Bytes
      /\ Len(t) = IF o + 1 <= o + n THEN (o + n) - (o + 1) + 1 ELSE 0
      /\ \A i \in 1 .. (o + n) - (o + 1) + 1 : t[i] = data[(o + 1) + i - 1]
  <2> HIDE DEF n
  <2>1. o + 1 \in Int /\ o + n \in Int
    BY <1>1
  <2>2. /\ t \in Seq(Byte)
        /\ Len(t) = IF o + 1 <= o + n THEN (o + n) - (o + 1) + 1 ELSE 0
        /\ \A i \in 1 .. (o + n) - (o + 1) + 1 : t[i] = data[(o + 1) + i - 1]
    BY <1>2, <2>1, SubSeqProperties
  <2> QED
    BY <2>2 DEF Bytes
<1>4. Len(t) = n
  <2> HIDE DEF n, t
  <2> QED
    BY <1>1, <1>3
<1>5. ASSUME NEW i \in 1 .. n PROVE t[i] = s[i]
  <2>1. i \in 1 .. (o + n) - (o + 1) + 1 /\ (o + 1) + i - 1 = o + i
    BY <1>1
  <2>2. t[i] = data[o + i]
    <3> HIDE DEF t, n
    <3> QED
      BY <1>3, <2>1
  <2> QED
    BY <2>2 DEF At
<1>6. t = s
  <2> HIDE DEF t
  <2> QED
    BY <1>3, <1>4, <1>5, SeqEqual DEF Bytes
<1> QED
  BY <1>6 DEF Slice

-----------------------------------------------------------------------------
(***************************************************************************)
(* Numbers.                                                                *)
(***************************************************************************)

LEMMA LeBytesType ==
  ASSUME NEW n \in Nat, NEW width \in Nat
  PROVE  LeBytes(n, width) \in Bytes /\ Len(LeBytes(n, width)) = width
<1>1. ASSUME NEW i \in 1 .. width PROVE (n \div Power[i-1]) % BASE \in Byte
  <2> DEFINE p == Power[i-1]
  <2>1. p \in Nat \ {0}
    <3>1. i - 1 \in Nat
      OBVIOUS
    <3> QED
      BY <3>1, PowerFacts
  <2> HIDE DEF p
  <2>2. n \div p \in Nat
    BY <2>1, DivMod
  <2> HIDE DEF Byte
  <2> DEFINE q == n \div p
  <2>3. q \in Nat
    BY <2>2
  <2> HIDE DEF q
  <2>4. q % BASE \in 0 .. BASE - 1
    BY <2>3, Sizes, DivMod
  <2> QED
    BY <2>4 DEF q, p, Byte
<1> DEFINE F == [i \in 1 .. width |-> (n \div Power[i-1]) % BASE]
<1>2. F \in [1 .. width -> Byte]
  BY <1>1
<1>3. DOMAIN F = 1 .. width
  OBVIOUS
<1> HIDE DEF F
<1>4. F \in Seq(Byte)
  BY <1>2, SeqDef
<1>5. Len(F) = width
  BY <1>3, <1>4
<1> QED
  BY <1>4, <1>5 DEF LeBytes, Bytes, F

\* One more digit.
LEMMA ModStep ==
  ASSUME NEW n \in Nat, NEW p \in Nat \ {0}, NEW b \in Nat \ {0}
  PROVE  n % (b * p) = (n % p) + ((n \div p) % b) * p
<1> DEFINE q == n \div p
           r == n % p
           qq == q \div b
           d == q % b
<1>1. q \in Nat /\ r \in 0 .. p - 1 /\ n = p * q + r
  BY DivMod
<1> HIDE DEF q, r
<1>2. qq \in Nat /\ d \in 0 .. b - 1 /\ q = b * qq + d
  BY <1>1, DivMod
<1> HIDE DEF qq, d
<1> DEFINE x == p * d
<1>3. x \in Nat /\ x <= p * (b - 1)
  BY <1>2, MulType, MulOrder
<1>4. p * (b - 1) = p * b - p
  OBVIOUS
<1>5. p * b \in Nat /\ b * p = p * b /\ b * p \in Nat
  BY MulType, MulLaws
<1>6. n = (b * p) * qq + (x + r)
  <2>1. p * q = p * (b * qq) + p * d
    BY <1>2
  <2>2. p * (b * qq) = (b * p) * qq
    BY <1>2
  <2> DEFINE u == p * q
             v == (b * p) * qq
  <2>3. u = v + x /\ u \in Nat /\ v \in Nat /\ n = u + r
    BY <1>1, <1>2, <1>5, <2>1, <2>2, MulType
  <2> HIDE DEF u, v, x
  <2>4. n = v + (x + r)
    BY <1>1, <1>3, <2>3
  <2> QED
    BY <2>4 DEF v
<1>7. x + r \in 0 .. (b * p) - 1
  <2> DEFINE z == p * b
  <2>1. z \in Nat /\ x <= z - p /\ b * p = z
    BY <1>3, <1>4, <1>5
  <2> HIDE DEF z, x
  <2> QED
    BY <1>1, <1>3, <2>1
<1>8. n % (b * p) = x + r
  <2> DEFINE z == b * p
             y == x + r
  <2>1. z \in Nat /\ y \in 0 .. z - 1 /\ n = z * qq + y
    BY <1>5, <1>6, <1>7
  <2> HIDE DEF z, y
  <2>2. n % z = y
    BY <1>2, <2>1, DivUnique
  <2> QED
    BY <2>2 DEF z, y
<1>9. x = d * p
  BY <1>2
<1> QED
  BY <1>1, <1>3, <1>8, <1>9 DEF q, r, d

\* The parser reads the number that was written.
LEMMA FromLeBytesIs ==
  ASSUME NEW data \in Bytes, NEW o \in Nat, NEW width \in Nat, NEW n \in Nat, n < Power[width],
         At(data, o, LeBytes(n, width))
  PROVE  FromLeBytes(data, o, width) = n
<1> DEFINE Rec(g) == g = [i \in 0 .. width |->
                            IF i = 0 THEN 0 ELSE g[i-1] + data[o + i] * Power[i-1]]
           f == CHOOSE g : Rec(g)
           h == [i \in 0 .. width |-> n % Power[i]]
<1>1. ASSUME NEW i \in 1 .. width
      PROVE  h[i] = h[i-1] + data[o + i] * Power[i-1]
  <2> DEFINE p == Power[i-1]
  <2>1. i - 1 \in Nat /\ (i - 1) + 1 = i /\ i \in 0 .. width /\ i - 1 \in 0 .. width
    OBVIOUS
  <2>2. p \in Nat \ {0} /\ Power[i] = BASE * p
    BY <2>1, PowerFacts
  <2>3. Len(LeBytes(n, width)) = width
    BY LeBytesType
  <2>4. data[o + i] = (n \div p) % BASE
    BY <2>3 DEF At, LeBytes
  <2>5. h[i] = n % Power[i] /\ h[i-1] = n % p
    BY <2>1
  <2> HIDE DEF h, p
  <2>6. n % (BASE * p) = (n % p) + ((n \div p) % BASE) * p
    BY <2>2, Sizes, ModStep
  <2> QED
    BY <2>2, <2>4, <2>5, <2>6 DEF p
<1>2. h[0] = 0
  <2>1. h[0] = n % Power[0] /\ Power[0] = 1
    BY PowerFacts
  <2> HIDE DEF h
  <2> QED
    BY <2>1
<1>3. h = [i \in 0 .. width |-> h[i]]
  OBVIOUS
<1> HIDE DEF h
<1>4. Rec(h)
  <2>1. ASSUME NEW i \in 0 .. width
        PROVE  h[i] = IF i = 0 THEN 0 ELSE h[i-1] + data[o + i] * Power[i-1]
    <3>1. i # 0 => i \in 1 .. width
      OBVIOUS
    <3> QED
      BY <1>1, <1>2, <3>1
  <2> QED
    BY <1>3, <2>1
<1>5. Rec(f)
  <2> HIDE DEF Rec
  <2> QED
    BY <1>4
<1>6. FromLeBytes(data, o, width) = f[width]
  BY DEF FromLeBytes
<1> HIDE DEF f
<1>7. f[0] = 0 /\ \A i \in 1 .. width : f[i] = f[i-1] + data[o + i] * Power[i-1]
  BY <1>5
<1> DEFINE S == {i \in 0 .. width : f[i] = h[i]}
<1>8. 0 \in S
  BY <1>2, <1>7
<1>9. ASSUME NEW i \in 1 .. width, i-1 \in S PROVE i \in S
  BY <1>1, <1>7, <1>9
<1> HIDE DEF S
<1>10. \A i \in 0 .. width : i \in S
  BY <1>8, <1>9, UpTo
<1>11. width \in S
  BY <1>10
<1>12. f[width] = h[width]
  BY <1>11 DEF S
<1>13. h[width] = n
  <2>1. h[width] = n % Power[width] /\ Power[width] \in Nat
    BY PowerFacts DEF h
  <2> DEFINE p == Power[width]
  <2> HIDE DEF p, h
  <2>2. n < p /\ p \in Nat /\ h[width] = n % p
    BY <2>1 DEF p
  <2> QED
    BY <2>2
<1> QED
  BY <1>6, <1>12, <1>13

LEMMA VarIntType ==
  ASSUME NEW n \in Nat
  PROVE  VarInt(n) \in Bytes /\ Len(VarInt(n)) >= 1
<1>1. ASSUME NEW b \in Byte, NEW width \in Nat
      PROVE  <<b>> \o LeBytes(n, width) \in Bytes /\ Len(<<b>> \o LeBytes(n, width)) = 1 + width
  <2>1. <<b>> \in Bytes /\ Len(<<b>>) = 1
    BY DEF Bytes
  <2> QED
    BY <2>1, LeBytesType, ConcatProperties DEF Bytes
<1>2. BASE - 3 \in Byte /\ BASE - 2 \in Byte /\ BASE - 1 \in Byte
  BY Sizes DEF Byte
<1>3. CASE n <= BASE - 4
  <2>1. VarInt(n) = <<n>> /\ n \in Byte
    BY <1>3, Sizes DEF VarInt, Byte
  <2> QED
    BY <2>1 DEF Bytes
<1>4. CASE ~ (n <= BASE - 4)
  <2>1. PICK b \in Byte, width \in Nat : VarInt(n) = <<b>> \o LeBytes(n, width)
    BY <1>2, <1>4, Sizes DEF VarInt
  <2> QED
    BY <1>1, <2>1
<1> QED
  BY <1>3, <1>4

LEMMA ReadVarIntIs ==
  ASSUME NEW data \in Bytes, NEW o \in Nat, NEW n \in Nat, n < Power[LONG], At(data, o, VarInt(n))
  PROVE  /\ ReadVarInt(data, o) = [value |-> n, end |-> o + Len(VarInt(n))]
         /\ ReadVarInt(data, o) # None
<1>0. o \in Nat /\ Len(data) \in Nat
  BY DEF At, Bytes
<1>1. ASSUME NEW b \in Byte, NEW width \in Nat \ {0}, n < Power[width],
             VarInt(n) = <<b>> \o LeBytes(n, width),
             width = IF b <= BASE - 4 THEN 0 ELSE IF b = BASE - 3 THEN SHORT
                     ELSE IF b = BASE - 2 THEN WORD ELSE LONG
      PROVE  ReadVarInt(data, o) = [value |-> n, end |-> o + Len(VarInt(n))]
  <2> DEFINE s == <<b>>
             t == LeBytes(n, width)
             w == CASE data[o + 1] <= BASE - 4 -> 0 [] data[o + 1] = BASE - 3 -> SHORT
                    [] data[o + 1] = BASE - 2 -> WORD [] OTHER -> LONG
  <2>1. s \in Bytes /\ Len(s) = 1 /\ s[1] = b
    BY DEF Bytes
  <2>2. t \in Bytes /\ Len(t) = width
    BY LeBytesType
  <2>3. ReadVarInt(data, o) =
          IF o >= Len(data) THEN None
          ELSE IF o + 1 + w > Len(data) THEN None
          ELSE [value |-> IF w = 0 THEN data[o + 1] ELSE FromLeBytes(data, o + 1, w),
                end   |-> o + 1 + w]
    BY DEF ReadVarInt
  <2>4. VarInt(n) = s \o t /\ At(data, o, s \o t)
    BY <1>1
  <2> HIDE DEF s, t
  <2>5. At(data, o, s) /\ At(data, o + 1, t)
    BY <2>1, <2>2, <2>4, AtConcat
  <2>6. data[o + 1] = b
    BY <2>1, <2>5 DEF At
  <2>7. o + 1 + width <= Len(data) /\ ~ (o >= Len(data)) /\ ~ (o + 1 + width > Len(data))
    BY <1>0, <2>2, <2>5 DEF At
  <2>8. Len(VarInt(n)) = 1 + width
    BY <2>1, <2>2, <2>4, ConcatProperties DEF Bytes
  <2>9. FromLeBytes(data, o + 1, width) = n
    BY <1>1, <2>5, FromLeBytesIs DEF t
  <2>10. b \in Nat
    BY DEF Byte
  <2>11. w = width
    BY <1>1, <2>6, <2>10, Sizes
  <2> HIDE DEF w
  <2>12. ReadVarInt(data, o) = [value |-> n, end |-> o + 1 + width]
    BY <2>3, <2>7, <2>9, <2>11
  <2>13. o + 1 + width = o + (1 + width)
    BY <1>0
  <2> QED
    BY <2>8, <2>12, <2>13
<1>2. BASE - 3 \in Byte /\ BASE - 2 \in Byte /\ BASE - 1 \in Byte
  BY Sizes DEF Byte
<1>7. ReadVarInt(data, o) = [value |-> n, end |-> o + Len(VarInt(n))]
  <2>1. CASE n <= BASE - 4
    <3> DEFINE w == CASE data[o + 1] <= BASE - 4 -> 0 [] data[o + 1] = BASE - 3 -> SHORT
                      [] data[o + 1] = BASE - 2 -> WORD [] OTHER -> LONG
    <3>1. VarInt(n) = <<n>>
      BY <2>1 DEF VarInt
    <3>2. Len(VarInt(n)) = 1 /\ VarInt(n)[1] = n
      BY <3>1
    <3>3. data[o + 1] = n /\ o + 1 <= Len(data)
      BY <3>2 DEF At
    <3>4. ReadVarInt(data, o) =
            IF o >= Len(data) THEN None
            ELSE IF o + 1 + w > Len(data) THEN None
            ELSE [value |-> IF w = 0 THEN data[o + 1] ELSE FromLeBytes(data, o + 1, w),
                  end   |-> o + 1 + w]
      BY DEF ReadVarInt
    <3>5. w = 0
      BY <2>1, <3>3, Sizes
    <3>6. ~ (o >= Len(data)) /\ ~ (o + 1 + 0 > Len(data)) /\ o + 1 + 0 = o + 1
      BY <1>0, <3>3
    <3> HIDE DEF w
    <3> QED
      BY <3>2, <3>3, <3>4, <3>5, <3>6
  <2>2. CASE ~ (n <= BASE - 4) /\ n < Power[SHORT]
    <3>1. VarInt(n) = <<BASE - 3>> \o LeBytes(n, SHORT)
      BY <2>2 DEF VarInt
    <3> DEFINE b == BASE - 3
    <3>2. SHORT = IF b <= BASE - 4 THEN 0 ELSE IF b = BASE - 3 THEN SHORT
                 ELSE IF b = BASE - 2 THEN WORD ELSE LONG
      BY Sizes
    <3>3. b \in Byte /\ VarInt(n) = <<b>> \o LeBytes(n, SHORT) /\ SHORT \in Nat \ {0}
      BY <1>2, <3>1, Sizes
    <3> HIDE DEF b
    <3> QED
      BY <1>1, <2>2, <3>2, <3>3
  <2>3. CASE ~ (n <= BASE - 4) /\ ~ (n < Power[SHORT]) /\ n < Power[WORD]
    <3>1. VarInt(n) = <<BASE - 2>> \o LeBytes(n, WORD)
      BY <2>3 DEF VarInt
    <3> DEFINE b == BASE - 2
    <3>2. WORD = IF b <= BASE - 4 THEN 0 ELSE IF b = BASE - 3 THEN SHORT
                 ELSE IF b = BASE - 2 THEN WORD ELSE LONG
      BY Sizes
    <3>3. b \in Byte /\ VarInt(n) = <<b>> \o LeBytes(n, WORD) /\ WORD \in Nat \ {0}
      BY <1>2, <3>1, Sizes
    <3> HIDE DEF b
    <3> QED
      BY <1>1, <2>3, <3>2, <3>3
  <2>4. CASE ~ (n <= BASE - 4) /\ ~ (n < Power[SHORT]) /\ ~ (n < Power[WORD])
    <3>1. VarInt(n) = <<BASE - 1>> \o LeBytes(n, LONG)
      BY <2>4 DEF VarInt
    <3> DEFINE b == BASE - 1
    <3>2. LONG = IF b <= BASE - 4 THEN 0 ELSE IF b = BASE - 3 THEN SHORT
                 ELSE IF b = BASE - 2 THEN WORD ELSE LONG
      BY Sizes
    <3>3. b \in Byte /\ VarInt(n) = <<b>> \o LeBytes(n, LONG) /\ LONG \in Nat \ {0}
      BY <1>2, <3>1, Sizes
    <3> HIDE DEF b
    <3> QED
      BY <1>1, <3>2, <3>3
  <2> QED
    BY <2>1, <2>2, <2>3, <2>4
<1>8. [value |-> n, end |-> o + Len(VarInt(n))] \in VarIntRead
  <2>1. Len(VarInt(n)) \in Nat
    BY VarIntType DEF Bytes
  <2> QED
    BY <1>0, <2>1 DEF VarIntRead
<1> QED
  BY <1>7, <1>8, WidthAssumption

-----------------------------------------------------------------------------
(***************************************************************************)
(* Inputs and outputs.                                                     *)
(***************************************************************************)

LEMMA BytesConcat ==
  \A s, t \in Bytes : s \o t \in Bytes /\ Len(s \o t) = Len(s) + Len(t) /\ Len(s) \in Nat
BY ConcatProperties DEF Bytes

Sized(script) == script \in Bytes /\ Len(script) < Power[LONG]

LEMMA ReadInputIs ==
  ASSUME NEW data \in Bytes, NEW o \in Nat, NEW input \in TxInput, Sized(input.script),
         At(data, o, InputBytes(input))
  PROVE  ReadInput(data, o) =
           [sequence |-> input.sequence, end |-> o + Len(InputBytes(input))]
<1> DEFINE a == [i \in 1 .. HASH |-> input.prev]
           b == LeBytes(0, WORD)
           c == VarInt(Len(input.script))
           d == input.script
           e == LeBytes(input.sequence, WORD)
<1>1. input.prev \in Byte /\ input.sequence \in Nat /\ input.sequence < Power[WORD]
      /\ d \in Bytes /\ Len(d) \in Nat /\ Len(d) < Power[LONG]
  <2>1. input.prev \in Byte /\ input.sequence \in 0 .. Power[WORD] - 1
    BY DEF TxInput
  <2>2. Power[WORD] \in Nat
    BY Sizes, PowerFacts
  <2> QED
    BY <2>1, <2>2 DEF Sized, Bytes
<1>2. a \in Bytes /\ Len(a) = HASH
  BY <1>1, Sizes DEF Bytes
<1>3. b \in Bytes /\ Len(b) = WORD /\ e \in Bytes /\ Len(e) = WORD
  BY <1>1, Sizes, LeBytesType
<1>4. c \in Bytes
  BY <1>1, VarIntType
<1>5. InputBytes(input) = (((a \o b) \o c) \o d) \o e
  BY DEF InputBytes
<1> DEFINE L == Len(c)
           D == Len(d)
<1>6. ReadInput(data, o) =
        LET script == ReadVarInt(data, o + HASH + WORD)
            at == script.end + script.value
        IN  IF script = None THEN None
            ELSE IF at + WORD > Len(data) THEN None
            ELSE [sequence |-> FromLeBytes(data, at, WORD), end |-> at + WORD]
  BY DEF ReadInput
<1>7. input.sequence \in Nat
  BY <1>1
<1> HIDE DEF a
<1>8. /\ a \o b \in Bytes /\ (a \o b) \o c \in Bytes /\ ((a \o b) \o c) \o d \in Bytes
      /\ Len(a \o b) = HASH + WORD
      /\ Len((a \o b) \o c) = (HASH + WORD) + L
      /\ Len(((a \o b) \o c) \o d) = ((HASH + WORD) + L) + D
      /\ Len((((a \o b) \o c) \o d) \o e) = (((HASH + WORD) + L) + D) + WORD
  <2> HIDE DEF b, c, d, e
  <2>1. a \o b \in Bytes /\ Len(a \o b) = HASH + WORD
    BY <1>2, <1>3, BytesConcat
  <2>2. (a \o b) \o c \in Bytes /\ Len((a \o b) \o c) = (HASH + WORD) + L
    <3> DEFINE ab == a \o b
    <3> HIDE DEF ab
    <3>1. ab \in Bytes /\ Len(ab) = HASH + WORD
      BY <2>1 DEF ab
    <3>2. ab \o c \in Bytes /\ Len(ab \o c) = (HASH + WORD) + L
      BY <1>4, <3>1, BytesConcat
    <3> QED
      BY <3>2 DEF ab
  <2>3. ((a \o b) \o c) \o d \in Bytes /\ Len(((a \o b) \o c) \o d) = ((HASH + WORD) + L) + D
    <3> DEFINE abc == (a \o b) \o c
    <3> HIDE DEF abc
    <3>1. abc \in Bytes /\ Len(abc) = (HASH + WORD) + L
      BY <2>2 DEF abc
    <3>2. abc \o d \in Bytes /\ Len(abc \o d) = ((HASH + WORD) + L) + D
      BY <1>1, <3>1, BytesConcat
    <3> QED
      BY <3>2 DEF abc
  <2>4. Len((((a \o b) \o c) \o d) \o e) = (((HASH + WORD) + L) + D) + WORD
    <3> DEFINE abcd == ((a \o b) \o c) \o d
    <3> HIDE DEF abcd
    <3>1. abcd \in Bytes /\ Len(abcd) = ((HASH + WORD) + L) + D
      BY <2>3 DEF abcd
    <3>2. Len(abcd \o e) = (((HASH + WORD) + L) + D) + WORD
      BY <1>3, <3>1, BytesConcat
    <3> QED
      BY <3>2 DEF abcd
  <2> QED
    BY <2>1, <2>2, <2>3, <2>4
<1>9. At(data, o, (((a \o b) \o c) \o d) \o e)
  BY <1>5
<1>10. At(data, o, ((a \o b) \o c) \o d) /\ At(data, o + (((HASH + WORD) + L) + D), e)
  <2> HIDE DEF b, c, d, e
  <2> QED
    BY <1>1, <1>3, <1>8, <1>9, AtConcat
<1>11. At(data, o, (a \o b) \o c) /\ At(data, o + ((HASH + WORD) + L), d)
  <2> HIDE DEF b, c, d, e
  <2> QED
    BY <1>1, <1>8, <1>10, AtConcat
<1>12. At(data, o + (HASH + WORD), c)
  <2> HIDE DEF b, c, d, e
  <2> QED
    BY <1>4, <1>8, <1>11, AtConcat
<1>13. o \in Nat /\ L \in Nat /\ D \in Nat /\ Len(data) \in Nat /\ WORD \in Nat /\ HASH \in Nat
  <2> HIDE DEF c
  <2> QED
    BY <1>1, <1>4, <1>9, Sizes DEF At, Bytes
<1> DEFINE o1 == o + (HASH + WORD)
           o2 == o + (((HASH + WORD) + L) + D)
<1>14. ReadVarInt(data, o1) = [value |-> D, end |-> o1 + L] /\ ReadVarInt(data, o1) # None
  <2>1. o1 \in Nat
    BY <1>13
  <2>2. At(data, o1, c)
    BY <1>12
  <2> HIDE DEF o1
  <2> QED
    BY <1>1, <2>1, <2>2, ReadVarIntIs
<1>15. FromLeBytes(data, o2, WORD) = input.sequence
  <2> HIDE DEF c, d
  <2> QED
    BY <1>1, <1>10, <1>13, FromLeBytesIs
<1>16. o2 + WORD <= Len(data)
  <2> HIDE DEF c, d
  <2> QED
    BY <1>3, <1>10 DEF At
<1>17. o + HASH + WORD = o1 /\ (o1 + L) + D = o2 /\ ~ (o2 + WORD > Len(data))
       /\ o2 + WORD = o + ((((HASH + WORD) + L) + D) + WORD)
  <2> HIDE DEF c, d, L, D
  <2> QED
    BY <1>13, <1>16
<1>18. Len(InputBytes(input)) = (((HASH + WORD) + L) + D) + WORD
  BY <1>5, <1>8
<1> HIDE DEF o1, o2, L, D, c, d, e
<1> QED
  BY <1>6, <1>14, <1>15, <1>17, <1>18

LEMMA ReadOutputIs ==
  ASSUME NEW data \in Bytes, NEW o \in Nat, NEW output \in TxOutput, Sized(output.script),
         At(data, o, OutputBytes(output))
  PROVE  ReadOutput(data, o) =
           [value |-> output.value, script |-> output.script, end |-> o + Len(OutputBytes(output))]
<1> DEFINE b == LeBytes(output.value, LONG)
           c == VarInt(Len(output.script))
           d == output.script
           L == Len(c)
           D == Len(d)
<1>1. output.value \in Nat /\ output.value < Power[LONG]
      /\ d \in Bytes /\ Len(d) \in Nat /\ Len(d) < Power[LONG]
  <2>1. output.value \in 0 .. Power[LONG] - 1
    BY DEF TxOutput
  <2>2. Power[LONG] \in Nat
    BY Sizes, PowerFacts
  <2> QED
    BY <2>1, <2>2 DEF Sized, Bytes
<1>2. b \in Bytes /\ Len(b) = LONG
  BY <1>1, Sizes, LeBytesType
<1>3. c \in Bytes
  BY <1>1, VarIntType
<1>4. OutputBytes(output) = (b \o c) \o d
  BY DEF OutputBytes
<1>5. ReadOutput(data, o) =
        LET script == ReadVarInt(data, o + LONG)
        IN  IF script = None THEN None
            ELSE IF script.end + script.value > Len(data) THEN None
            ELSE [value |-> FromLeBytes(data, o, LONG),
                  script |-> Slice(data, script.end, script.value),
                  end |-> script.end + script.value]
  BY DEF ReadOutput
<1>6. /\ b \o c \in Bytes /\ Len(b \o c) = LONG + L
      /\ Len((b \o c) \o d) = (LONG + L) + D
  <2> HIDE DEF b, c, d
  <2> QED
    BY <1>1, <1>2, <1>3, BytesConcat
<1>7. At(data, o, (b \o c) \o d)
  BY <1>4
<1>8. At(data, o, b \o c) /\ At(data, o + (LONG + L), d)
  <2> HIDE DEF b, c, d
  <2> QED
    BY <1>1, <1>6, <1>7, AtConcat
<1>9. At(data, o, b) /\ At(data, o + LONG, c)
  <2> HIDE DEF b, c, d
  <2> QED
    BY <1>2, <1>3, <1>8, AtConcat
<1>10. o \in Nat /\ L \in Nat /\ D \in Nat /\ Len(data) \in Nat /\ LONG \in Nat
  <2> HIDE DEF c
  <2> QED
    BY <1>1, <1>3, <1>7, Sizes DEF At, Bytes
<1> DEFINE o1 == o + LONG
           o2 == o + (LONG + L)
<1>11. ReadVarInt(data, o1) = [value |-> D, end |-> o1 + L] /\ ReadVarInt(data, o1) # None
  <2>1. o1 \in Nat
    BY <1>10
  <2>2. At(data, o1, c)
    BY <1>9
  <2> HIDE DEF o1
  <2> QED
    BY <1>1, <2>1, <2>2, ReadVarIntIs
<1>12. FromLeBytes(data, o, LONG) = output.value
  <2> HIDE DEF c, d
  <2> QED
    BY <1>1, <1>9, <1>10, FromLeBytesIs
<1>13. Slice(data, o2, D) = d
  <2>1. o2 \in Nat
    BY <1>10
  <2> HIDE DEF c, d, o2
  <2> QED
    BY <1>1, <1>8, <2>1, AtSlice DEF o2
<1>14. o2 + D <= Len(data)
  <2> HIDE DEF c, d
  <2> QED
    BY <1>8 DEF At
<1>15. o1 + L = o2 /\ ~ (o2 + D > Len(data)) /\ o2 + D = o + ((LONG + L) + D)
  <2> HIDE DEF c, d, L, D
  <2> QED
    BY <1>10, <1>14
<1>16. Len(OutputBytes(output)) = (LONG + L) + D
  BY <1>4, <1>6
<1> DEFINE script == ReadVarInt(data, o1)
<1>17. ReadOutput(data, o) =
        IF script = None THEN None
        ELSE IF script.end + script.value > Len(data) THEN None
        ELSE [value |-> FromLeBytes(data, o, LONG),
              script |-> Slice(data, script.end, script.value),
              end |-> script.end + script.value]
  BY <1>5
<1>18. script # None /\ script.end = o2 /\ script.value = D
  <2> HIDE DEF o1, o2, L, D, c
  <2> QED
    BY <1>11, <1>15
<1> HIDE DEF script, o1, o2, L, D, c, d
<1>19. ReadOutput(data, o) = [value |-> output.value, script |-> d, end |-> o2 + D]
  BY <1>12, <1>13, <1>15, <1>17, <1>18
<1> QED
  BY <1>15, <1>16, <1>19 DEF d

\* F[i] is the concatenation of the first i of some sequences.
Flattening(F, ss, n) ==
  /\ F \in [0 .. n -> Bytes]
  /\ F[0] = <<>>
  /\ \A i \in 1 .. n : F[i] = F[i-1] \o ss[i]

LEMMA FlattenIs ==
  ASSUME NEW n \in Nat, NEW ss \in [1 .. n -> Bytes]
  PROVE  \E F : Flattening(F, ss, n) /\ FlattenSeq(ss) = F[n]
<1> DEFINE step == [i \in 1 .. n |-> [x \in Bytes |-> x \o ss[i]]]
           Rec(g) == g = [i \in 1 .. n |-> IF i = 1 THEN ss[i] ELSE g[i-1] \o ss[i]]
           c == CHOOSE g : Rec(g)
<1>1. \A i \in 1 .. n : \A x \in Bytes : x \o ss[i] \in Bytes
  BY BytesConcat
<1>2. IsStep(step, n, Bytes)
  BY <1>1 DEF IsStep
<1>3. \A i \in 1 .. n : \A x \in Bytes : step[i][x] = x \o ss[i]
  OBVIOUS
<1>4. <<>> \in Bytes
  BY DEF Bytes
<1> HIDE DEF step
<1>5. PICK F : Iterates(F, n, Bytes, <<>>, step)
  BY <1>2, <1>4, IterationExists
<1>6. ASSUME NEW i \in 1 .. n PROVE F[i] = F[i-1] \o ss[i]
  <2>1. F[i-1] \in Bytes /\ F[i] = step[i][F[i-1]]
    BY <1>5 DEF Iterates
  <2> QED
    BY <1>3, <2>1
<1>7. Flattening(F, ss, n)
  BY <1>5, <1>6 DEF Iterates, Flattening
<1>8. Len(ss) = n
  BY SeqDef
<1>9. CASE n = 0
  <2>1. FlattenSeq(ss) = ss
    BY <1>8, <1>9 DEF FlattenSeq
  <2>2. ss = <<>>
    BY <1>9
  <2> QED
    BY <1>7, <1>9, <2>1, <2>2 DEF Flattening
<1>10. CASE n # 0
  <2> DEFINE h == [i \in 1 .. n |-> F[i]]
  <2>1. ASSUME NEW i \in 1 .. n
        PROVE  h[i] = IF i = 1 THEN ss[i] ELSE h[i-1] \o ss[i]
    <3>1. CASE i = 1
      <4>0. F[i] = F[i-1] \o ss[i] /\ i - 1 = 0 /\ F[0] = <<>> /\ ss[i] \in Bytes
        BY <1>6, <1>7, <3>1 DEF Flattening
      <4>1. F[1] = F[0] \o ss[1] /\ F[0] = <<>> /\ ss[1] \in Bytes
        BY <3>1, <4>0
      <4>2. <<>> \o ss[1] = ss[1]
        BY <4>1, ConcatEmptySeq DEF Bytes
      <4> QED
        BY <3>1, <4>1, <4>2
    <3>2. CASE i # 1
      <4>1. i - 1 \in 1 .. n
        BY <3>2
      <4> QED
        BY <1>6, <3>2, <4>1
    <3> QED
      BY <3>1, <3>2
  <2>2. h = [i \in 1 .. n |-> h[i]]
    OBVIOUS
  <2>3. \A i \in 1 .. n : h[i] = F[i]
    OBVIOUS
  <2> HIDE DEF h
  <2>4. Rec(h)
    BY <2>1, <2>2
  <2>5. Rec(c)
    <3> HIDE DEF Rec
    <3> QED
      BY <2>4
  <2>6. FlattenSeq(ss) = c[n]
    BY <1>8, <1>10 DEF FlattenSeq
  <2> HIDE DEF c
  <2>7. \A i \in 1 .. n : c[i] = IF i = 1 THEN ss[i] ELSE c[i-1] \o ss[i]
    BY <2>5
  <2> DEFINE S == {i \in 0 .. n : i = 0 \/ c[i] = h[i]}
  <2>8. 0 \in S
    OBVIOUS
  <2>9. ASSUME NEW i \in 1 .. n, i-1 \in S PROVE i \in S
    <3>1. c[i] = h[i]
      <4> HIDE DEF S
      <4>1. i - 1 = 0 \/ c[i-1] = h[i-1]
        BY <2>9 DEF S
      <4> QED
        BY <2>1, <2>7, <4>1
    <3> QED
      BY <3>1
  <2> HIDE DEF S
  <2>10. \A i \in 0 .. n : i \in S
    BY <2>8, <2>9, UpTo
  <2>11. n \in S
    BY <2>10
  <2>12. c[n] = h[n]
    BY <1>10, <2>11 DEF S
  <2>13. c[n] = F[n]
    BY <1>10, <2>3, <2>12
  <2> QED
    BY <1>7, <2>6, <2>13
<1> QED
  BY <1>9, <1>10

\* Where each of the concatenated sequences is.
LEMMA AtItems ==
  ASSUME NEW data \in Bytes, NEW o \in Nat, NEW n \in Nat, NEW ss \in [1 .. n -> Bytes],
         NEW F, Flattening(F, ss, n), At(data, o, F[n])
  PROVE  \A i \in 1 .. n : At(data, o + Len(F[i-1]), ss[i])
<1> DEFINE S == {k \in 0 .. n : At(data, o, F[n - k])}
<1>1. 0 \in S
  BY DEF Flattening
<1>2. ASSUME NEW k \in 1 .. n, k-1 \in S PROVE k \in S
  <2> DEFINE j == n - (k - 1)
  <2>1. j \in 1 .. n /\ j - 1 = n - k /\ j - 1 \in 0 .. n
    OBVIOUS
  <2>2. At(data, o, F[j])
    BY <1>2
  <2> HIDE DEF j
  <2>3. F[j] = F[j-1] \o ss[j] /\ F[j-1] \in Bytes /\ ss[j] \in Bytes
    BY <2>1 DEF Flattening
  <2>4. At(data, o, F[j-1])
    BY <2>2, <2>3, AtConcat
  <2> QED
    BY <2>1, <2>4
<1> HIDE DEF S
<1>3. \A k \in 0 .. n : k \in S
  BY <1>1, <1>2, UpTo
<1> TAKE i \in 1 .. n
<1>4. n - i \in 0 .. n /\ n - (n - i) = i /\ i - 1 \in 0 .. n
  OBVIOUS
<1>5. At(data, o, F[i])
  BY <1>3, <1>4 DEF S
<1>6. F[i] = F[i-1] \o ss[i] /\ F[i-1] \in Bytes /\ ss[i] \in Bytes
  BY <1>4 DEF Flattening
<1> QED
  <2> DEFINE s == F[i-1]
             t == ss[i]
  <2>1. At(data, o, s \o t) /\ s \in Bytes /\ t \in Bytes
    BY <1>5, <1>6
  <2> HIDE DEF s, t
  <2>2. At(data, o + Len(s), t)
    BY <2>1, AtConcat
  <2> QED
    BY <2>2 DEF s, t

\* Items in their bytes, one after another from offset e.
InputsAt(data, e, n, items, ss, F) ==
  /\ data \in Bytes /\ e \in Nat /\ n \in Nat
  /\ items \in [1 .. n -> TxInput] /\ \A i \in 1 .. n : Sized(items[i].script)
  /\ ss \in [1 .. n -> Bytes] /\ \A i \in 1 .. n : ss[i] = InputBytes(items[i])
  /\ Flattening(F, ss, n) /\ At(data, e, F[n])

\* The parser's list of inputs, with the offset after each of them.
LEMMA ReadInputs ==
  ASSUME NEW data, NEW e, NEW n, NEW items, NEW ss, NEW F, InputsAt(data, e, n, items, ss, F)
  PROVE  LET item == ReadAll(data, [value |-> n, end |-> e], ReadInput)
         IN  /\ \A i \in 1 .. n : item[i].sequence = items[i].sequence
             /\ item[n] # None /\ item[n].end = e + Len(F[n])
<1> USE DEF InputsAt
<1> DEFINE G(x) == IF x = None THEN None ELSE ReadInput(data, x.end)
           Rec(g) == g = [i \in 0 .. n |-> IF i = 0 THEN [end |-> e] ELSE G(g[i-1])]
           item == CHOOSE g : Rec(g)
           h == [i \in 0 .. n |-> IF i = 0 THEN [end |-> e]
                                  ELSE [sequence |-> items[i].sequence, end |-> e + Len(F[i])]]
           count == [value |-> n, end |-> e]
<1>1. ReadAll(data, count, ReadInput) = item
  BY DEF ReadAll
<1>2. \A i \in 0 .. n : Len(F[i]) \in Nat
  BY BytesConcat DEF Flattening
<1>3. ASSUME NEW i \in 0 .. n
      PROVE  h[i] # None /\ h[i].end = e + Len(F[i])
  <2>1. CASE i = 0
    <3>1. h[i] = [end |-> e] /\ Len(F[0]) = 0
      BY <2>1 DEF Flattening
    <3> HIDE DEF h
    <3>2. [end |-> e] \in [end : Nat]
      OBVIOUS
    <3>3. [end |-> e] # None
      BY <3>2, WidthAssumption
    <3> QED
      BY <2>1, <3>1, <3>3
  <2>2. CASE i # 0
    <3>1. h[i] = [sequence |-> items[i].sequence, end |-> e + Len(F[i])]
      BY <2>2
    <3>2. i \in 1 .. n
      BY <2>2
    <3>3. items[i].sequence \in Nat
      BY <3>2 DEF TxInput
    <3> HIDE DEF h
    <3>4. h[i] \in InputRead
      BY <1>2, <3>1, <3>3 DEF InputRead
    <3> QED
      BY <3>1, <3>4, WidthAssumption
  <2> QED
    BY <2>1, <2>2
<1>4. ASSUME NEW i \in 1 .. n
      PROVE  h[i] = G(h[i-1])
  <2>1. i - 1 \in 0 .. n
    OBVIOUS
  <2>2. h[i-1] # None /\ h[i-1].end = e + Len(F[i-1])
    BY <1>3, <2>1
  <2>3. At(data, e + Len(F[i-1]), ss[i]) /\ Len(F[i]) = Len(F[i-1]) + Len(ss[i])
    <3> HIDE DEF h, G
    <3>1. At(data, e + Len(F[i-1]), ss[i])
      BY AtItems
    <3>2. F[i] = F[i-1] \o ss[i] /\ F[i-1] \in Bytes /\ ss[i] \in Bytes
      BY <2>1 DEF Flattening
    <3> QED
      BY <3>1, <3>2, BytesConcat
  <2>4. ReadInput(data, e + Len(F[i-1])) =
          [sequence |-> items[i].sequence, end |-> (e + Len(F[i-1])) + Len(InputBytes(items[i]))]
    <3> HIDE DEF h, G
    <3> DEFINE p == e + Len(F[i-1])
               x == items[i]
    <3>1. p \in Nat
      BY <1>2, <2>1
    <3>2. x \in TxInput /\ Sized(x.script)
      OBVIOUS
    <3>3. At(data, p, InputBytes(x))
      BY <2>3
    <3> HIDE DEF p, x
    <3>4. ReadInput(data, p) = [sequence |-> x.sequence, end |-> p + Len(InputBytes(x))]
      BY <3>1, <3>2, <3>3, ReadInputIs
    <3> QED
      BY <3>4 DEF p, x
  <2>5. (e + Len(F[i-1])) + Len(InputBytes(items[i])) = e + Len(F[i])
    <3>1. Len(ss[i]) \in Nat /\ Len(F[i-1]) \in Nat /\ Len(F[i]) \in Nat
      BY <1>2, <2>1, BytesConcat
    <3>2. ss[i] = InputBytes(items[i])
      OBVIOUS
    <3> HIDE DEF h
    <3> QED
      BY <2>3, <3>1, <3>2
  <2>6. h[i] = [sequence |-> items[i].sequence, end |-> e + Len(F[i])]
    OBVIOUS
  <2> HIDE DEF h
  <2> QED
    BY <2>2, <2>4, <2>5, <2>6
<1>5. h[0] = [end |-> e] /\ h = [i \in 0 .. n |-> h[i]]
  OBVIOUS
<1>6. \A i \in 1 .. n : h[i] = [sequence |-> items[i].sequence, end |-> e + Len(F[i])]
  OBVIOUS
<1> HIDE DEF h, G
<1>7. Rec(h)
  <2>1. ASSUME NEW i \in 0 .. n PROVE h[i] = IF i = 0 THEN [end |-> e] ELSE G(h[i-1])
    <3>1. i # 0 => i \in 1 .. n
      OBVIOUS
    <3> QED
      BY <1>4, <1>5, <3>1
  <2> QED
    BY <1>5, <2>1
<1>8. Rec(item)
  <2> HIDE DEF Rec
  <2> QED
    BY <1>7
<1> HIDE DEF item
<1>9. item[0] = [end |-> e] /\ \A i \in 1 .. n : item[i] = G(item[i-1])
  BY <1>8
<1> DEFINE S == {i \in 0 .. n : item[i] = h[i]}
<1>10. 0 \in S
  BY <1>5, <1>9
<1>11. ASSUME NEW i \in 1 .. n, i-1 \in S PROVE i \in S
  BY <1>4, <1>9, <1>11
<1> HIDE DEF S
<1>12. \A i \in 0 .. n : i \in S
  BY <1>10, <1>11, UpTo
<1>13. \A i \in 0 .. n : item[i] = h[i]
  BY <1>12 DEF S
<1>14. n \in 0 .. n /\ \A i \in 1 .. n : i \in 0 .. n
  OBVIOUS
<1>15. \A i \in 1 .. n : item[i].sequence = items[i].sequence
  <2> TAKE i \in 1 .. n
  <2>1. item[i] = [sequence |-> items[i].sequence, end |-> e + Len(F[i])]
    BY <1>6, <1>13, <1>14
  <2> QED
    BY <2>1
<1>16. item[n] # None /\ item[n].end = e + Len(F[n])
  BY <1>3, <1>13, <1>14
<1> QED
  BY <1>1, <1>15, <1>16

\* Items in their bytes, one after another from offset e.
OutputsAt(data, e, n, items, ss, F) ==
  /\ data \in Bytes /\ e \in Nat /\ n \in Nat
  /\ items \in [1 .. n -> TxOutput] /\ \A i \in 1 .. n : Sized(items[i].script)
  /\ ss \in [1 .. n -> Bytes] /\ \A i \in 1 .. n : ss[i] = OutputBytes(items[i])
  /\ Flattening(F, ss, n) /\ At(data, e, F[n])

\* The same for outputs.
LEMMA ReadOutputs ==
  ASSUME NEW data, NEW e, NEW n, NEW items, NEW ss, NEW F, OutputsAt(data, e, n, items, ss, F)
  PROVE  LET item == ReadAll(data, [value |-> n, end |-> e], ReadOutput)
         IN  /\ \A i \in 1 .. n : item[i].value = items[i].value /\ item[i].script = items[i].script
             /\ item[n] # None /\ item[n].end = e + Len(F[n])
<1> USE DEF OutputsAt
<1> DEFINE G(x) == IF x = None THEN None ELSE ReadOutput(data, x.end)
           Rec(g) == g = [i \in 0 .. n |-> IF i = 0 THEN [end |-> e] ELSE G(g[i-1])]
           item == CHOOSE g : Rec(g)
           h == [i \in 0 .. n |-> IF i = 0 THEN [end |-> e]
                                  ELSE [value |-> items[i].value, script |-> items[i].script, end |-> e + Len(F[i])]]
           count == [value |-> n, end |-> e]
<1>1. ReadAll(data, count, ReadOutput) = item
  BY DEF ReadAll
<1>2. \A i \in 0 .. n : Len(F[i]) \in Nat
  BY BytesConcat DEF Flattening
<1>3. ASSUME NEW i \in 0 .. n
      PROVE  h[i] # None /\ h[i].end = e + Len(F[i])
  <2>1. CASE i = 0
    <3>1. h[i] = [end |-> e] /\ Len(F[0]) = 0
      BY <2>1 DEF Flattening
    <3> HIDE DEF h
    <3>2. [end |-> e] \in [end : Nat]
      OBVIOUS
    <3>3. [end |-> e] # None
      BY <3>2, WidthAssumption
    <3> QED
      BY <2>1, <3>1, <3>3
  <2>2. CASE i # 0
    <3>1. h[i] = [value |-> items[i].value, script |-> items[i].script, end |-> e + Len(F[i])]
      BY <2>2
    <3>2. i \in 1 .. n
      BY <2>2
    <3>3. items[i].value \in Nat /\ items[i].script \in Seq(Byte)
      BY <3>2 DEF TxOutput
    <3> HIDE DEF h
    <3>4. h[i] \in OutputRead
      BY <1>2, <3>1, <3>3 DEF OutputRead
    <3> QED
      BY <3>1, <3>4, WidthAssumption
  <2> QED
    BY <2>1, <2>2
<1>4. ASSUME NEW i \in 1 .. n
      PROVE  h[i] = G(h[i-1])
  <2>1. i - 1 \in 0 .. n
    OBVIOUS
  <2>2. h[i-1] # None /\ h[i-1].end = e + Len(F[i-1])
    BY <1>3, <2>1
  <2>3. At(data, e + Len(F[i-1]), ss[i]) /\ Len(F[i]) = Len(F[i-1]) + Len(ss[i])
    <3> HIDE DEF h, G
    <3>1. At(data, e + Len(F[i-1]), ss[i])
      BY AtItems
    <3>2. F[i] = F[i-1] \o ss[i] /\ F[i-1] \in Bytes /\ ss[i] \in Bytes
      BY <2>1 DEF Flattening
    <3> QED
      BY <3>1, <3>2, BytesConcat
  <2>4. ReadOutput(data, e + Len(F[i-1])) =
          [value |-> items[i].value, script |-> items[i].script, end |-> (e + Len(F[i-1])) + Len(OutputBytes(items[i]))]
    <3> HIDE DEF h, G
    <3> DEFINE p == e + Len(F[i-1])
               x == items[i]
    <3>1. p \in Nat
      BY <1>2, <2>1
    <3>2. x \in TxOutput /\ Sized(x.script)
      OBVIOUS
    <3>3. At(data, p, OutputBytes(x))
      BY <2>3
    <3> HIDE DEF p, x
    <3>4. ReadOutput(data, p) = [value |-> x.value, script |-> x.script, end |-> p + Len(OutputBytes(x))]
      BY <3>1, <3>2, <3>3, ReadOutputIs
    <3> QED
      BY <3>4 DEF p, x
  <2>5. (e + Len(F[i-1])) + Len(OutputBytes(items[i])) = e + Len(F[i])
    <3>1. Len(ss[i]) \in Nat /\ Len(F[i-1]) \in Nat /\ Len(F[i]) \in Nat
      BY <1>2, <2>1, BytesConcat
    <3>2. ss[i] = OutputBytes(items[i])
      OBVIOUS
    <3> HIDE DEF h
    <3> QED
      BY <2>3, <3>1, <3>2
  <2>6. h[i] = [value |-> items[i].value, script |-> items[i].script, end |-> e + Len(F[i])]
    OBVIOUS
  <2> HIDE DEF h
  <2> QED
    BY <2>2, <2>4, <2>5, <2>6
<1>5. h[0] = [end |-> e] /\ h = [i \in 0 .. n |-> h[i]]
  OBVIOUS
<1>6. \A i \in 1 .. n : h[i] = [value |-> items[i].value, script |-> items[i].script, end |-> e + Len(F[i])]
  OBVIOUS
<1> HIDE DEF h, G
<1>7. Rec(h)
  <2>1. ASSUME NEW i \in 0 .. n PROVE h[i] = IF i = 0 THEN [end |-> e] ELSE G(h[i-1])
    <3>1. i # 0 => i \in 1 .. n
      OBVIOUS
    <3> QED
      BY <1>4, <1>5, <3>1
  <2> QED
    BY <1>5, <2>1
<1>8. Rec(item)
  <2> HIDE DEF Rec
  <2> QED
    BY <1>7
<1> HIDE DEF item
<1>9. item[0] = [end |-> e] /\ \A i \in 1 .. n : item[i] = G(item[i-1])
  BY <1>8
<1> DEFINE S == {i \in 0 .. n : item[i] = h[i]}
<1>10. 0 \in S
  BY <1>5, <1>9
<1>11. ASSUME NEW i \in 1 .. n, i-1 \in S PROVE i \in S
  BY <1>4, <1>9, <1>11
<1> HIDE DEF S
<1>12. \A i \in 0 .. n : i \in S
  BY <1>10, <1>11, UpTo
<1>13. \A i \in 0 .. n : item[i] = h[i]
  BY <1>12 DEF S
<1>14. n \in 0 .. n /\ \A i \in 1 .. n : i \in 0 .. n
  OBVIOUS
<1>15. \A i \in 1 .. n : item[i].value = items[i].value /\ item[i].script = items[i].script
  <2> TAKE i \in 1 .. n
  <2>1. item[i] = [value |-> items[i].value, script |-> items[i].script, end |-> e + Len(F[i])]
    BY <1>6, <1>13, <1>14
  <2> QED
    BY <2>1
<1>16. item[n] # None /\ item[n].end = e + Len(F[n])
  BY <1>3, <1>13, <1>14
<1> QED
  BY <1>1, <1>15, <1>16


-----------------------------------------------------------------------------
(***************************************************************************)
(* Whole transactions.                                                     *)
(***************************************************************************)

LEMMA InputBytesType ==
  ASSUME NEW input \in TxInput
  PROVE  InputBytes(input) \in Bytes
<1> DEFINE a == [i \in 1 .. HASH |-> input.prev]
           b == LeBytes(0, WORD)
           c == VarInt(Len(input.script))
           d == input.script
           e == LeBytes(input.sequence, WORD)
<1>1. input.prev \in Byte /\ input.sequence \in Nat /\ d \in Bytes /\ Len(d) \in Nat
  BY DEF TxInput, Bytes
<1>2. a \in Bytes
  BY <1>1, Sizes DEF Bytes
<1>3. b \in Bytes /\ e \in Bytes
  BY <1>1, Sizes, LeBytesType
<1>4. c \in Bytes
  BY <1>1, VarIntType
<1>5. InputBytes(input) = (((a \o b) \o c) \o d) \o e
  BY DEF InputBytes
<1> HIDE DEF a, b, c, d, e
<1> QED
  BY <1>1, <1>2, <1>3, <1>4, <1>5, BytesConcat

LEMMA OutputBytesType ==
  ASSUME NEW output \in TxOutput
  PROVE  OutputBytes(output) \in Bytes
<1> DEFINE b == LeBytes(output.value, LONG)
           c == VarInt(Len(output.script))
           d == output.script
<1>1. output.value \in Nat /\ d \in Bytes /\ Len(d) \in Nat
  BY DEF TxOutput, Bytes
<1>2. b \in Bytes
  BY <1>1, Sizes, LeBytesType
<1>3. c \in Bytes
  BY <1>1, VarIntType
<1>4. OutputBytes(output) = (b \o c) \o d
  BY DEF OutputBytes
<1> HIDE DEF b, c, d
<1> QED
  BY <1>1, <1>2, <1>3, <1>4, BytesConcat

LEMMA TransactionHas ==
  ASSUME NEW tx, IsTransaction(tx)
  PROVE  /\ tx.version \in Nat
         /\ tx.locktime \in Nat /\ tx.locktime < Power[WORD]
         /\ Len(tx.inputs) \in Nat \ {0} /\ Len(tx.inputs) < Power[LONG]
         /\ tx.inputs \in [1 .. Len(tx.inputs) -> TxInput]
         /\ DOMAIN tx.inputs = 1 .. Len(tx.inputs)
         /\ \A i \in 1 .. Len(tx.inputs) : Sized(tx.inputs[i].script)
         /\ Len(tx.outputs) \in Nat /\ Len(tx.outputs) < Power[LONG]
         /\ tx.outputs \in [1 .. Len(tx.outputs) -> TxOutput]
         /\ DOMAIN tx.outputs = 1 .. Len(tx.outputs)
         /\ \A i \in 1 .. Len(tx.outputs) : Sized(tx.outputs[i].script)
<1>1. /\ tx.version \in 0 .. Power[WORD] - 1 /\ tx.locktime \in 0 .. Power[WORD] - 1
      /\ tx.inputs \in Seq(TxInput) /\ tx.inputs # <<>> /\ tx.outputs \in Seq(TxOutput)
      /\ Len(tx.inputs) < Power[LONG] /\ Len(tx.outputs) < Power[LONG]
      /\ \A i \in DOMAIN tx.inputs : Len(tx.inputs[i].script) < Power[LONG]
      /\ \A i \in DOMAIN tx.outputs : Len(tx.outputs[i].script) < Power[LONG]
  BY DEF IsTransaction
<1>2. Power[WORD] \in Nat
  BY Sizes, PowerFacts
<1>3. tx.version \in Nat /\ tx.locktime \in Nat /\ tx.locktime < Power[WORD]
  BY <1>1, <1>2
<1>4. /\ Len(tx.inputs) \in Nat \ {0} /\ tx.inputs \in [1 .. Len(tx.inputs) -> TxInput]
      /\ DOMAIN tx.inputs = 1 .. Len(tx.inputs)
  BY <1>1, EmptySeq, LenProperties
<1>5. /\ Len(tx.outputs) \in Nat /\ tx.outputs \in [1 .. Len(tx.outputs) -> TxOutput]
      /\ DOMAIN tx.outputs = 1 .. Len(tx.outputs)
  BY <1>1, LenProperties
<1>6. ASSUME NEW i \in 1 .. Len(tx.inputs) PROVE Sized(tx.inputs[i].script)
  <2>1. tx.inputs[i] \in TxInput
    BY <1>4
  <2>2. tx.inputs[i].script \in Bytes
    BY <2>1 DEF TxInput, Bytes
  <2> QED
    BY <1>1, <1>4, <2>2 DEF Sized
<1>7. ASSUME NEW i \in 1 .. Len(tx.outputs) PROVE Sized(tx.outputs[i].script)
  <2>1. tx.outputs[i] \in TxOutput
    BY <1>5
  <2>2. tx.outputs[i].script \in Bytes
    BY <2>1 DEF TxOutput, Bytes
  <2> QED
    BY <1>1, <1>5, <2>2 DEF Sized
<1> QED
  BY <1>1, <1>3, <1>4, <1>5, <1>6, <1>7

\* The inputs si and the outputs so of a transaction, byte by byte.
Layout(tx, si, FI, so, FO) ==
  /\ si \in [1 .. Len(tx.inputs) -> Bytes]
  /\ \A i \in 1 .. Len(tx.inputs) : si[i] = InputBytes(tx.inputs[i])
  /\ Flattening(FI, si, Len(tx.inputs))
  /\ so \in [1 .. Len(tx.outputs) -> Bytes]
  /\ \A i \in 1 .. Len(tx.outputs) : so[i] = OutputBytes(tx.outputs[i])
  /\ Flattening(FO, so, Len(tx.outputs))
  /\ Body(tx) = ((VarInt(Len(tx.inputs)) \o FI[Len(tx.inputs)]) \o VarInt(Len(tx.outputs)))
                \o FO[Len(tx.outputs)]

LEMMA LayoutExists ==
  ASSUME NEW tx, IsTransaction(tx)
  PROVE  \E si, FI, so, FO : Layout(tx, si, FI, so, FO)
<1> DEFINE n == Len(tx.inputs)
           m == Len(tx.outputs)
           si == [i \in DOMAIN tx.inputs |-> InputBytes(tx.inputs[i])]
           so == [i \in DOMAIN tx.outputs |-> OutputBytes(tx.outputs[i])]
<1>1. /\ n \in Nat /\ DOMAIN tx.inputs = 1 .. n /\ \A i \in 1 .. n : tx.inputs[i] \in TxInput
      /\ m \in Nat /\ DOMAIN tx.outputs = 1 .. m /\ \A i \in 1 .. m : tx.outputs[i] \in TxOutput
  BY TransactionHas
<1>2. si \in [1 .. n -> Bytes] /\ \A i \in 1 .. n : si[i] = InputBytes(tx.inputs[i])
  BY <1>1, InputBytesType
<1>3. so \in [1 .. m -> Bytes] /\ \A i \in 1 .. m : so[i] = OutputBytes(tx.outputs[i])
  BY <1>1, OutputBytesType
<1>4. Body(tx) = ((VarInt(n) \o FlattenSeq(si)) \o VarInt(m)) \o FlattenSeq(so)
  BY DEF Body
<1> HIDE DEF si, so
<1>5. PICK FI : Flattening(FI, si, n) /\ FlattenSeq(si) = FI[n]
  <2> HIDE DEF n
  <2> QED
    BY <1>1, <1>2, FlattenIs
<1>6. PICK FO : Flattening(FO, so, m) /\ FlattenSeq(so) = FO[m]
  <2> HIDE DEF m
  <2> QED
    BY <1>1, <1>3, FlattenIs
<1>7. Layout(tx, si, FI, so, FO)
  BY <1>2, <1>3, <1>4, <1>5, <1>6 DEF Layout
<1> QED
  BY <1>7

\* The parts of a serialization.
Parts(tx, si, FI, so, FO, V, VI, XI, VO, XO, LT) ==
  /\ Layout(tx, si, FI, so, FO)
  /\ V = LeBytes(tx.version, WORD) /\ LT = LeBytes(tx.locktime, WORD)
  /\ VI = VarInt(Len(tx.inputs)) /\ XI = FI[Len(tx.inputs)]
  /\ VO = VarInt(Len(tx.outputs)) /\ XO = FO[Len(tx.outputs)]

LEMMA PartsHave ==
  ASSUME NEW tx, IsTransaction(tx), NEW si, NEW FI, NEW so, NEW FO,
         NEW V, NEW VI, NEW XI, NEW VO, NEW XO, NEW LT,
         Parts(tx, si, FI, so, FO, V, VI, XI, VO, XO, LT)
  PROVE  /\ V \in Bytes /\ VI \in Bytes /\ XI \in Bytes /\ VO \in Bytes /\ XO \in Bytes /\ LT \in Bytes
         /\ Len(V) = WORD /\ Len(LT) = WORD
         /\ Body(tx) = ((VI \o XI) \o VO) \o XO
         /\ Body(tx) \in Bytes
         /\ Serialize(tx) = (V \o Body(tx)) \o LT
<1>1. V \in Bytes /\ Len(V) = WORD /\ LT \in Bytes /\ Len(LT) = WORD
  BY TransactionHas, LeBytesType, Sizes DEF Parts
<1>2. VI \in Bytes /\ VO \in Bytes
  <2>1. Len(tx.inputs) \in Nat /\ Len(tx.outputs) \in Nat
    BY TransactionHas
  <2> QED
    BY <2>1, VarIntType DEF Parts
<1>3. XI \in Bytes /\ XO \in Bytes
  <2>1. Len(tx.inputs) \in Nat /\ Len(tx.outputs) \in Nat
    BY TransactionHas
  <2>2. Len(tx.inputs) \in 0 .. Len(tx.inputs) /\ Len(tx.outputs) \in 0 .. Len(tx.outputs)
    BY <2>1
  <2> QED
    BY <2>2 DEF Parts, Layout, Flattening
<1>4. Body(tx) = ((VI \o XI) \o VO) \o XO
  BY DEF Parts, Layout
<1>5. Body(tx) \in Bytes
  BY <1>2, <1>3, <1>4, BytesConcat
<1>6. Serialize(tx) = (V \o Body(tx)) \o LT
  BY DEF Serialize, Parts
<1> QED
  BY <1>1, <1>2, <1>3, <1>4, <1>5, <1>6

LEMMA SerializeType ==
  ASSUME NEW tx, IsTransaction(tx)
  PROVE  Serialize(tx) \in Bytes /\ Len(Serialize(tx)) > 2
<1>1. PICK si, FI, so, FO : Layout(tx, si, FI, so, FO)
  BY LayoutExists
<1>2. PICK V, VI, XI, VO, XO, LT : Parts(tx, si, FI, so, FO, V, VI, XI, VO, XO, LT)
  BY <1>1 DEF Parts
<1>3. V \in Bytes /\ LT \in Bytes /\ Len(V) = WORD /\ Len(LT) = WORD
      /\ Body(tx) \in Bytes /\ Serialize(tx) = (V \o Body(tx)) \o LT
  BY <1>2, PartsHave
<1> DEFINE B == Body(tx)
<1> HIDE DEF B
<1>4. B \in Bytes /\ Serialize(tx) = (V \o B) \o LT
  BY <1>3 DEF B
<1>5. V \o B \in Bytes /\ Len(V \o B) = WORD + Len(B) /\ Len(B) \in Nat
  BY <1>3, <1>4, BytesConcat
<1> DEFINE C == V \o B
<1>6. C \in Bytes /\ Len(C) = WORD + Len(B)
  BY <1>5
<1> HIDE DEF C
<1>7. C \o LT \in Bytes /\ Len(C \o LT) = Len(C) + WORD
  BY <1>3, <1>6, BytesConcat
<1>8. Len(C) + WORD > 2
  BY <1>5, <1>6, Sizes
<1> QED
  BY <1>4, <1>7, <1>8 DEF C

\* The parts of the bytes, one after the other, and where they begin.
Split(data, V, VI, XI, VO, XO, LT) ==
  /\ data \in Bytes /\ V \in Bytes /\ VI \in Bytes /\ XI \in Bytes
  /\ VO \in Bytes /\ XO \in Bytes /\ LT \in Bytes
  /\ data = (V \o (((VI \o XI) \o VO) \o XO)) \o LT

Offsets(V, VI, XI, VO, XO, i0, i1, i2, i3, i4) ==
  /\ i0 \in Nat /\ i1 \in Nat /\ i2 \in Nat /\ i3 \in Nat /\ i4 \in Nat
  /\ i0 = Len(V) /\ i1 = i0 + Len(VI) /\ i2 = i1 + Len(XI)
  /\ i3 = i2 + Len(VO) /\ i4 = i3 + Len(XO)

\* Where the parts are.
LEMMA PartsAt ==
  ASSUME NEW data, NEW V, NEW VI, NEW XI, NEW VO, NEW XO, NEW LT,
         Split(data, V, VI, XI, VO, XO, LT),
         NEW i0, NEW i1, NEW i2, NEW i3, NEW i4,
         Offsets(V, VI, XI, VO, XO, i0, i1, i2, i3, i4)
  PROVE  /\ At(data, i0, VI) /\ At(data, i1, XI) /\ At(data, i2, VO) /\ At(data, i3, XO)
         /\ At(data, i4, LT)
<1>0. /\ data \in Bytes /\ V \in Bytes /\ VI \in Bytes /\ XI \in Bytes
      /\ VO \in Bytes /\ XO \in Bytes /\ LT \in Bytes
      /\ data = (V \o (((VI \o XI) \o VO) \o XO)) \o LT
      /\ i0 = Len(V) /\ i1 = i0 + Len(VI) /\ i2 = i1 + Len(XI)
      /\ i3 = i2 + Len(VO) /\ i4 = i3 + Len(XO)
  BY DEF Split, Offsets
<1> USE <1>0
<1>1. i0 \in Nat /\ i1 \in Nat /\ i2 \in Nat /\ i3 \in Nat /\ i4 \in Nat
  BY DEF Offsets
<1> DEFINE A == VI \o XI
           B == A \o VO
           C == B \o XO
           D == V \o C
           a == Len(A)
           b == Len(B)
<1>2. A \in Bytes /\ Len(A) = Len(VI) + Len(XI)
  BY BytesConcat
<1> HIDE DEF A
<1>3. B \in Bytes /\ Len(B) = Len(A) + Len(VO)
  BY <1>2, BytesConcat
<1> HIDE DEF B
<1>4. C \in Bytes /\ Len(C) = Len(B) + Len(XO)
  BY <1>3, BytesConcat
<1> HIDE DEF C
<1>5. D \in Bytes /\ Len(D) = i0 + Len(C)
  BY <1>4, BytesConcat
<1> HIDE DEF D
<1>6. At(data, 0, D \o LT)
  BY AtStart DEF A, B, C, D
<1>7. \A s \in Bytes : Len(s) \in Nat
  BY DEF Bytes
<1>8. At(data, 0, D) /\ At(data, 0 + Len(D), LT)
  BY <1>5, <1>6, AtConcat
<1>9. 0 + Len(D) = i4
  <2>1. Len(VI) \in Nat /\ Len(XI) \in Nat /\ Len(VO) \in Nat /\ Len(XO) \in Nat
    BY <1>7
  <2> QED
    BY <1>1, <1>2, <1>3, <1>4, <1>5, <2>1
<1>10. At(data, i0, C)
  <2>1. At(data, 0, V \o C)
    BY <1>8 DEF D
  <2>2. At(data, 0 + Len(V), C)
    BY <1>4, <2>1, AtConcat
  <2>3. 0 + Len(V) = i0
    BY <1>1
  <2> QED
    BY <2>2, <2>3
<1>11. At(data, i0, B) /\ At(data, i0 + Len(B), XO)
  <2>1. At(data, i0, B \o XO)
    BY <1>10 DEF C
  <2> QED
    BY <1>1, <1>3, <2>1, AtConcat
<1>12. i0 + Len(B) = i3
  <2>1. Len(VI) \in Nat /\ Len(XI) \in Nat /\ Len(VO) \in Nat
    BY <1>7
  <2> QED
    BY <1>1, <1>2, <1>3, <2>1
<1>13. At(data, i0, A) /\ At(data, i0 + Len(A), VO)
  <2>1. At(data, i0, A \o VO)
    BY <1>11 DEF B
  <2> QED
    BY <1>1, <1>2, <2>1, AtConcat
<1>14. i0 + Len(A) = i2
  <2>1. Len(VI) \in Nat /\ Len(XI) \in Nat
    BY <1>7
  <2> QED
    BY <1>1, <1>2, <2>1
<1>15. At(data, i0, VI) /\ At(data, i0 + Len(VI), XI)
  <2>1. At(data, i0, VI \o XI)
    BY <1>13 DEF A
  <2> QED
    BY <1>1, <2>1, AtConcat
<1> QED
  BY <1>1, <1>8, <1>9, <1>11, <1>12, <1>13, <1>14, <1>15

LEMMA AllAreOne ==
  ASSUME NEW n \in Nat \ {0}, NEW f, f \in [1 .. n -> Nat]
  PROVE  Cardinality({f[i] : i \in 1 .. n}) = 1 <=> \A i \in 1 .. n : f[i] = f[1]
<1> DEFINE R == {f[i] : i \in 1 .. n}
<1>1. f \in Surjection(1 .. n, R)
  BY DEF Surjection
<1>2. 1 \in 1 .. n /\ f[1] \in R /\ \A i \in 1 .. n : f[i] \in R
  OBVIOUS
<1>3. \A r \in R : \E i \in 1 .. n : r = f[i]
  OBVIOUS
<1>4. IsFiniteSet(1 .. n)
  BY FS_Interval
<1> HIDE DEF R
<1>5. IsFiniteSet(R)
  BY <1>1, <1>4, FS_Surjection
<1>6. Cardinality(R) = 1 <=> \E x : R = {x}
  BY <1>5, FS_Singleton
<1>7. (\E x : R = {x}) => \A i \in 1 .. n : f[i] = f[1]
  BY <1>2
<1>8. ASSUME \A i \in 1 .. n : f[i] = f[1] PROVE R = {f[1]}
  BY <1>2, <1>3, <1>8
<1>9. Cardinality(R) = 1 <=> \A i \in 1 .. n : f[i] = f[1]
  BY <1>6, <1>7, <1>8
<1> QED
  BY <1>9 DEF R

\* The loop over the inputs finds out whether they agree.
LEMMA HasNonceIs ==
  ASSUME NEW tx, IsTransaction(tx), NEW inputs,
         \A i \in 1 .. Len(tx.inputs) : inputs[i].sequence = tx.inputs[i].sequence
  PROVE  LET sequences == {input.sequence : input \in ToSet(tx.inputs)}
         IN  HasNonce(inputs, Len(tx.inputs)) <=>
               /\ Cardinality({s % Power[WORD-1] : s \in sequences}) = 1
               /\ \A s \in sequences : s >= SEQUENCE_FINAL
<1> DEFINE n == Len(tx.inputs)
           sequences == {input.sequence : input \in ToSet(tx.inputs)}
           f == [i \in 1 .. n |-> tx.inputs[i].sequence % Power[WORD-1]]
           Low == {s % Power[WORD-1] : s \in sequences}
<1>1. n \in Nat \ {0} /\ DOMAIN tx.inputs = 1 .. n /\ \A i \in 1 .. n : tx.inputs[i] \in TxInput
  BY TransactionHas
<1>2. \A i \in 1 .. n : tx.inputs[i].sequence \in Nat
  BY <1>1 DEF TxInput
<1>3. sequences = {tx.inputs[i].sequence : i \in 1 .. n}
  BY <1>1 DEF ToSet
<1>4. Power[WORD-1] \in Nat \ {0}
  <2>1. WORD - 1 \in Nat
    BY Sizes
  <2> QED
    BY <2>1, PowerFacts
<1>5. f \in [1 .. n -> Nat]
  <2> DEFINE p == Power[WORD-1]
  <2> HIDE DEF p
  <2>1. \A s \in Nat : s % p \in Nat
    BY <1>4, DivMod DEF p
  <2>2. \A i \in 1 .. n : tx.inputs[i].sequence % p \in Nat
    BY <1>2, <2>1
  <2> QED
    BY <2>2 DEF p
<1>6. \A i \in 1 .. n : f[i] = tx.inputs[i].sequence % Power[WORD-1]
  OBVIOUS
<1> HIDE DEF f, n
<1>7. Low = {f[i] : i \in 1 .. n}
  <2>1. ASSUME NEW x \in Low PROVE \E i \in 1 .. n : x = f[i]
    <3>1. PICK s \in sequences : x = s % Power[WORD-1]
      OBVIOUS
    <3>2. PICK i \in 1 .. n : s = tx.inputs[i].sequence
      BY <1>3, <3>1
    <3> QED
      BY <1>6, <3>1, <3>2
  <2>2. ASSUME NEW i \in 1 .. n PROVE f[i] \in Low
    <3>1. tx.inputs[i].sequence \in sequences
      BY <1>3
    <3> HIDE DEF sequences
    <3> QED
      BY <1>6, <3>1
  <2> HIDE DEF Low
  <2> QED
    BY <2>1, <2>2
<1>8. (\A s \in sequences : s >= SEQUENCE_FINAL) <=>
        \A i \in 1 .. n : tx.inputs[i].sequence >= SEQUENCE_FINAL
  BY <1>3
<1>9. Cardinality(Low) = 1 <=> \A i \in 1 .. n : f[i] = f[1]
  BY <1>1, <1>5, <1>7, AllAreOne
<1>10. ASSUME NEW i \in 1 .. n
       PROVE  /\ inputs[i].sequence = tx.inputs[i].sequence
              /\ NSequence(inputs[i].sequence) = f[i]
  BY <1>6 DEF NSequence, n
<1>11. 1 \in 1 .. n
  BY <1>1
<1>12. HasNonce(inputs, n) <=>
         \A i \in 1 .. n : f[i] = f[1] /\ tx.inputs[i].sequence >= SEQUENCE_FINAL
  BY <1>10, <1>11 DEF HasNonce
<1> HIDE DEF Low, sequences
<1>13. HasNonce(inputs, n) <=>
         Cardinality(Low) = 1 /\ \A s \in sequences : s >= SEQUENCE_FINAL
  BY <1>8, <1>9, <1>12
<1> QED
  BY <1>13 DEF n, Low, sequences

\* The parser on the serialization of a transaction.
LEMMA ParserReads ==
  ASSUME NEW tx, IsTransaction(tx), NEW vout \in Nat, NEW verify_nonce \in BOOLEAN
  PROVE  VerifyTransaction(Serialize(tx), vout, verify_nonce) = Known(tx, vout, verify_nonce)
<1> DEFINE data == Serialize(tx)
           n == Len(tx.inputs)
           m == Len(tx.outputs)
<1>1. PICK si, FI, so, FO : Layout(tx, si, FI, so, FO)
  BY LayoutExists
<1>2. PICK V, VI, XI, VO, XO, LT : Parts(tx, si, FI, so, FO, V, VI, XI, VO, XO, LT)
  BY <1>1 DEF Parts
<1> DEFINE i0 == WORD
           i1 == i0 + Len(VI)
           i2 == i1 + Len(XI)
           i3 == i2 + Len(VO)
           i4 == i3 + Len(XO)
<1>3. /\ V \in Bytes /\ VI \in Bytes /\ XI \in Bytes /\ VO \in Bytes /\ XO \in Bytes /\ LT \in Bytes
      /\ Len(V) = WORD /\ Len(LT) = WORD
      /\ data = (V \o (((VI \o XI) \o VO) \o XO)) \o LT
  <2>1. Body(tx) = ((VI \o XI) \o VO) \o XO /\ data = (V \o Body(tx)) \o LT
    BY <1>2, PartsHave
  <2>2. /\ V \in Bytes /\ VI \in Bytes /\ XI \in Bytes /\ VO \in Bytes /\ XO \in Bytes /\ LT \in Bytes
        /\ Len(V) = WORD /\ Len(LT) = WORD
    BY <1>2, PartsHave
  <2> HIDE DEF data
  <2> QED
    BY <2>1, <2>2
<1>4. data \in Bytes /\ Len(data) \in Nat
  BY SerializeType DEF Bytes
<1>5. /\ n \in Nat \ {0} /\ n < Power[LONG] /\ tx.inputs \in [1 .. n -> TxInput]
      /\ \A i \in 1 .. n : Sized(tx.inputs[i].script)
      /\ m \in Nat /\ m < Power[LONG] /\ tx.outputs \in [1 .. m -> TxOutput]
      /\ \A i \in 1 .. m : Sized(tx.outputs[i].script)
      /\ tx.locktime \in Nat /\ tx.locktime < Power[WORD]
  BY TransactionHas
<1>6. /\ si \in [1 .. n -> Bytes] /\ \A i \in 1 .. n : si[i] = InputBytes(tx.inputs[i])
      /\ Flattening(FI, si, n) /\ XI = FI[n] /\ VI = VarInt(n)
      /\ so \in [1 .. m -> Bytes] /\ \A i \in 1 .. m : so[i] = OutputBytes(tx.outputs[i])
      /\ Flattening(FO, so, m) /\ XO = FO[m] /\ VO = VarInt(m)
      /\ LT = LeBytes(tx.locktime, WORD)
  BY <1>2 DEF Parts, Layout
<1> DEFINE input_size  == ReadVarInt(data, WORD)
           inputs      == ReadAll(data, input_size, ReadInput)
           last_input  == inputs[input_size.value]
           output_size == ReadVarInt(data, last_input.end)
           outputs     == ReadAll(data, output_size, ReadOutput)
           last_output == outputs[output_size.value]
<1>7. VerifyTransaction(data, vout, verify_nonce) =
        IF IsNodeSized(Len(data)) \/ input_size = None THEN None
        ELSE IF IsSegwit(data, input_size) \/ last_input = None THEN None
        ELSE IF verify_nonce /\ ~ HasNonce(inputs, input_size.value) THEN None
        ELSE IF output_size = None THEN None
        ELSE IF last_output = None THEN None
        ELSE IF last_output.end + WORD > Len(data) THEN None
        ELSE [out |-> IF vout >= output_size.value THEN None
                      ELSE [value |-> outputs[vout + 1].value, script |-> outputs[vout + 1].script],
              locktime   |-> FromLeBytes(data, last_output.end, WORD),
              n_sequence |-> IF input_size.value = 0 THEN 0 ELSE NSequence(inputs[1].sequence)]
  BY DEF VerifyTransaction
<1>8. Known(tx, vout, verify_nonce) =
        LET sequences == {input.sequence : input \in ToSet(tx.inputs)}
            agree == Cardinality({s % Power[WORD-1] : s \in sequences}) = 1
        IN  IF Len(data) = 2 * HASH \/
               (verify_nonce /\ ~ (agree /\ \A s \in sequences : s >= SEQUENCE_FINAL)) THEN None
            ELSE [out |-> IF vout < m THEN tx.outputs[vout + 1] ELSE None,
                  locktime |-> tx.locktime,
                  n_sequence |-> tx.inputs[1].sequence % Power[WORD-1]]
  BY DEF Known
<1> HIDE DEF data, n, m
<1>9. /\ i0 \in Nat /\ i1 \in Nat /\ i2 \in Nat /\ i3 \in Nat /\ i4 \in Nat
      /\ At(data, i0, VI) /\ At(data, i1, XI) /\ At(data, i2, VO) /\ At(data, i3, XO)
      /\ At(data, i4, LT)
  <2>1. i0 = Len(V) /\ i1 = i0 + Len(VI) /\ i2 = i1 + Len(XI) /\ i3 = i2 + Len(VO) /\ i4 = i3 + Len(XO)
    BY <1>3
  <2>2. i0 \in Nat /\ i1 \in Nat /\ i2 \in Nat /\ i3 \in Nat /\ i4 \in Nat
    BY <1>3, <2>1 DEF Bytes
  <2> HIDE DEF i0, i1, i2, i3, i4, input_size, inputs, last_input, output_size, outputs, last_output
  <2>3. /\ At(data, i0, VI) /\ At(data, i1, XI) /\ At(data, i2, VO) /\ At(data, i3, XO)
        /\ At(data, i4, LT)
    <3>1. Split(data, V, VI, XI, VO, XO, LT)
      BY <1>3, <1>4 DEF Split
    <3>2. Offsets(V, VI, XI, VO, XO, i0, i1, i2, i3, i4)
      BY <2>1, <2>2 DEF Offsets
    <3> QED
      BY <3>1, <3>2, PartsAt
  <2> QED
    BY <2>2, <2>3
<1>10. WORD = i0
  OBVIOUS
<1> HIDE DEF i0, i1, i2, i3, i4
<1>11. input_size = [value |-> n, end |-> i1] /\ input_size # None
  BY <1>4, <1>5, <1>6, <1>9, <1>10, ReadVarIntIs DEF i1
<1> HIDE DEF input_size
<1>12. /\ \A i \in 1 .. n : inputs[i].sequence = tx.inputs[i].sequence
       /\ last_input # None /\ last_input.end = i2
  <2>1. inputs = ReadAll(data, [value |-> n, end |-> i1], ReadInput)
    BY <1>11
  <2>2. At(data, i1, FI[n])
    BY <1>6, <1>9
  <2> DEFINE item == ReadAll(data, [value |-> n, end |-> i1], ReadInput)
             items == tx.inputs
  <2>4. i2 = i1 + Len(FI[n])
    BY <1>6 DEF i2
  <2>3. /\ \A i \in 1 .. n : item[i].sequence = items[i].sequence
        /\ item[n] # None /\ item[n].end = i1 + Len(FI[n])
    <3>1. /\ items \in [1 .. n -> TxInput] /\ \A i \in 1 .. n : Sized(items[i].script)
          /\ n \in Nat /\ i1 \in Nat /\ \A i \in 1 .. n : si[i] = InputBytes(items[i])
          /\ si \in [1 .. n -> Bytes] /\ Flattening(FI, si, n) /\ data \in Bytes
      BY <1>4, <1>5, <1>6, <1>9
    <3> HIDE DEF items
    <3>2. InputsAt(data, i1, n, items, si, FI)
      BY <2>2, <3>1 DEF InputsAt
    <3> HIDE DEF data, inputs, last_input, outputs, last_output
    <3> QED
      BY <3>2, ReadInputs
  <2> HIDE DEF item
  <2>5. inputs = item /\ input_size.value = n
    BY <1>11, <2>1 DEF item
  <2> HIDE DEF inputs
  <2> QED
    BY <2>3, <2>4, <2>5
<1> HIDE DEF inputs
<1>13. output_size = [value |-> m, end |-> i3] /\ output_size # None
  <2>1. ReadVarInt(data, i2) = [value |-> m, end |-> i3] /\ ReadVarInt(data, i2) # None
    BY <1>4, <1>5, <1>6, <1>9, ReadVarIntIs DEF i3
  <2> QED
    BY <1>12, <2>1
<1> HIDE DEF output_size
<1>14. /\ \A i \in 1 .. m : /\ outputs[i].value = tx.outputs[i].value
                             /\ outputs[i].script = tx.outputs[i].script
       /\ last_output # None /\ last_output.end = i4
  <2>1. outputs = ReadAll(data, [value |-> m, end |-> i3], ReadOutput)
    BY <1>13
  <2>2. At(data, i3, FO[m])
    BY <1>6, <1>9
  <2> DEFINE item == ReadAll(data, [value |-> m, end |-> i3], ReadOutput)
             items == tx.outputs
  <2>4. i4 = i3 + Len(FO[m])
    BY <1>6 DEF i4
  <2>3. /\ \A i \in 1 .. m : item[i].value = items[i].value /\ item[i].script = items[i].script
        /\ item[m] # None /\ item[m].end = i3 + Len(FO[m])
    <3>1. /\ items \in [1 .. m -> TxOutput] /\ \A i \in 1 .. m : Sized(items[i].script)
          /\ m \in Nat /\ i3 \in Nat /\ \A i \in 1 .. m : so[i] = OutputBytes(items[i])
          /\ so \in [1 .. m -> Bytes] /\ Flattening(FO, so, m) /\ data \in Bytes
      BY <1>4, <1>5, <1>6, <1>9
    <3> HIDE DEF items
    <3>2. OutputsAt(data, i3, m, items, so, FO)
      BY <2>2, <3>1 DEF OutputsAt
    <3> HIDE DEF data, inputs, last_input, outputs, last_output
    <3> QED
      BY <3>2, ReadOutputs
  <2> HIDE DEF item
  <2>5. outputs = item /\ output_size.value = m
    BY <1>13, <2>1 DEF item
  <2> HIDE DEF outputs
  <2> QED
    BY <2>3, <2>4, <2>5
<1> HIDE DEF outputs
<1>15. input_size.value = n /\ output_size.value = m
  BY <1>11, <1>13
<1>16. ~ IsSegwit(data, input_size)
  BY <1>5, <1>15 DEF IsSegwit
<1>17. FromLeBytes(data, i4, WORD) = tx.locktime
  BY <1>4, <1>5, <1>6, <1>9, Sizes, FromLeBytesIs
<1>18. ~ (i4 + WORD > Len(data))
  <2>1. i4 + WORD <= Len(data)
    BY <1>3, <1>9 DEF At
  <2> QED
    BY <1>4, <1>9, <2>1, Sizes
<1> DEFINE N == HasNonce(inputs, n)
           out == IF vout < m THEN tx.outputs[vout + 1] ELSE None
           s1 == tx.inputs[1].sequence % Power[WORD-1]
<1>19. NSequence(inputs[1].sequence) = s1
  <2>1. 1 \in 1 .. n
    BY <1>5
  <2> QED
    BY <1>12, <2>1 DEF NSequence
<1>20. (IF vout >= m THEN None
        ELSE [value |-> outputs[vout + 1].value, script |-> outputs[vout + 1].script]) = out
  <2>1. CASE vout >= m
    BY <1>5, <2>1
  <2>2. CASE ~ (vout >= m)
    <3>1. vout + 1 \in 1 .. m /\ vout < m
      BY <1>5, <2>2
    <3>2. tx.outputs[vout + 1] \in TxOutput
      BY <1>5, <3>1
    <3>3. tx.outputs[vout + 1] =
            [value |-> tx.outputs[vout + 1].value, script |-> tx.outputs[vout + 1].script]
      BY <3>2 DEF TxOutput
    <3>4. /\ outputs[vout + 1].value = tx.outputs[vout + 1].value
          /\ outputs[vout + 1].script = tx.outputs[vout + 1].script
      BY <1>14, <3>1
    <3> QED
      BY <2>2, <3>1, <3>3, <3>4
  <2> QED
    BY <2>1, <2>2
<1> HIDE DEF N, out, s1, last_input, last_output
<1>21. VerifyTransaction(data, vout, verify_nonce) =
         IF Len(data) = 2 * HASH \/ (verify_nonce /\ ~ N) THEN None
         ELSE [out |-> out, locktime |-> tx.locktime, n_sequence |-> s1]
  <2>1. n # 0
    BY <1>5
  <2>2. IsNodeSized(Len(data)) <=> Len(data) = 2 * HASH
    BY DEF IsNodeSized
  <2>3. HasNonce(inputs, input_size.value) <=> N
    BY <1>15 DEF N
  <2> QED
    BY <1>7, <1>11, <1>12, <1>13, <1>14, <1>15, <1>16, <1>17, <1>18, <1>19, <1>20, <2>1, <2>2, <2>3
<1>22. Known(tx, vout, verify_nonce) =
         IF Len(data) = 2 * HASH \/ (verify_nonce /\ ~ N) THEN None
         ELSE [out |-> out, locktime |-> tx.locktime, n_sequence |-> s1]
  <2>1. \A i \in 1 .. Len(tx.inputs) : inputs[i].sequence = tx.inputs[i].sequence
    BY <1>12 DEF n
  <2>2. LET sequences == {input.sequence : input \in ToSet(tx.inputs)}
        IN  N <=> /\ Cardinality({s % Power[WORD-1] : s \in sequences}) = 1
                  /\ \A s \in sequences : s >= SEQUENCE_FINAL
    BY <2>1, HasNonceIs DEF N, n
  <2> QED
    BY <1>8, <2>2 DEF out, s1
<1> QED
  BY <1>21, <1>22 DEF data

\* The parser on the serialization with witnesses: the marker reads as no inputs.
LEMMA RefusesSegwit ==
  ASSUME NEW tx, IsTransaction(tx), NEW vout \in Nat, NEW verify_nonce \in BOOLEAN
  PROVE  VerifyTransaction(SerializeSegwit(tx), vout, verify_nonce) = None
<1> DEFINE data == SerializeSegwit(tx)
           V == LeBytes(tx.version, WORD)
           M == <<0, 1>>
           B == Body(tx)
           Z == [i \in DOMAIN tx.inputs |-> 0]
           LT == LeBytes(tx.locktime, WORD)
           n == Len(tx.inputs)
<1>1. data = (((V \o M) \o B) \o Z) \o LT
  BY DEF SerializeSegwit
<1>2. V \in Bytes /\ Len(V) = WORD /\ LT \in Bytes /\ B \in Bytes
  <2>1. PICK si, FI, so, FO : Layout(tx, si, FI, so, FO)
    BY LayoutExists
  <2>2. Parts(tx, si, FI, so, FO, V, VarInt(n), FI[n], VarInt(Len(tx.outputs)),
              FO[Len(tx.outputs)], LT)
    BY <2>1 DEF Parts
  <2> HIDE DEF V, LT, n, data
  <2> QED
    BY <2>2, PartsHave
<1>3. Z \in Bytes
  <2>1. DOMAIN tx.inputs = 1 .. n /\ n \in Nat
    BY TransactionHas
  <2>2. 0 \in Byte
    BY Sizes DEF Byte
  <2> HIDE DEF n
  <2>3. [i \in 1 .. n |-> 0] \in Seq(Byte)
    BY <2>1, <2>2
  <2> QED
    BY <2>1, <2>3 DEF Bytes
<1>4. M \in Bytes /\ Len(M) = 2 /\ M[1] = 0 /\ M[2] = 1
  <2>1. 0 \in Byte /\ 1 \in Byte
    BY Sizes DEF Byte
  <2> QED
    BY <2>1 DEF Bytes
<1> HIDE DEF data, V, M, B, Z, LT
<1> DEFINE a == V \o M
           b == a \o B
           c == b \o Z
<1>5. a \in Bytes /\ b \in Bytes /\ c \in Bytes /\ data \in Bytes
  <2>1. a \in Bytes
    BY <1>2, <1>4, BytesConcat
  <2> HIDE DEF a
  <2>2. b \in Bytes
    BY <1>2, <2>1, BytesConcat
  <2> HIDE DEF b
  <2>3. c \in Bytes
    BY <1>3, <2>2, BytesConcat
  <2>4. data = c \o LT
    BY <1>1 DEF a, b
  <2> HIDE DEF c
  <2>5. data \in Bytes
    BY <1>2, <2>3, <2>4, BytesConcat
  <2> QED
    BY <2>1, <2>2, <2>3, <2>5
<1>6. At(data, 0 + Len(V), M)
  <2>1. At(data, 0, c \o LT)
    BY <1>1, <1>5, AtStart
  <2>2. data = c \o LT /\ c = b \o Z /\ b = a \o B /\ a = V \o M
    BY <1>1
  <2> HIDE DEF a, b, c
  <2>3. At(data, 0, b \o Z)
    BY <1>2, <1>5, <2>1, <2>2, AtConcat
  <2>4. At(data, 0, a \o B)
    BY <1>3, <1>5, <2>2, <2>3, AtConcat
  <2>5. At(data, 0, V \o M)
    BY <1>2, <1>5, <2>2, <2>4, AtConcat
  <2> QED
    BY <1>2, <1>4, <1>5, <2>5, AtConcat
<1>7. WORD + 2 <= Len(data) /\ Len(data) \in Nat /\ data[WORD + 1] = 0 /\ data[WORD + 2] = 1
  <2>1. 0 + Len(V) = WORD /\ Len(data) \in Nat
    BY <1>2, <1>5, Sizes DEF Bytes
  <2>2. At(data, WORD, M)
    BY <1>6, <2>1
  <2>3. 1 \in 1 .. Len(M) /\ 2 \in 1 .. Len(M)
    BY <1>4
  <2> QED
    BY <1>4, <2>1, <2>2, <2>3 DEF At
<1>8. ReadVarInt(data, WORD) = [value |-> 0, end |-> WORD + 1]
  <2>1. ~ (WORD >= Len(data)) /\ 0 <= BASE - 4 /\ ~ (WORD + 1 + 0 > Len(data)) /\ WORD + 1 + 0 = WORD + 1
    BY <1>7, Sizes
  <2> QED
    BY <1>7, <2>1 DEF ReadVarInt
<1>9. ReadVarInt(data, WORD) # None
  <2>1. [value |-> 0, end |-> WORD + 1] \in VarIntRead
    BY Sizes DEF VarIntRead
  <2> QED
    BY <1>8, <2>1, WidthAssumption
<1>10. IsSegwit(data, ReadVarInt(data, WORD))
  BY <1>7, <1>8 DEF IsSegwit
<1> QED
  BY <1>9, <1>10 DEF VerifyTransaction, data

LEMMA BlockParses ==
  ASSUME IsBlock
  PROVE  ParsesBack
<1> DEFINE tx == block[Len(block)]
<1>1. IsTransaction(tx)
  <2>1. Len(block) \in DOMAIN block
    BY BlockSize
  <2> QED
    BY <2>1, BlockSize, TransactionAssumption
<1>2. Len(tx.outputs) \in Nat
  BY <1>1, TransactionHas
<1> HIDE DEF tx
<1>3. \A vout \in 0 .. Len(tx.outputs), verify_nonce \in BOOLEAN :
        /\ VerifyTransaction(Serialize(tx), vout, verify_nonce) = Known(tx, vout, verify_nonce)
        /\ VerifyTransaction(SerializeSegwit(tx), vout, verify_nonce) = None
  <2> TAKE vout \in 0 .. Len(tx.outputs), verify_nonce \in BOOLEAN
  <2>1. vout \in Nat
    BY <1>2
  <2> QED
    BY <1>1, <2>1, ParserReads, RefusesSegwit
<1> QED
  BY <1>3 DEF ParsesBack, tx

\* The parser, which skips along the bytes of a transaction with one running
\* offset, finds in them what the transaction says, whatever the number and the
\* length of its inputs and outputs, and refuses them with witnesses.
THEOREM ParserIsFaithful == Spec => []ParsesBack
<1>1. IsBlock => ParsesBack
  BY BlockParses
<1> QED
  BY <1>1, BlockInvariant, PTL

-----------------------------------------------------------------------------
(***************************************************************************)
(* The nonce.                                                              *)
(***************************************************************************)

\* Shifted by whole digits, a number is cut off where its digits are.
LEMMA ModScale ==
  ASSUME NEW x \in Int, NEW P \in Nat \ {0}, NEW Q \in Nat \ {0}
  PROVE  (x * P) % (P * Q) = P * (x % Q)
<1> DEFINE q == x \div Q
           r == x % Q
           PQ == P * Q
           Pr == P * r
           Qq == Q * q
<1>1. q \in Int /\ r \in 0 .. Q - 1 /\ x = Qq + r
  BY IntDivMod
<1>2. r \in Int /\ Qq \in Int /\ r \in Nat /\ r + 1 <= Q /\ r + 1 \in Nat
  BY <1>1, IntMulLaws
<1> HIDE DEF q, r
<1>3. PQ \in Nat /\ Pr \in Nat
  BY <1>2
<1>4. Pr < PQ
  <2>1. Pr + P <= PQ
    <3>1. (r + 1) * P <= Q * P
      BY <1>2
    <3>2. (r + 1) * P = r * P + 1 * P /\ r * P = Pr /\ Q * P = PQ /\ 1 * P = P
      BY <1>2, IntMulLaws
    <3> QED
      BY <3>1, <3>2
  <2> QED
    BY <1>3, <2>1
<1>5. x * P = PQ * q + Pr
  <2>1. x * P = Qq * P + r * P
    BY <1>1, <1>2, IntMulLaws
  <2>2. Qq * P = P * Qq /\ P * Qq = PQ * q /\ r * P = Pr
    BY <1>1, <1>2, IntMulLaws
  <2> QED
    BY <2>1, <2>2
<1> HIDE DEF PQ, Pr
<1>6. Pr \in 0 .. PQ - 1
  BY <1>3, <1>4
<1>7. (x * P) % PQ = Pr
  BY <1>1, <1>3, <1>5, <1>6, IntModUnique
<1> QED
  BY <1>7 DEF PQ, Pr, r

LEMMA TwoDigits ==
  ASSUME NEW P \in Nat \ {0}, NEW a \in Nat, NEW b \in Nat,
         NEW s \in 0 .. P - 1, NEW t \in 0 .. P - 1, P * a + s = P * b + t
  PROVE  a = b /\ s = t
<1> DEFINE v == P * a + s
<1>1. v \div P = a /\ v % P = s
  OBVIOUS
<1>2. v \div P = b /\ v % P = t
  OBVIOUS
<1> QED
  BY <1>1, <1>2

LEMMA NearMod ==
  ASSUME NEW Q \in Nat \ {0}, NEW x \in Int, NEW y \in Int, x - y < Q, y - x < Q,
         x % Q = y % Q
  PROVE  x = y
<1> DEFINE q == x \div Q
           p == y \div Q
           r == x % Q
<1>1. q \in Int /\ p \in Int /\ r \in Int /\ x = Q * q + r /\ y = Q * p + r
  BY IntDivMod
<1> DEFINE d == q - p
<1> HIDE DEF q, p, r
<1>2. x - y = Q * d /\ d \in Int
  BY <1>1
<1>3. d >= 1 => Q * d >= Q
  BY <1>2
<1>4. d <= -1 => Q * d <= -Q
  BY <1>2
<1> HIDE DEF d
<1>5. d = 0
  BY <1>2, <1>3, <1>4
<1> QED
  BY <1>2, <1>5

\* The lock time keeps enough digits above those of the sequence.
LEMMA NonceDigits ==
  ASSUME NEW k \in Nat, k < Power[WORD], NEW l \in Nat, l < Power[WORD],
         NEW s \in 0 .. Power[WORD-1] - 1, NEW t \in 0 .. Power[WORD-1] - 1,
         TxNonce(k, s) = TxNonce(l, t)
  PROVE  k = l /\ s = t
<1> DEFINE P == Power[WORD-1]
           e == (LONG - WORD) + 1
           Q == Power[e]
           W == Power[WORD]
           x == k - LOCKTIME_THRESHOLD
           y == l - LOCKTIME_THRESHOLD
<1>1. WORD - 1 \in Nat /\ e \in Nat /\ WORD <= e /\ (WORD - 1) + e = LONG
  BY Sizes
<1>2. LOCKTIME_THRESHOLD \in Int
  <2>1. Power[WORD] \in Nat
    BY Sizes, PowerFacts
  <2> QED
    BY <2>1, WidthAssumption
<1> HIDE DEF e
<1>3. P \in Nat \ {0} /\ Q \in Nat \ {0} /\ W \in Nat
  BY <1>1, Sizes, PowerFacts
<1>4. U64 = P * Q
  <2>1. Power[(WORD - 1) + e] = Power[WORD - 1] * Power[e]
    BY <1>1, Sizes, PowerIs, PowersAdd
  <2> QED
    BY <1>1, <2>1 DEF U64
<1>5. W <= Q
  BY <1>1, Sizes, PowerIs, PowersGrow
<1> HIDE DEF P, Q, W, x, y
<1>6. x \in Int /\ y \in Int /\ x - y = k - l /\ x - y < Q /\ y - x < Q
  BY <1>2, <1>3, <1>5 DEF x, y, W
<1>7. TxNonce(k, s) = P * (x % Q) + s /\ TxNonce(l, t) = P * (y % Q) + t
  <2>1. TxNonce(k, s) = ((x * P) % (P * Q)) + s /\ TxNonce(l, t) = ((y * P) % (P * Q)) + t
    BY <1>4 DEF TxNonce, P, x, y
  <2>2. (x * P) % (P * Q) = P * (x % Q) /\ (y * P) % (P * Q) = P * (y % Q)
    BY <1>3, <1>6, ModScale
  <2> QED
    BY <2>1, <2>2
<1> DEFINE a == x % Q
           b == y % Q
<1>8. a \in Nat /\ b \in Nat
  BY <1>3, <1>6, IntDivMod
<1>9. P * a + s = P * b + t
  BY <1>7
<1>10. s \in 0 .. P - 1 /\ t \in 0 .. P - 1
  BY DEF P
<1> HIDE DEF a, b
<1>11. a = b /\ s = t
  BY <1>3, <1>8, <1>9, <1>10, TwoDigits
<1>12. x % Q = y % Q
  BY <1>11 DEF a, b
<1>13. x = y
  BY <1>3, <1>6, <1>12, NearMod
<1> QED
  BY <1>6, <1>11, <1>13

\* The nonce of a transaction that the parser accepts.
LEMMA NonceIs ==
  ASSUME NEW tx, IsTransaction(tx)
  PROVE  NonceOf(tx) \in {None, TxNonce(tx.locktime, tx.inputs[1].sequence % Power[WORD-1])}
<1> DEFINE parsed == VerifyTransaction(Serialize(tx), 0, TRUE)
<1>1. parsed = Known(tx, 0, TRUE)
  BY ParserReads
<1>2. CASE parsed = None
  BY <1>2 DEF NonceOf
<1>3. CASE parsed # None
  <2>1. parsed.locktime = tx.locktime
        /\ parsed.n_sequence = tx.inputs[1].sequence % Power[WORD-1]
    <3> DEFINE out == IF 0 < Len(tx.outputs) THEN tx.outputs[0 + 1] ELSE None
               low == tx.inputs[1].sequence % Power[WORD-1]
               R == [out |-> out, locktime |-> tx.locktime, n_sequence |-> low]
    <3>1. Known(tx, 0, TRUE) = None \/ Known(tx, 0, TRUE) = R
      BY DEF Known
    <3> HIDE DEF parsed, out, low
    <3>2. parsed = R
      BY <1>1, <1>3, <3>1
    <3>3. R.locktime = tx.locktime /\ R.n_sequence = low
      OBVIOUS
    <3> QED
      BY <3>2, <3>3 DEF low
  <2>2. NonceOf(tx) = TxNonce(parsed.locktime, parsed.n_sequence)
    BY <1>3 DEF NonceOf
  <2> QED
    BY <2>1, <2>2
<1> QED
  BY <1>2, <1>3

LEMMA BlockNonces ==
  ASSUME IsBlock
  PROVE  NonceIdentifies
<1> DEFINE new == block[Len(block)]
           Low(tx) == tx.inputs[1].sequence % Power[WORD-1]
<1> SUFFICES ASSUME NEW tx \in ToSet(block), NonceOf(tx) = NonceOf(new), NonceOf(new) # None
             PROVE  tx.locktime = new.locktime /\ Low(tx) = Low(new)
  BY DEF NonceIdentifies
<1>1. IsTransaction(tx) /\ IsTransaction(new)
  <2>1. Len(block) \in DOMAIN block /\ \E i \in DOMAIN block : tx = block[i]
    BY BlockSize DEF ToSet
  <2> QED
    BY <2>1, BlockSize, TransactionAssumption
<1>2. ASSUME NEW x, IsTransaction(x)
      PROVE  /\ x.locktime \in Nat /\ x.locktime < Power[WORD]
             /\ Low(x) \in 0 .. Power[WORD-1] - 1
  <2>1. x.locktime \in Nat /\ x.locktime < Power[WORD] /\ 1 \in 1 .. Len(x.inputs)
        /\ x.inputs \in [1 .. Len(x.inputs) -> TxInput]
    BY <1>2, TransactionHas
  <2>2. x.inputs[1].sequence \in Nat
    BY <2>1 DEF TxInput
  <2>3. Power[WORD-1] \in Nat \ {0}
    <3>1. WORD - 1 \in Nat
      BY Sizes
    <3> QED
      BY <3>1, PowerFacts
  <2> DEFINE P == Power[WORD-1]
             s == x.inputs[1].sequence
  <2>4. P \in Nat /\ P > 0 /\ s \in Nat
    BY <2>2, <2>3
  <2> HIDE DEF P, s
  <2>5. s % P \in 0 .. P - 1
    BY <2>4, DivMod
  <2> QED
    BY <2>1, <2>5 DEF P, s
<1>3. NonceOf(tx) = TxNonce(tx.locktime, Low(tx)) /\ NonceOf(new) = TxNonce(new.locktime, Low(new))
  BY <1>1, NonceIs
<1> DEFINE s == Low(tx)
           t == Low(new)
<1>4. s \in 0 .. Power[WORD-1] - 1 /\ t \in 0 .. Power[WORD-1] - 1
      /\ tx.locktime \in Nat /\ tx.locktime < Power[WORD]
      /\ new.locktime \in Nat /\ new.locktime < Power[WORD]
      /\ TxNonce(tx.locktime, s) = TxNonce(new.locktime, t)
  BY <1>1, <1>2, <1>3
<1> HIDE DEF s, t, new
<1>5. tx.locktime = new.locktime /\ s = t
  BY <1>4, NonceDigits
<1> QED
  BY <1>5 DEF s, t

\* Two transactions that pass with one nonce have one lock time and one sequence:
\* the nonce of claim.rs loses nothing of the two, also where the subtraction of
\* the threshold wraps around.
THEOREM NonceIsUnique == Spec => []NonceIdentifies
<1>1. IsBlock => NonceIdentifies
  BY BlockNonces
<1> QED
  BY <1>1, BlockInvariant, PTL

-----------------------------------------------------------------------------
(***************************************************************************)
(* Made-up proofs.                                                         *)
(***************************************************************************)

\* What is on a level: ids of transactions on the lowest one, and double hashes
\* of two hashes of the level below on the others.
LEMMA HashIs ==
  ASSUME IsBlock, NEW h \in Hashes
  PROVE  \/ \E i \in DOMAIN block : h = Txid(block[i])
         \/ \E u \in Hashes, v \in Hashes : h = Sha256d(<<u, v>>)
<1> DEFINE N == Len(block)
           m == Depth(N)
           l == Levels(Txids)
           w == Widths(N)
<1>1. N \in Nat \ {0} /\ DOMAIN Txids = 1 .. N /\ Len(Txids) = N /\ DOMAIN block = 1 .. N
      /\ \A i \in 1 .. N : Txids[i] = Txid(block[i])
  BY BlockSize
<1>2. m \in 0 .. N /\ m \in Nat /\ IsWidth(w, N)
  BY <1>1, WidthsAre, DepthIs
<1>3. l[0] = Txids /\ \A k \in 1 .. m : l[k] = Parents(l[k-1])
  BY <1>1, LevelsAre
<1>4. \A k \in 0 .. m : Len(l[k]) = w[k] /\ DOMAIN l[k] = 1 .. w[k]
  BY <1>1, LevelHas
<1>5. Hashes = UNION {ToSet(level) : level \in {l[d] : d \in 0 .. m}}
  BY DEF Hashes
<1> HIDE DEF N, m, l, w
<1>6. \A x : x \in Hashes <=> \E d \in 0 .. m : \E j \in DOMAIN l[d] : x = l[d][j]
  BY <1>5 DEF ToSet
<1>7. PICK d \in 0 .. m : \E j \in DOMAIN l[d] : h = l[d][j]
  BY <1>6
<1>8. PICK j \in DOMAIN l[d] : h = l[d][j]
  BY <1>7
<1>9. CASE d = 0
  <2>1. j \in 1 .. N /\ h = Txids[j]
    BY <1>1, <1>3, <1>8, <1>9
  <2> QED
    BY <1>1, <2>1
<1>10. CASE d # 0
  <2>1. d \in 1 .. m /\ d - 1 \in 0 .. m /\ d - 1 \in 0 .. N /\ d \in 1 .. N
    BY <1>1, <1>2, <1>10
  <2> DEFINE L == l[d-1]
             wide == w[d-1]
  <2>2. wide \in Nat \ {0} /\ w[d] = (wide + 1) \div 2
    BY <1>2, <2>1 DEF IsWidth
  <2>3. Len(L) = wide /\ DOMAIN L = 1 .. wide /\ l[d] = Parents(L)
    BY <1>3, <1>4, <2>1
  <2>4. j \in 1 .. (wide + 1) \div 2
    BY <1>4, <1>8, <2>2
  <2>5. \A i \in 1 .. wide : L[i] \in Hashes
    BY <1>6, <2>1, <2>3
  <2>6. h = Parents(L)[j]
    BY <1>8, <2>3
  <2> HIDE DEF L, wide
  <2> DEFINE k == Min({2*j, wide})
  <2>7. h = Sha256d(<<L[2*j - 1], L[k]>>)
    BY <2>3, <2>4, <2>6 DEF Parents
  <2>8. 2*j \in Nat /\ 2*j - 1 \in 1 .. wide /\ 2*j >= 1
    BY <2>2, <2>4
  <2>9. k \in 1 .. wide
    BY <2>2, <2>8, MinOfTwo
  <2> HIDE DEF k
  <2> QED
    BY <2>5, <2>7, <2>8, <2>9
<1> QED
  BY <1>9, <1>10

\* A transaction of the block whose bytes are two hashes.
Through(h) == \E i \in DOMAIN block : Serialize(block[i]) \in DOMAIN AsNode /\ h = Txid(block[i])

LEMMA HashesDiffer == \A a, b : Sha256d(a) = Sha256d(b) => a = b
BY DEF Sha256d

\* Bytes that are not two hashes are more than two.
LEMMA BytesAreMany ==
  ASSUME NEW tx, IsTransaction(tx), NEW u, NEW v
  PROVE  Serialize(tx) # <<u, v>>
<1> SUFFICES ASSUME Serialize(tx) = <<u, v>> PROVE FALSE
  OBVIOUS
<1>1. Len(<<u, v>>) > 2
  BY SerializeType
<1>2. Len(<<u, v>>) = 2
  OBVIOUS
<1> QED
  BY <1>1, <1>2

\* The parts of a hash of the tree are in the tree, or below a transaction.
LEMMA PartsOfHash ==
  ASSUME IsBlock, NEW u, NEW v, Sha256d(<<u, v>>) \in Hashes
  PROVE  (u \in Hashes /\ v \in Hashes) \/ Through(Sha256d(<<u, v>>))
<1> DEFINE h == Sha256d(<<u, v>>)
<1>1. CASE \E i \in DOMAIN block : h = Txid(block[i])
  <2>1. PICK i \in DOMAIN block : h = Txid(block[i])
    BY <1>1
  <2>2. IsTransaction(block[i])
    BY BlockSize, TransactionAssumption
  <2>3. Serialize(block[i]) \in DOMAIN AsNode
    <3>1. SUFFICES ASSUME Serialize(block[i]) \notin DOMAIN AsNode PROVE FALSE
      OBVIOUS
    <3>2. Txid(block[i]) = Sha256d(Serialize(block[i]))
      BY <3>1 DEF Txid, HashOf
    <3>3. <<u, v>> = Serialize(block[i])
      BY <2>1, <3>2, HashesDiffer
    <3> QED
      BY <2>2, <3>3, BytesAreMany
  <2> QED
    BY <2>1, <2>3 DEF Through
<1>2. CASE \E a \in Hashes, b \in Hashes : h = Sha256d(<<a, b>>)
  <2>1. PICK a \in Hashes, b \in Hashes : h = Sha256d(<<a, b>>)
    BY <1>2
  <2>2. <<u, v>> = <<a, b>>
    BY <2>1, HashesDiffer
  <2> QED
    BY <2>1, <2>2
<1> QED
  BY <1>1, <1>2, HashIs

\* A path that ends in the tree has been in it all the way, or has come into it
\* through a transaction.
LEMMA PathWithin ==
  ASSUME IsBlock, NEW n \in Nat, NEW c, NEW txid, NEW index, NEW merkle_proof,
         Follows(c, txid, index, merkle_proof, n), c[n] \in Hashes
  PROVE  txid \in Hashes \/ \E k \in 1 .. n : Through(c[k])
<1> SUFFICES ASSUME \A k \in 1 .. n : ~ Through(c[k])
             PROVE  txid \in Hashes
  OBVIOUS
<1> DEFINE S == {k \in 0 .. n : c[n - k] \in Hashes}
<1>1. 0 \in S
  OBVIOUS
<1>2. ASSUME NEW k \in 1 .. n, k-1 \in S PROVE k \in S
  <2> DEFINE j == n - (k - 1)
  <2>1. j \in 1 .. n /\ j - 1 = n - k /\ c[j] \in Hashes
    BY <1>2
  <2> HIDE DEF j
  <2>2. c[j] = Sha256d(<<c[j-1], merkle_proof[j]>>) \/ c[j] = Sha256d(<<merkle_proof[j], c[j-1]>>)
    BY <2>1 DEF Follows
  <2>3. ~ Through(c[j])
    BY <2>1
  <2>4. c[j-1] \in Hashes
    BY <2>1, <2>2, <2>3, PartsOfHash
  <2> QED
    BY <2>1, <2>4
<1> HIDE DEF S
<1>3. n \in S
  <2>1. \A k \in 0 .. n : k \in S
    BY <1>1, <1>2, UpTo
  <2> QED
    BY <2>1
<1>4. c[0] \in Hashes
  <2>1. n - n = 0
    OBVIOUS
  <2> QED
    BY <1>3, <2>1 DEF S
<1> QED
  BY <1>4 DEF Follows

\* The beginning of a proof leads to where the path was.
LEMMA PathBegins ==
  ASSUME NEW txid, NEW a \in Nat, NEW n \in Nat, NEW merkle_proof \in [1 .. n -> Pieces],
         NEW c, Follows(c, txid, Shifted(a, n), merkle_proof, n), NEW k \in 1 .. n
  PROVE  ComputeMerkle(txid, a, SubSeq(merkle_proof, 1, k)) = c[k]
<1> DEFINE start == SubSeq(merkle_proof, 1, k)
           own == Shifted(a, k)
           all == Shifted(a, n)
<1>1. k \in Nat /\ Len(merkle_proof) = n /\ merkle_proof \in Seq(Pieces)
  OBVIOUS
<1>2. Len(start) = k /\ \A i \in 1 .. k : start[i] = merkle_proof[i]
  BY <1>1
<1>3. \A i \in 0 .. k : own[i] = all[i]
  <2>1. ASSUME NEW i \in 0 .. k PROVE own[i] = all[i]
    <3>1. i \in 0 .. n
      OBVIOUS
    <3>2. Shifted(a, i)[i] = Shifted(a, k)[i]
      BY <1>1, ShiftedPrefix
    <3>3. Shifted(a, i)[i] = Shifted(a, n)[i]
      BY <3>1, ShiftedPrefix
    <3> QED
      BY <3>2, <3>3
  <2> QED
    BY <2>1
<1> HIDE DEF start
<1>4. PICK p : /\ Follows(p, txid, Shifted(a, Len(start)), start, Len(start))
               /\ ComputeMerkle(txid, a, start) = p[Len(start)]
  BY <1>1, <1>2, ComputeMerkleIs
<1>5. Follows(p, txid, own, start, k) /\ ComputeMerkle(txid, a, start) = p[k]
  BY <1>2, <1>4
<1> HIDE DEF own, all
<1>6. Follows(c, txid, all, merkle_proof, n)
  BY DEF all
<1> DEFINE S == {i \in 0 .. k : p[i] = c[i]}
<1>7. 0 \in S
  BY <1>1, <1>5, <1>6 DEF Follows
<1>8. ASSUME NEW i \in 1 .. k, i-1 \in S PROVE i \in S
  <2>1. i \in 1 .. n /\ i - 1 \in 0 .. k /\ i \in 0 .. k
    BY <1>1
  <2>2. p[i-1] = c[i-1] /\ own[i-1] = all[i-1] /\ start[i] = merkle_proof[i]
    BY <1>2, <1>3, <1>8, <2>1
  <2>3. p[i] = IF own[i-1] % 2 = 0 THEN Sha256d(<<p[i-1], start[i]>>)
               ELSE Sha256d(<<start[i], p[i-1]>>)
    BY <1>5 DEF Follows
  <2>4. c[i] = IF all[i-1] % 2 = 0 THEN Sha256d(<<c[i-1], merkle_proof[i]>>)
               ELSE Sha256d(<<merkle_proof[i], c[i-1]>>)
    BY <1>6, <2>1 DEF Follows
  <2>5. p[i] = c[i]
    BY <2>2, <2>3, <2>4
  <2> QED
    BY <2>1, <2>5
<1> HIDE DEF S
<1>9. \A i \in 0 .. k : i \in S
  BY <1>1, <1>7, <1>8, UpTo
<1>10. k \in S
  BY <1>1, <1>9
<1>11. p[k] = c[k]
  BY <1>10 DEF S
<1> QED
  BY <1>5, <1>11 DEF start

LEMMA RootWithin ==
  ASSUME IsBlock
  PROVE  MerkleRoot(Txids) \in Hashes
<1> DEFINE N == Len(block)
           m == Depth(N)
           l == Levels(Txids)
           w == Widths(N)
<1>1. N \in Nat \ {0} /\ DOMAIN Txids = 1 .. N /\ Len(Txids) = N
  BY BlockSize
<1>2. m \in 0 .. N /\ m \in 0 .. m /\ w[m] = 1
  BY <1>1, DepthIs
<1>3. DOMAIN l[m] = 1 .. w[m]
  BY <1>1, <1>2, LevelHas
<1>4. Hashes = UNION {ToSet(level) : level \in {l[d] : d \in 0 .. m}}
  BY DEF Hashes
<1>5. MerkleRoot(Txids) = l[m][1]
  BY <1>1 DEF MerkleRoot
<1> HIDE DEF N, m, l, w
<1>6. 1 \in DOMAIN l[m]
  BY <1>2, <1>3
<1> QED
  BY <1>2, <1>4, <1>5, <1>6 DEF ToSet

LEMMA BlockSound ==
  ASSUME IsBlock
  PROVE  ProofsSound
<1> SUFFICES ASSUME NEW data \in {Serialize(tx) : tx \in Transaction} \cup DOMAIN AsNode,
                    VerifyTransaction(data, 0, FALSE) # None, HashOf(data) \notin ToSet(Txids),
                    NEW n \in 0 .. MaxProof, NEW index \in 0 .. 2^n - 1,
                    NEW merkle_proof \in [1 .. n -> Pieces],
                    ComputeMerkle(HashOf(data), index, merkle_proof) = MerkleRoot(Txids)
             PROVE  \E k \in 1 .. n, tx \in ToSet(block) :
                      /\ Serialize(tx) \in DOMAIN AsNode
                      /\ ComputeMerkle(HashOf(data), index, SubSeq(merkle_proof, 1, k)) = Txid(tx)
  BY DEF ProofsSound
<1> DEFINE txid == HashOf(data)
<1>1. n \in Nat /\ Len(merkle_proof) = n /\ index \in Nat
  BY BoundAssumption
<1>2. PICK c : /\ Follows(c, txid, Shifted(index, Len(merkle_proof)), merkle_proof,
                          Len(merkle_proof))
               /\ ComputeMerkle(txid, index, merkle_proof) = c[Len(merkle_proof)]
  BY <1>1, ComputeMerkleIs
<1>3. c[n] \in Hashes /\ Follows(c, txid, Shifted(index, n), merkle_proof, n)
  BY <1>1, <1>2, RootWithin
<1>4. txid \notin Hashes
  <2>1. ~ IsNodeSized(Len(data))
    BY DEF VerifyTransaction
  <2>2. data \notin DOMAIN AsNode
    BY <2>1, AsNodeAssumption DEF IsNodeSized
  <2>3. PICK tx \in Transaction : data = Serialize(tx)
    BY <2>2
  <2>4. txid = Sha256d(data)
    BY <2>2 DEF HashOf
  <2>5. ASSUME NEW u, NEW v, txid = Sha256d(<<u, v>>) PROVE FALSE
    <3>1. data = <<u, v>>
      BY <2>4, <2>5, HashesDiffer
    <3> QED
      BY <2>3, <3>1, TransactionAssumption, BytesAreMany
  <2>6. ASSUME NEW i \in DOMAIN block, txid = Txid(block[i]) PROVE FALSE
    <3>1. Txids[i] = txid /\ i \in DOMAIN Txids
      BY <2>6, BlockSize
    <3> QED
      BY <3>1 DEF ToSet
  <2> HIDE DEF txid
  <2> QED
    BY <2>5, <2>6, HashIs
<1> HIDE DEF txid
<1>5. PICK k \in 1 .. n : Through(c[k])
  BY <1>1, <1>3, <1>4, PathWithin
<1>6. ComputeMerkle(txid, index, SubSeq(merkle_proof, 1, k)) = c[k]
  BY <1>1, <1>3, PathBegins
<1>7. PICK i \in DOMAIN block : Serialize(block[i]) \in DOMAIN AsNode /\ c[k] = Txid(block[i])
  BY <1>5 DEF Through
<1>8. block[i] \in ToSet(block)
  BY DEF ToSet
<1> QED
  BY <1>6, <1>7, <1>8 DEF txid

\* Bytes that compute_merkle takes to the root of a block, with a proof of any
\* length and any index, are refused by the parser, as inner nodes are for their
\* length, or are a transaction of the block, or lie below a transaction of the
\* block whose bytes are two hashes.
THEOREM OnlyPaymentsPass == Spec => []ProofsSound
<1>1. IsBlock => ProofsSound
  BY BlockSound
<1> QED
  BY <1>1, BlockInvariant, PTL

=============================================================================
