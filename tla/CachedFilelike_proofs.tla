----------------------- MODULE CachedFilelike_proofs ------------------------
(***************************************************************************)
(* Proofs about CachedFilelike, for any file, cache, block size, reads and *)
(* errors: the cache knows which block its bytes are in, and a read is     *)
(* given the bytes of its range.                                           *)
(*                                                                         *)
(* A byte is right because a stream's chunk is copied to where the stream  *)
(* is.  That what is said to have data is there needs the blocks: a chunk  *)
(* must not drop a block that it was copied to, and a slice must not drop  *)
(* any, which holds because all its blocks are there.                      *)
(***************************************************************************)
EXTENDS CachedFilelike, FiniteSetTheorems, WellFoundedInduction, TLAPS

-----------------------------------------------------------------------------
(* Least numbers, and functions that are computed step by step.             *)

NatLess == OpToRel(<, Nat)

LEMMA LeastExists ==
  ASSUME NEW S \in SUBSET Nat, S # {}
  PROVE  \E i \in S : \A j \in S : i <= j
<1>1. IsWellFoundedOn(NatLess, Nat)
  BY NatLessThanWellFounded DEF NatLess
<1>2. PICK i \in S : \A j \in S : <<j, i>> \notin NatLess
  BY <1>1, WFMin, Zenon
<1>3. ASSUME NEW j \in S PROVE i <= j
  <2>1. <<j, i>> \notin NatLess
    BY <1>2
  <2> QED
    BY <2>1 DEF NatLess, OpToRel
<1> QED
  BY <1>3

LEMMA MinFacts ==
  ASSUME NEW S \in SUBSET Nat, S # {}
  PROVE  Min(S) \in S /\ \A i \in S : Min(S) <= i
<1>1. \E i \in S : \A j \in S : i <= j
  BY LeastExists
<1> QED
  BY <1>1 DEF Min

(* n steps from base, each of which stays in M.                             *)
IsSteps(g, n, M, base, step) ==
  /\ g = [k \in 0..n |-> g[k]]
  /\ g[0] = base
  /\ \A k \in 1..n : g[k] = step[k][g[k - 1]]
  /\ \A k \in 0..n : g[k] \in M

LEMMA StepsExist ==
  ASSUME NEW n \in Nat, NEW M, NEW base, base \in M, NEW step,
         \A k \in 1..n : \A m \in M : step[k][m] \in M
  PROVE  \E g : IsSteps(g, n, M, base, step)
<1> DEFINE Upto(k) == \E g : IsSteps(g, k, M, base, step)
           S == {k \in 0..n : ~Upto(k)}
<1> SUFFICES ASSUME S # {} PROVE FALSE
  <2>1. n \in 0..n
    OBVIOUS
  <2>2. S = {} => Upto(n)
    <3> HIDE DEF Upto
    <3> QED
      BY <2>1
  <2> QED
    BY <2>2
<1>1. PICK k \in S : \A j \in S : k <= j
  <2>1. S \in SUBSET Nat
    OBVIOUS
  <2> HIDE DEF S
  <2> QED
    BY <2>1, LeastExists
<1>2. CASE k = 0
  <2> DEFINE g == [i \in 0..0 |-> base]
  <2>1. IsSteps(g, 0, M, base, step)
    BY DEF IsSteps
  <2> HIDE DEF g
  <2> QED
    BY <1>1, <1>2, <2>1
<1>3. CASE k > 0
  <2>1. k - 1 \in 0..n /\ Upto(k - 1) /\ k \in 1..n
    <3> HIDE DEF Upto
    <3> QED
      BY <1>1, <1>3
  <2>2. PICK g : IsSteps(g, k - 1, M, base, step)
    BY <2>1
  <2> DEFINE next == step[k][g[k - 1]]
             h == [i \in 0..k |-> IF i = k THEN next ELSE g[i]]
  <2>3. next \in M
    <3>1. k - 1 \in 0..(k - 1)
      BY <2>1
    <3>2. g[k - 1] \in M
      BY <2>2, <3>1 DEF IsSteps
    <3> QED
      BY <2>1, <3>2
  <2>4. /\ h = [i \in 0..k |-> h[i]]
        /\ h[k] = next /\ \A i \in 0..(k - 1) : h[i] = g[i]
    BY <2>1
  <2>5. h[0] = base
    BY <2>1, <2>2, <2>4 DEF IsSteps
  <2> HIDE DEF h
  <2>6. ASSUME NEW i \in 0..k PROVE h[i] \in M
    <3>1. i = k \/ i \in 0..(k - 1)
      BY <2>1
    <3> HIDE DEF next
    <3> QED
      BY <2>2, <2>3, <2>4, <3>1 DEF IsSteps
  <2>7. ASSUME NEW j \in 1..k PROVE h[j] = step[j][h[j - 1]]
    <3>1. CASE j = k
      <4>1. k - 1 \in 0..(k - 1)
        BY <2>1
      <4>2. h[k] = next /\ h[k - 1] = g[k - 1]
        BY <2>4, <4>1
      <4> QED
        BY <3>1, <4>2
    <3>2. CASE j < k
      <4>1. j \in 1..(k - 1) /\ j \in 0..(k - 1) /\ j - 1 \in 0..(k - 1)
        BY <2>1, <3>2
      <4>2. h[j] = g[j] /\ h[j - 1] = g[j - 1]
        BY <2>4, <4>1
      <4>3. g[j] = step[j][g[j - 1]]
        BY <2>2, <4>1 DEF IsSteps
      <4> QED
        BY <4>2, <4>3
    <3> QED
      BY <2>1, <3>1, <3>2
  <2>8. IsSteps(h, k, M, base, step)
    BY <2>4, <2>5, <2>6, <2>7 DEF IsSteps
  <2> QED
    BY <1>1, <2>8
<1> QED
  BY <1>1, <1>2, <1>3

-----------------------------------------------------------------------------
(* Filter.                                                                  *)

(* f is what of s[1], ..., s[n] is in S: e says which.                      *)
IsPart(f, s, S, n, e) ==
  /\ e \in [1..Len(f) -> 1..n]
  /\ \A i \in 1..Len(f) : f[i] = s[e[i]] /\ s[e[i]] \in S
  /\ \A i, j \in 1..Len(f) : i < j => e[i] < e[j]
  /\ \A k \in 1..n : s[k] \in S => \E i \in 1..Len(f) : e[i] = k

LEMMA FilterSteps ==
  ASSUME NEW E, NEW s \in Seq(E), NEW S
  PROVE  \E h : /\ Filter(s, S) = h[Len(s)] /\ h[0] = <<>>
                /\ \A k \in 1..Len(s) :
                     h[k] = IF s[k] \in S THEN Append(h[k - 1], s[k])
                                          ELSE h[k - 1]
<1> DEFINE n == Len(s)
           Is(g) == g = [k \in 0..n |->
                           IF k = 0 THEN <<>>
                           ELSE IF s[k] \in S THEN Append(g[k - 1], s[k])
                           ELSE g[k - 1]]
           h == CHOOSE g : Is(g)
           step == [k \in 1..n |-> [t \in Seq(E) |->
                      IF s[k] \in S THEN Append(t, s[k]) ELSE t]]
<1>1. n \in Nat
  OBVIOUS
<1>2. Filter(s, S) = h[n]
  BY DEF Filter
<1>3. PICK g : IsSteps(g, n, Seq(E), <<>>, step)
  <2>1. \A k \in 1..n : s[k] \in E
    OBVIOUS
  <2>2. /\ \A k \in 1..n : \A t \in Seq(E) : step[k][t] \in Seq(E)
        /\ <<>> \in Seq(E)
    BY <2>1
  <2> HIDE DEF step, n
  <2> QED
    BY <1>1, <2>2, StepsExist
<1>4. ASSUME NEW k \in 1..n
      PROVE  g[k] = IF s[k] \in S THEN Append(g[k - 1], s[k]) ELSE g[k - 1]
  <2>1. k - 1 \in 0..n
    BY <1>1
  <2>2. g[k - 1] \in Seq(E) /\ g[k] = step[k][g[k - 1]]
    <3> HIDE DEF step, n
    <3> QED
      BY <1>3, <2>1 DEF IsSteps
  <2>3. step[k] = [t \in Seq(E) |-> IF s[k] \in S THEN Append(t, s[k]) ELSE t]
    OBVIOUS
  <2> HIDE DEF step, n
  <2> QED
    BY <2>2, <2>3
<1> HIDE DEF step
<1>5. Is(g)
  <2>1. ASSUME NEW k \in 0..n
        PROVE  g[k] = IF k = 0 THEN <<>>
                      ELSE IF s[k] \in S THEN Append(g[k - 1], s[k])
                      ELSE g[k - 1]
    <3>1. CASE k = 0
      BY <1>3, <3>1 DEF IsSteps
    <3>2. CASE k > 0
      <4>1. k \in 1..n /\ k # 0
        BY <1>1, <3>2
      <4>2. g[k] = IF s[k] \in S THEN Append(g[k - 1], s[k]) ELSE g[k - 1]
        BY <1>4, <4>1
      <4> QED
        BY <4>1, <4>2
    <3> QED
      BY <3>1, <3>2
  <2>2. g = [k \in 0..n |-> g[k]]
    BY <1>3 DEF IsSteps
  <2> HIDE DEF n
  <2> QED
    BY <2>1, <2>2
<1>6. Is(h)
  <2> HIDE DEF Is
  <2> QED
    BY <1>5
<1> HIDE DEF h
<1>7. h[0] = <<>>
  BY <1>1, <1>6
<1>8. ASSUME NEW k \in 1..n
      PROVE  h[k] = IF s[k] \in S THEN Append(h[k - 1], s[k]) ELSE h[k - 1]
  <2>1. k \in 0..n /\ k # 0
    BY <1>1
  <2>2. h[k] = IF k = 0 THEN <<>>
               ELSE IF s[k] \in S THEN Append(h[k - 1], s[k]) ELSE h[k - 1]
    <3> HIDE DEF n
    <3> QED
      BY <1>6, <2>1, Zenon
  <2> QED
    BY <2>1, <2>2
<1> QED
  BY <1>2, <1>7, <1>8

LEMMA PartGrows ==
  ASSUME NEW E, NEW f \in Seq(E), NEW s, NEW S, NEW n \in Nat, NEW e,
         IsPart(f, s, S, n, e), s[n + 1] \in E
  PROVE  LET g == IF s[n + 1] \in S THEN Append(f, s[n + 1]) ELSE f
         IN  g \in Seq(E) /\ \E d : IsPart(g, s, S, n + 1, d)
<1> DEFINE l == Len(f)
<1>1. l \in Nat
  OBVIOUS
<1>2. CASE s[n + 1] \in S
  <2> DEFINE g == Append(f, s[n + 1])
             d == [i \in 1..(l + 1) |-> IF i = l + 1 THEN n + 1 ELSE e[i]]
  <2>1. /\ g \in Seq(E) /\ Len(g) = l + 1 /\ g[l + 1] = s[n + 1]
        /\ \A i \in 1..l : g[i] = f[i]
    OBVIOUS
  <2>2. /\ e \in [1..l -> 1..n]
        /\ \A i \in 1..l : f[i] = s[e[i]] /\ s[e[i]] \in S
        /\ \A i, j \in 1..l : i < j => e[i] < e[j]
        /\ \A k \in 1..n : s[k] \in S => \E i \in 1..l : e[i] = k
    BY DEF IsPart
  <2> HIDE DEF l, g
  <2>3. d \in [1..(l + 1) -> 1..(n + 1)]
    BY <1>1, <2>2
  <2>4. /\ d[l + 1] = n + 1 /\ l + 1 \in 1..(l + 1)
        /\ \A i \in 1..l : d[i] = e[i] /\ i \in 1..(l + 1) /\ e[i] \in 1..n
        /\ \A i \in 1..(l + 1) : i = l + 1 \/ i \in 1..l
    BY <1>1, <2>2
  <2> HIDE DEF d
  <2>5. \A i \in 1..(l + 1) : g[i] = s[d[i]] /\ s[d[i]] \in S
    BY <1>2, <2>1, <2>2, <2>4
  <2>6. \A i, j \in 1..(l + 1) : i < j => d[i] < d[j]
    BY <1>1, <2>2, <2>4
  <2>7. \A k \in 1..(n + 1) : s[k] \in S => \E i \in 1..(l + 1) : d[i] = k
    <3>1. \A k \in 1..(n + 1) : k = n + 1 \/ k \in 1..n
      OBVIOUS
    <3> QED
      BY <2>2, <2>4, <3>1
  <2>8. IsPart(g, s, S, n + 1, d)
    BY <2>1, <2>3, <2>5, <2>6, <2>7 DEF IsPart
  <2> QED
    BY <1>2, <2>1, <2>8 DEF g
<1>3. CASE s[n + 1] \notin S
  <2>1. IsPart(f, s, S, n + 1, e)
    <3>1. e \in [1..Len(f) -> 1..(n + 1)]
      <4>1. 1..n \subseteq 1..(n + 1)
        OBVIOUS
      <4> QED
        BY <4>1 DEF IsPart
    <3>2. \A k \in 1..(n + 1) : s[k] \in S => k \in 1..n
      BY <1>3
    <3> QED
      BY <3>1, <3>2 DEF IsPart
  <2> QED
    BY <1>3, <2>1
<1> QED
  BY <1>2, <1>3

LEMMA FilterIsPart ==
  ASSUME NEW E, NEW s \in Seq(E), NEW S
  PROVE  /\ Filter(s, S) \in Seq(E)
         /\ \E e : IsPart(Filter(s, S), s, S, Len(s), e)
<1> DEFINE n == Len(s)
<1>1. PICK h : /\ Filter(s, S) = h[n] /\ h[0] = <<>>
               /\ \A k \in 1..n :
                    h[k] = IF s[k] \in S THEN Append(h[k - 1], s[k]) ELSE h[k - 1]
  BY FilterSteps
<1>2. n \in Nat /\ \A k \in 1..n : s[k] \in E
  OBVIOUS
<1> HIDE DEF n
<1> DEFINE Good(k) == h[k] \in Seq(E) /\ \E e : IsPart(h[k], s, S, k, e)
           B == {k \in 0..n : ~Good(k)}
<1>3. B = {}
  <2> SUFFICES ASSUME B # {} PROVE FALSE
    OBVIOUS
  <2>1. PICK k \in B : \A j \in B : k <= j
    <3>1. B \in SUBSET Nat
      OBVIOUS
    <3> HIDE DEF B
    <3> QED
      BY <3>1, LeastExists
  <2>2. CASE k = 0
    <3>1. <<>> \in Seq(E) /\ Len(<<>>) = 0 /\ 1..0 = {}
      OBVIOUS
    <3> DEFINE e == [i \in 1..0 |-> i]
    <3>2. IsPart(<<>>, s, S, 0, e)
      BY <3>1 DEF IsPart
    <3> QED
      BY <1>1, <2>1, <2>2, <3>1, <3>2
  <2>3. CASE k > 0
    <3> DEFINE m == k - 1
    <3>1. m \in Nat /\ k = m + 1 /\ k \in 1..n /\ m \in 0..n /\ Good(m)
      <4> HIDE DEF Good
      <4> QED
        BY <1>2, <2>1, <2>3
    <3>2. PICK e : IsPart(h[m], s, S, m, e)
      BY <3>1
    <3>3. h[m] \in Seq(E) /\ s[m + 1] \in E
      BY <1>2, <3>1
    <3>4. h[m + 1] = IF s[m + 1] \in S THEN Append(h[m], s[m + 1]) ELSE h[m]
      BY <1>1, <3>1
    <3> HIDE DEF m
    <3>5. h[m + 1] \in Seq(E) /\ \E d : IsPart(h[m + 1], s, S, m + 1, d)
      <4> DEFINE g == IF s[m + 1] \in S THEN Append(h[m], s[m + 1]) ELSE h[m]
      <4>1. g \in Seq(E) /\ \E d : IsPart(g, s, S, m + 1, d)
        BY <3>1, <3>2, <3>3, PartGrows
      <4> HIDE DEF g
      <4>2. h[m + 1] = g
        BY <3>4 DEF g
      <4> QED
        BY <4>1, <4>2
    <3> QED
      BY <2>1, <3>1, <3>5
  <2> QED
    BY <2>1, <2>2, <2>3
<1>4. Good(n)
  <2> HIDE DEF Good
  <2> QED
    BY <1>2, <1>3
<1> QED
  BY <1>1, <1>4 DEF n

(* What Filter leaves, its order and its length.                            *)
LEMMA FilterFacts ==
  ASSUME NEW E, NEW s \in Seq(E), NEW S
  PROVE  /\ Filter(s, S) \in Seq(E)
         /\ ToSet(Filter(s, S)) = ToSet(s) \cap S
         /\ IsInjective(s) => IsInjective(Filter(s, S))
<1> DEFINE f == Filter(s, S)
<1>1. f \in Seq(E) /\ \E e : IsPart(f, s, S, Len(s), e)
  BY FilterIsPart
<1> HIDE DEF f
<1>2. PICK e : IsPart(f, s, S, Len(s), e)
  BY <1>1
<1>3. DOMAIN f = 1..Len(f) /\ DOMAIN s = 1..Len(s) /\ Len(f) \in Nat
  BY <1>1
<1>4. ToSet(f) = ToSet(s) \cap S
  <2>1. /\ \A i \in 1..Len(f) :
             f[i] = s[e[i]] /\ s[e[i]] \in S /\ e[i] \in 1..Len(s)
        /\ \A k \in 1..Len(s) : s[k] \in S => \E i \in 1..Len(f) : e[i] = k
    BY <1>2 DEF IsPart
  <2>2. ToSet(f) = {f[i] : i \in 1..Len(f)} /\ ToSet(s) = {s[i] : i \in 1..Len(s)}
    BY <1>3 DEF ToSet
  <2>3. ASSUME NEW x \in ToSet(s), x \in S PROVE x \in ToSet(f)
    <3>1. PICK k \in 1..Len(s) : s[k] = x
      BY <2>2
    <3>2. PICK i \in 1..Len(f) : e[i] = k
      BY <2>1, <2>3, <3>1
    <3>3. f[i] = x
      BY <2>1, <3>1, <3>2
    <3> QED
      BY <2>2, <3>3
  <2>4. ASSUME NEW x \in ToSet(f) PROVE x \in ToSet(s) /\ x \in S
    <3>1. PICK i \in 1..Len(f) : f[i] = x
      BY <2>2
    <3> QED
      BY <2>1, <2>2, <3>1
  <2> QED
    BY <2>3, <2>4
<1>5. ASSUME IsInjective(s) PROVE IsInjective(f)
  <2>1. ASSUME NEW i \in 1..Len(f), NEW j \in 1..Len(f), f[i] = f[j]
        PROVE  i = j
    <3>1. e[i] = e[j] /\ e[i] \in 1..Len(s)
      BY <1>2, <1>3, <1>5, <2>1 DEF IsPart, IsInjective
    <3>2. ~(e[i] < e[j]) /\ ~(e[j] < e[i])
      BY <3>1
    <3> QED
      BY <1>2, <1>3, <3>2 DEF IsPart
  <2> QED
    BY <1>3, <2>1 DEF IsInjective
<1> QED
  BY <1>1, <1>4, <1>5 DEF f

-----------------------------------------------------------------------------
(* Blocks.                                                                  *)

LEMMA DivFacts ==
  ASSUME NEW p \in Nat, NEW B \in Nat \ {0}
  PROVE  /\ p \div B \in Nat
         /\ B * (p \div B) <= p
         /\ p < B * (p \div B) + B
  OBVIOUS

LEMMA ProductLess ==
  ASSUME NEW B \in Nat \ {0}, NEW x \in Nat, NEW y \in Nat, x < y
  PROVE  B * x + B <= B * y
<1>1. B * (y - x) >= B
  <2> DEFINE d == y - x
  <2>1. d \in Nat /\ d >= 1
    OBVIOUS
  <2> HIDE DEF d
  <2>2. B * d >= B
    BY <2>1
  <2> QED
    BY <2>2 DEF d
<1> QED
  BY <1>1

(* Later positions are in later blocks, and no block is skipped.            *)
LEMMA BlockFacts ==
  ASSUME NEW p \in Nat, NEW q \in Nat, p <= q
  PROVE  /\ BlockOf(p) \in Nat
         /\ BlockOf(p) <= BlockOf(q)
         /\ q - p < BlockSize => BlockOf(q) <= BlockOf(p) + 1
         /\ WholeFile => BlockOf(p) = 0
         /\ \A b \in BlockOf(p)..BlockOf(q) :
              \E r \in p..q : BlockOf(r) = b
<1>1. CASE WholeFile
  <2>1. \A r \in Nat : BlockOf(r) = 0
    BY <1>1 DEF BlockOf
  <2>2. p \in p..q /\ \A b \in 0..0 : b = 0
    OBVIOUS
  <2> QED
    BY <2>1, <2>2
<1>2. CASE ~WholeFile
  <2> DEFINE B == BlockSize
             x == p \div B
             y == q \div B
  <2>1. B \in Nat \ {0}
    BY FileAssumption
  <2>2. \A r \in Nat : BlockOf(r) = r \div B
    BY <1>2 DEF BlockOf
  <2> HIDE DEF B
  <2>3. /\ x \in Nat /\ B * x <= p /\ p < B * x + B
        /\ y \in Nat /\ B * y <= q /\ q < B * y + B
    BY <2>1, DivFacts
  <2> HIDE DEF x, y
  <2>4. x <= y
    <3>1. SUFFICES ASSUME y < x PROVE FALSE
      BY <2>3
    <3>2. B * y + B <= B * x
      BY <2>1, <2>3, <3>1, ProductLess
    <3> DEFINE u == B * x  v == B * y
    <3>3. u \in Nat /\ v \in Nat /\ v + B <= u /\ u <= p /\ q < v + B
      BY <2>1, <2>3, <3>2
    <3> HIDE DEF u, v
    <3> QED
      BY <2>1, <3>3
  <2>5. ASSUME q - p < B PROVE y <= x + 1
    <3>1. SUFFICES ASSUME x + 1 < y PROVE FALSE
      BY <2>3
    <3>2. x + 1 \in Nat
      BY <2>3
    <3>3. B * (x + 1) + B <= B * y
      BY <2>1, <2>3, <3>1, <3>2, ProductLess
    <3>4. B * (x + 1) = B * x + B
      BY <2>1, <2>3
    <3> DEFINE u == B * x  v == B * y
    <3>5. u \in Nat /\ v \in Nat /\ u + B + B <= v /\ v <= q /\ p < u + B
      BY <2>1, <2>3, <3>3, <3>4
    <3> HIDE DEF u, v
    <3> QED
      BY <2>1, <2>5, <3>5
  <2>6. ASSUME NEW b \in x..y PROVE \E r \in p..q : r \div B = b
    <3>1. CASE b = x
      BY <3>1 DEF x
    <3>2. CASE b # x
      <4>1. b \in Nat /\ x < b /\ b <= y
        BY <2>3, <3>2
      <4> DEFINE r == B * b  z == r \div B
      <4>2. B * x + B <= B * b
        BY <2>1, <2>3, <4>1, ProductLess
      <4>3. B * b <= B * y
        <5>1. CASE b = y
          BY <2>1, <2>3, <5>1
        <5>2. CASE b < y
          <6>1. B * b + B <= B * y
            BY <2>1, <2>3, <4>1, <5>2, ProductLess
          <6> QED
            BY <2>1, <2>3, <4>1, <6>1
        <5> QED
          BY <2>3, <4>1, <5>1, <5>2
      <4>4. r \in Nat /\ r \in p..q
        <5> DEFINE u == B * x  v == B * y
        <5>1. r \in Nat /\ u \in Nat /\ v \in Nat
          BY <2>1, <2>3, <4>1
        <5>2. u + B <= r /\ r <= v /\ v <= q /\ p < u + B
          BY <2>3, <4>2, <4>3
        <5> HIDE DEF r, u, v
        <5> QED
          BY <2>1, <5>1, <5>2
      <4>5. z \in Nat /\ B * z <= r /\ r < B * z + B
        <5> HIDE DEF r
        <5> QED
          BY <2>1, <4>4, DivFacts
      <4>6. z = b
        <5> HIDE DEF z
        <5>1. ASSUME z < b PROVE FALSE
          <6>1. B * z + B <= B * b
            BY <2>1, <4>1, <4>5, <5>1, ProductLess
          <6> HIDE DEF r
          <6>2. B * z + B <= r
            BY <6>1 DEF r
          <6> DEFINE w == B * z + B
          <6>3. w \in Nat /\ w <= r /\ r < w
            BY <2>1, <4>5, <6>2
          <6> HIDE DEF w
          <6> QED
            BY <4>4, <6>3
        <5>2. ASSUME b < z PROVE FALSE
          <6>1. B * b + B <= B * z
            BY <2>1, <4>1, <4>5, <5>2, ProductLess
          <6>2. r + B <= B * z
            BY <6>1
          <6> HIDE DEF r
          <6> DEFINE w == B * z
          <6>3. w \in Nat /\ w <= r /\ r + B <= w
            BY <2>1, <4>5, <6>2
          <6> HIDE DEF w
          <6> QED
            BY <2>1, <4>4, <6>3
        <5> QED
          BY <4>1, <4>5, <5>1, <5>2
      <4> QED
        BY <4>4, <4>6
    <3> QED
      BY <3>1, <3>2
  <2>7. BlockOf(p) = x /\ BlockOf(q) = y
    BY <2>2 DEF x, y
  <2>8. ASSUME NEW b \in x..y PROVE \E r \in p..q : BlockOf(r) = b
    <3>1. PICK r \in p..q : r \div B = b
      BY <2>6
    <3>2. BlockOf(r) = b
      BY <2>2, <3>1
    <3> QED
      BY <3>2
  <2> QED
    BY <1>2, <2>3, <2>4, <2>5, <2>7, <2>8 DEF B
<1> QED
  BY <1>1, <1>2

(* There is room for the blocks of a chunk.                                 *)
LEMMA BlocksEnough ==
  ASSUME cache \in Caches
  PROVE  /\ NumberOfBlocks \in Nat \ {0}
         /\ ~WholeFile => NumberOfBlocks >= 2
<1>1. cache \in Nat \ {0} /\ BlockSize \in Nat \ {0}
  BY FileAssumption
<1>2. cache + BlockSize - 1 \in Nat
  BY <1>1
<1>3. (cache + BlockSize - 1) \div BlockSize \in Nat
  BY <1>1, <1>2, DivFacts
<1> QED
  BY <1>3 DEF NumberOfBlocks

-----------------------------------------------------------------------------
(* The cache.                                                               *)

LEMMA InjectiveLen ==
  ASSUME NEW E, NEW s \in Seq(E), IsInjective(s)
  PROVE  IsFiniteSet(ToSet(s)) /\ Cardinality(ToSet(s)) = Len(s)
<1>1. DOMAIN s = 1..Len(s) /\ Len(s) \in Nat /\ s \in [1..Len(s) -> E]
  OBVIOUS
<1>2. s \in [1..Len(s) -> ToSet(s)]
  BY <1>1 DEF ToSet
<1>3. s \in Bijection(1..Len(s), ToSet(s))
  BY <1>1, <1>2 DEF Bijection, Injection, Surjection, IsInjective, ToSet
<1>4. ExistsBijection(1..Len(s), ToSet(s))
  BY <1>3 DEF ExistsBijection
<1> QED
  BY <1>1, <1>4, FS_CountingElements, FS_NatBijection

(* A sequence without an element, and with it at the end.                   *)
LEMMA AppendFacts ==
  ASSUME NEW E, NEW s \in Seq(E), IsInjective(s), NEW b \in E, b \notin ToSet(s)
  PROVE  LET t == Append(s, b)
         IN  /\ t \in Seq(E) /\ IsInjective(t) /\ Len(t) = Len(s) + 1
             /\ ToSet(t) = ToSet(s) \cup {b}
             /\ t[Len(t)] = b
<1> DEFINE t == Append(s, b)
           n == Len(s)
<1>1. /\ t \in Seq(E) /\ Len(t) = n + 1 /\ n \in Nat /\ t[n + 1] = b
      /\ DOMAIN t = 1..(n + 1) /\ DOMAIN s = 1..n
      /\ \A i \in 1..n : t[i] = s[i]
  OBVIOUS
<1>2. \A i \in 1..n : s[i] # b
  BY <1>1 DEF ToSet
<1> HIDE DEF t, n
<1>3. \A i \in 1..(n + 1) : i = n + 1 \/ i \in 1..n
  BY <1>1
<1>4. n + 1 \in 1..(n + 1) /\ \A i \in 1..n : i \in 1..(n + 1)
  BY <1>1
<1>5. IsInjective(t)
  <2>1. \A i, j \in 1..n : s[i] = s[j] => i = j
    BY <1>1 DEF IsInjective
  <2> QED
    BY <1>1, <1>2, <1>3, <2>1 DEF IsInjective
<1>6. ToSet(t) = ToSet(s) \cup {b}
  <2>1. ToSet(t) = {t[i] : i \in 1..(n + 1)} /\ ToSet(s) = {s[i] : i \in 1..n}
    BY <1>1 DEF ToSet
  <2> QED
    BY <1>1, <1>3, <1>4, <2>1
<1> QED
  BY <1>1, <1>5, <1>6 DEF t, n

LEMMA TailFacts ==
  ASSUME NEW E, NEW s \in Seq(E), IsInjective(s), s # <<>>
  PROVE  /\ Tail(s) \in Seq(E) /\ IsInjective(Tail(s))
         /\ Len(Tail(s)) = Len(s) - 1
         /\ ToSet(Tail(s)) = ToSet(s) \ {Head(s)}
         /\ Head(s) = s[1] /\ Head(s) \in ToSet(s)
         /\ Len(s) > 1 => Tail(s)[Len(s) - 1] = s[Len(s)]
<1> DEFINE t == Tail(s)
           n == Len(s)
<1>1. /\ t \in Seq(E) /\ Len(t) = n - 1 /\ n \in Nat /\ n >= 1
      /\ DOMAIN t = 1..(n - 1) /\ DOMAIN s = 1..n
      /\ \A i \in 1..(n - 1) : t[i] = s[i + 1]
      /\ Head(s) = s[1]
  OBVIOUS
<1>2. \A i, j \in 1..n : s[i] = s[j] => i = j
  BY <1>1 DEF IsInjective
<1> HIDE DEF t, n
<1>3. \A i \in 1..(n - 1) : i + 1 \in 1..n /\ i + 1 # 1
  BY <1>1
<1>4. 1 \in 1..n /\ \A i \in 1..n : i # 1 => i - 1 \in 1..(n - 1) /\ (i - 1) + 1 = i
  BY <1>1
<1>5. IsInjective(t)
  <2>1. ASSUME NEW i \in 1..(n - 1), NEW j \in 1..(n - 1), t[i] = t[j]
        PROVE  i = j
    <3>1. i + 1 = j + 1
      BY <1>1, <1>2, <1>3, <2>1
    <3> QED
      BY <3>1
  <2> QED
    BY <1>1, <2>1 DEF IsInjective
<1>6. ToSet(t) = ToSet(s) \ {s[1]}
  <2>1. ToSet(t) = {t[i] : i \in 1..(n - 1)} /\ ToSet(s) = {s[i] : i \in 1..n}
    BY <1>1 DEF ToSet
  <2>2. ASSUME NEW x \in ToSet(t) PROVE x \in ToSet(s) /\ x # s[1]
    <3>1. PICK i \in 1..(n - 1) : x = s[i + 1]
      BY <1>1, <2>1
    <3> QED
      BY <1>2, <1>3, <1>4, <2>1, <3>1
  <2>3. ASSUME NEW x \in ToSet(s), x # s[1] PROVE x \in ToSet(t)
    <3>1. PICK i \in 1..n : x = s[i]
      BY <2>1
    <3>2. i - 1 \in 1..(n - 1) /\ t[i - 1] = x
      BY <1>1, <1>4, <2>3, <3>1
    <3> QED
      BY <2>1, <3>2
  <2> QED
    BY <2>2, <2>3
<1>7. n > 1 => t[n - 1] = s[n]
  <2>1. n > 1 => n - 1 \in 1..(n - 1) /\ (n - 1) + 1 = n
    BY <1>1
  <2> QED
    BY <1>1, <2>1
<1>8. s[1] \in ToSet(s)
  BY <1>1, <1>4 DEF ToSet
<1> QED
  BY <1>1, <1>5, <1>6, <1>7, <1>8 DEF t, n

(* The blocks are at most as many as there may be, and the data is in them. *)
Holds(mem) ==
  /\ mem = [lru |-> mem.lru, data |-> mem.data]
  /\ mem.lru \in Seq(Nat) /\ IsInjective(mem.lru)
  /\ Len(mem.lru) <= NumberOfBlocks
  /\ mem.data \subseteq Nat
  /\ \A p \in mem.data : BlockOf(p) \in ToSet(mem.lru)

(* A block that is used is there, with the one that was used before it; no  *)
(* block goes when one that is there is used.                               *)
LEMMA TouchFacts ==
  ASSUME cache \in Caches, NEW mem, Holds(mem), NEW b \in Nat
  PROVE  /\ Holds(Touch(mem, b))
         /\ Touch(mem, b).data \subseteq mem.data
         /\ b \in ToSet(Touch(mem, b).lru)
         /\ Touch(mem, b).lru[Len(Touch(mem, b).lru)] = b
         /\ b \in ToSet(mem.lru) =>
              /\ ToSet(Touch(mem, b).lru) = ToSet(mem.lru)
              /\ Touch(mem, b).data = mem.data
         /\ \A a : /\ a \in ToSet(mem.lru) /\ a = mem.lru[Len(mem.lru)]
                   /\ ~WholeFile
                   => a \in ToSet(Touch(mem, b).lru)
<1> DEFINE N == NumberOfBlocks
           f == Filter(mem.lru, ToSet(mem.lru) \ {b})
           used == Append(f, b)
           evicted == [lru |-> Tail(used),
                       data |-> {p \in mem.data : BlockOf(p) # Head(used)}]
           t == Touch(mem, b)
<1>1. /\ mem = [lru |-> mem.lru, data |-> mem.data]
      /\ mem.lru \in Seq(Nat) /\ IsInjective(mem.lru)
      /\ Len(mem.lru) <= N /\ mem.data \subseteq Nat
      /\ \A p \in mem.data : BlockOf(p) \in ToSet(mem.lru)
  BY DEF Holds
<1>2. /\ f \in Seq(Nat) /\ IsInjective(f)
      /\ ToSet(f) = ToSet(mem.lru) \ {b}
  <2>1. /\ f \in Seq(Nat) /\ IsInjective(f)
        /\ ToSet(f) = ToSet(mem.lru) \cap (ToSet(mem.lru) \ {b})
    BY <1>1, FilterFacts
  <2> HIDE DEF f
  <2> QED
    BY <2>1
<1>3. PICK e : IsPart(f, mem.lru, ToSet(mem.lru) \ {b}, Len(mem.lru), e)
  BY <1>1, FilterIsPart
<1>4. t = IF Len(used) > N THEN evicted ELSE [mem EXCEPT !.lru = used]
  BY DEF Touch
<1> HIDE DEF f
<1>5. /\ used \in Seq(Nat) /\ IsInjective(used) /\ Len(used) = Len(f) + 1
      /\ ToSet(used) = ToSet(mem.lru) \cup {b}
      /\ used[Len(used)] = b /\ used # <<>>
      /\ Len(f) \in Nat /\ \A i \in 1..Len(f) : used[i] = f[i]
  <2>1. b \notin ToSet(f)
    BY <1>2
  <2>2. /\ used \in Seq(Nat) /\ IsInjective(used) /\ Len(used) = Len(f) + 1
        /\ ToSet(used) = ToSet(f) \cup {b}
        /\ used[Len(used)] = b
    BY <1>2, <2>1, AppendFacts
  <2>3. used # <<>> /\ Len(f) \in Nat /\ \A i \in 1..Len(f) : used[i] = f[i]
    BY <1>2
  <2> HIDE DEF used
  <2> QED
    BY <1>2, <2>2, <2>3
<1> HIDE DEF used
<1>6. Len(f) <= Len(mem.lru) /\ N \in Nat \ {0}
  <2>1. IsFiniteSet(ToSet(mem.lru)) /\ Cardinality(ToSet(mem.lru)) = Len(mem.lru)
    BY <1>1, InjectiveLen
  <2>2. Cardinality(ToSet(f)) = Len(f)
    BY <1>2, InjectiveLen
  <2>3. ToSet(f) \in SUBSET ToSet(mem.lru)
    BY <1>2
  <2>4. Cardinality(ToSet(f)) <= Cardinality(ToSet(mem.lru))
    BY <2>1, <2>3, FS_Subset
  <2> QED
    BY <2>1, <2>2, <2>4, BlocksEnough
<1>7. /\ Tail(used) \in Seq(Nat) /\ IsInjective(Tail(used))
      /\ Len(Tail(used)) = Len(used) - 1
      /\ ToSet(Tail(used)) = ToSet(used) \ {Head(used)}
      /\ Head(used) = used[1] /\ Head(used) \in ToSet(used)
      /\ Len(used) > 1 => Tail(used)[Len(used) - 1] = used[Len(used)]
  BY <1>5, TailFacts
<1>8. CASE ~(Len(used) > N)
  <2>1. t = [lru |-> used, data |-> mem.data]
    BY <1>1, <1>4, <1>8
  <2>2. t.lru = used /\ t.data = mem.data
    BY <2>1
  <2>3. Len(used) <= N
    BY <1>5, <1>6, <1>8
  <2>4. Holds(t)
    <3> HIDE DEF t
    <3> QED
      BY <1>1, <1>5, <2>1, <2>2, <2>3 DEF Holds
  <2> HIDE DEF t
  <2>5. b \in ToSet(t.lru) /\ t.lru[Len(t.lru)] = b /\ ToSet(mem.lru) \subseteq ToSet(t.lru)
    BY <1>5, <2>2
  <2>6. b \in ToSet(mem.lru) => ToSet(t.lru) = ToSet(mem.lru)
    BY <1>5, <2>2
  <2> QED
    BY <2>2, <2>4, <2>5, <2>6 DEF t
<1>9. CASE Len(used) > N
  <2>1. t.lru = Tail(used)
        /\ t.data = {p \in mem.data : BlockOf(p) # Head(used)}
        /\ t = [lru |-> t.lru, data |-> t.data]
    BY <1>4, <1>9
  <2> HIDE DEF t
  <2>2. /\ Len(mem.lru) \in Nat /\ Len(f) = N /\ Len(mem.lru) = N
        /\ Len(used) = N + 1 /\ Len(used) > 1
    BY <1>1, <1>5, <1>6, <1>9
  <2>3. Holds(t)
    <3>1. Len(t.lru) <= N
      BY <1>7, <2>1, <2>2
    <3>2. t.data \subseteq Nat
      BY <1>1, <2>1
    <3>3. ASSUME NEW p \in t.data PROVE BlockOf(p) \in ToSet(t.lru)
      <4>1. p \in mem.data /\ BlockOf(p) # Head(used)
        BY <2>1
      <4> QED
        BY <1>1, <1>5, <1>7, <2>1, <4>1
    <3> QED
      BY <1>7, <2>1, <3>1, <3>2, <3>3 DEF Holds
  <2>4. Len(t.lru) = N /\ t.lru[N] = b
    <3>1. Len(used) - 1 = N
      BY <1>6, <2>2
    <3> QED
      BY <1>5, <1>7, <2>1, <2>2, <3>1
  <2>5. b \in ToSet(t.lru)
    <3>1. DOMAIN t.lru = 1..N
      BY <1>7, <2>1, <2>4
    <3>2. N \in 1..N
      BY <1>6
    <3> QED
      BY <2>4, <3>1, <3>2 DEF ToSet
  <2>6. b \notin ToSet(mem.lru)
    <3>1. SUFFICES ASSUME b \in ToSet(mem.lru) PROVE FALSE
      OBVIOUS
    <3>2. ToSet(used) = ToSet(mem.lru)
      BY <1>5, <3>1
    <3>3. Len(used) = Len(mem.lru)
      <4>1. Cardinality(ToSet(mem.lru)) = Len(mem.lru)
        BY <1>1, InjectiveLen
      <4>2. Cardinality(ToSet(used)) = Len(used)
        BY <1>5, InjectiveLen
      <4> QED
        BY <3>2, <4>1, <4>2
    <3> QED
      BY <1>6, <2>2, <3>3
  <2>7. ASSUME NEW a \in ToSet(mem.lru), a = mem.lru[Len(mem.lru)], ~WholeFile
        PROVE  a \in ToSet(t.lru)
    <3>1. N >= 2
      BY <2>7, BlocksEnough
    <3>2. SUFFICES ASSUME a = Head(used) PROVE FALSE
      BY <1>5, <1>7, <2>1
    <3>3. 1 \in 1..Len(f) /\ 2 \in 1..Len(f)
      BY <1>6, <2>2, <3>1
    <3>4. f[1] = mem.lru[Len(mem.lru)]
      BY <1>5, <1>7, <2>7, <3>2, <3>3
    <3>5. /\ mem.lru[e[1]] = f[1] /\ e[1] < e[2]
          /\ e[1] \in 1..Len(mem.lru) /\ e[2] \in 1..Len(mem.lru)
      <4>1. /\ e \in [1..Len(f) -> 1..Len(mem.lru)]
            /\ \A i \in 1..Len(f) : f[i] = mem.lru[e[i]]
            /\ \A i, j \in 1..Len(f) : i < j => e[i] < e[j]
        BY <1>3 DEF IsPart
      <4> QED
        BY <3>3, <4>1
    <3>6. Len(mem.lru) \in DOMAIN mem.lru /\ DOMAIN mem.lru = 1..Len(mem.lru)
      BY <1>1, <2>2, <3>1
    <3>7. e[1] = Len(mem.lru)
      BY <1>1, <3>4, <3>5, <3>6 DEF IsInjective
    <3> QED
      BY <2>2, <3>5, <3>7
  <2>8. t.data \subseteq mem.data
    BY <2>1
  <2>9. t.lru[Len(t.lru)] = b
    BY <2>4
  <2> QED
    BY <2>3, <2>5, <2>6, <2>7, <2>8, <2>9 DEF t
<1> QED
  BY <1>8, <1>9

IsRange(r) == r.from \in Nat /\ r.to \in Nat /\ r.from < r.to

LEMMA TouchAllSteps ==
  ASSUME cache \in Caches, NEW mem, Holds(mem), NEW r, IsRange(r)
  PROVE  LET first == BlockOf(r.from)
             n == BlockOf(r.to - 1) - first + 1
         IN  /\ first \in Nat /\ n \in Nat \ {0}
             /\ \E g : /\ TouchAll(mem, r) = g[n] /\ g[0] = mem
                       /\ \A k \in 1..n :
                            Holds(g[k - 1]) /\ g[k] = Touch(g[k - 1], first + k - 1)
<1> DEFINE first == BlockOf(r.from)
           last == BlockOf(r.to - 1)
           n == last - first + 1
           Is(g) == g = [b \in (first - 1)..last |->
                           IF b < first THEN mem ELSE Touch(g[b - 1], b)]
           h == CHOOSE g : Is(g)
           M == {m \in [lru : Seq(Nat), data : SUBSET Nat] : Holds(m)}
           step == [k \in 1..n |-> [m \in M |-> Touch(m, first + k - 1)]]
<1>1. first \in Nat /\ last \in Nat /\ first <= last
  <2>1. r.from \in Nat /\ r.to - 1 \in Nat /\ r.from <= r.to - 1
    BY DEF IsRange
  <2>2. r.to - 1 <= r.to - 1
    BY <2>1
  <2> QED
    BY <2>1, <2>2, BlockFacts
<1>2. TouchAll(mem, r) = h[last]
  BY DEF TouchAll
<1> HIDE DEF first, last
<1>3. n \in Nat /\ n >= 1
  BY <1>1
<1>4. \A m : Holds(m) <=> m \in M
  <2>1. ASSUME NEW m, Holds(m) PROVE m \in [lru : Seq(Nat), data : SUBSET Nat]
    <3>1. /\ m = [lru |-> m.lru, data |-> m.data]
          /\ m.lru \in Seq(Nat) /\ m.data \in SUBSET Nat
      BY <2>1 DEF Holds
    <3> DEFINE a == m.lru  d == m.data
    <3>2. m = [lru |-> a, data |-> d] /\ a \in Seq(Nat) /\ d \in SUBSET Nat
      BY <3>1
    <3> HIDE DEF a, d
    <3> QED
      BY <3>2
  <2> QED
    BY <2>1
<1> HIDE DEF M, n
<1>5. PICK g : IsSteps(g, n, M, mem, step)
  <2>1. ASSUME NEW k \in 1..n, NEW m \in M PROVE step[k][m] \in M
    <3>1. first + k - 1 \in Nat
      BY <1>1
    <3>2. Touch(m, first + k - 1) \in M
      BY <1>4, <3>1, TouchFacts
    <3> QED
      BY <3>2
  <2> HIDE DEF step
  <2> QED
    BY <1>3, <1>4, <2>1, StepsExist
<1>6. ASSUME NEW k \in 1..n
      PROVE  Holds(g[k - 1]) /\ g[k] = Touch(g[k - 1], first + k - 1)
  <2>1. k - 1 \in 0..n
    BY <1>3
  <2>2. g[k - 1] \in M /\ g[k] = step[k][g[k - 1]]
    <3> HIDE DEF step
    <3> QED
      BY <1>5, <2>1 DEF IsSteps
  <2>3. step[k][g[k - 1]] = Touch(g[k - 1], first + k - 1)
    BY <2>2
  <2> HIDE DEF step
  <2> QED
    BY <1>4, <2>2, <2>3
<1>7. g[0] = mem
  BY <1>5 DEF IsSteps
<1> HIDE DEF step
<1> DEFINE d == [b \in (first - 1)..last |-> g[b - first + 1]]
<1>8. ASSUME NEW b \in (first - 1)..last
      PROVE  d[b] = IF b < first THEN mem ELSE Touch(d[b - 1], b)
  <2>1. CASE b < first
    <3>1. b - first + 1 = 0
      BY <1>1, <2>1
    <3> QED
      BY <1>7, <2>1, <3>1
  <2>2. CASE ~(b < first)
    <3> DEFINE k == b - first + 1
    <3>1. /\ k \in 1..n /\ first + k - 1 = b
          /\ b - 1 \in (first - 1)..last /\ (b - 1) - first + 1 = k - 1
      BY <1>1, <2>2 DEF n
    <3>2. d[b] = g[k] /\ d[b - 1] = g[k - 1]
      BY <3>1
    <3> HIDE DEF k, d
    <3>3. g[k] = Touch(g[k - 1], first + k - 1)
      BY <1>6, <3>1
    <3> QED
      BY <2>2, <3>1, <3>2, <3>3
  <2> QED
    BY <2>1, <2>2
<1>9. d = [b \in (first - 1)..last |-> d[b]]
  OBVIOUS
<1> HIDE DEF d
<1>10. Is(d)
  BY <1>8, <1>9
<1>11. Is(h)
  <2> HIDE DEF Is
  <2> QED
    BY <1>10
<1> HIDE DEF h
<1> DEFINE c == [k \in 0..n |-> h[first + k - 1]]
<1>12. ASSUME NEW b \in (first - 1)..last
       PROVE  h[b] = IF b < first THEN mem ELSE Touch(h[b - 1], b)
  BY <1>11, Zenon
<1>13. h[first - 1] = mem
  <2>1. first - 1 \in (first - 1)..last /\ first - 1 < first
    BY <1>1
  <2> QED
    BY <1>12, <2>1
<1>14. ASSUME NEW k \in 1..n
       PROVE  c[k] = Touch(c[k - 1], first + k - 1)
  <2> DEFINE b == first + k - 1
  <2>1. /\ b \in (first - 1)..last /\ ~(b < first)
        /\ k \in 0..n /\ k - 1 \in 0..n /\ first + (k - 1) - 1 = b - 1
    BY <1>1, <1>3 DEF n
  <2>2. c[k] = h[b] /\ c[k - 1] = h[b - 1]
    BY <2>1
  <2> HIDE DEF c, b
  <2>3. h[b] = Touch(h[b - 1], b)
    BY <1>12, <2>1
  <2> QED
    BY <2>2, <2>3 DEF b
<1>15. c[0] = mem /\ c[n] = h[last]
  <2>1. 0 \in 0..n /\ n \in 0..n /\ first + 0 - 1 = first - 1 /\ first + n - 1 = last
    BY <1>1, <1>3 DEF n
  <2> QED
    BY <1>13, <2>1
<1> HIDE DEF c
<1>16. \A k \in 1..n : Holds(c[k - 1])
  <2> DEFINE B == {k \in 0..n : ~Holds(c[k])}
  <2>1. B = {}
    <3> SUFFICES ASSUME B # {} PROVE FALSE
      OBVIOUS
    <3>1. PICK k \in B : \A j \in B : k <= j
      <4>1. B \in SUBSET Nat
        BY <1>3
      <4> HIDE DEF B
      <4> QED
        BY <4>1, LeastExists
    <3>2. k # 0
      BY <1>15, <3>1
    <3>3. k \in 1..n /\ k - 1 \in 0..n /\ k - 1 \notin B /\ first + k - 1 \in Nat
      BY <1>1, <1>3, <3>1, <3>2
    <3>4. Holds(c[k - 1])
      BY <3>3
    <3>5. Holds(Touch(c[k - 1], first + k - 1))
      BY <3>3, <3>4, TouchFacts
    <3>6. Holds(c[k])
      BY <1>14, <3>3, <3>5
    <3> QED
      BY <3>1, <3>6
  <2> QED
    <3>1. \A k \in 1..n : k - 1 \in 0..n
      BY <1>3
    <3> QED
      BY <2>1, <3>1
<1>17. TouchAll(mem, r) = c[n]
  BY <1>2, <1>15
<1>18. /\ TouchAll(mem, r) = c[n] /\ c[0] = mem
       /\ \A k \in 1..n : Holds(c[k - 1]) /\ c[k] = Touch(c[k - 1], first + k - 1)
  BY <1>14, <1>15, <1>16, <1>17
<1> QED
  BY <1>1, <1>3, <1>18 DEF first, n, last

(* The walk over blocks that are there drops none, and that over a chunk    *)
(* has all of the chunk's blocks at the end.                                *)
LEMMA TouchAllFacts ==
  ASSUME cache \in Caches, NEW mem, Holds(mem), NEW r, IsRange(r)
  PROVE  /\ Holds(TouchAll(mem, r))
         /\ TouchAll(mem, r).data \subseteq mem.data
         /\ Positions(r) \subseteq mem.data =>
              /\ ToSet(TouchAll(mem, r).lru) = ToSet(mem.lru)
              /\ TouchAll(mem, r).data = mem.data
         /\ r.to - r.from <= BlockSize =>
              \A p \in Positions(r) : BlockOf(p) \in ToSet(TouchAll(mem, r).lru)
<1> DEFINE first == BlockOf(r.from)
           last == BlockOf(r.to - 1)
           n == last - first + 1
           t == TouchAll(mem, r)
<1>1. /\ first \in Nat /\ n \in Nat \ {0}
      /\ \E g : /\ t = g[n] /\ g[0] = mem
                /\ \A k \in 1..n :
                     Holds(g[k - 1]) /\ g[k] = Touch(g[k - 1], first + k - 1)
  BY TouchAllSteps
<1>2. PICK g : /\ t = g[n] /\ g[0] = mem
               /\ \A k \in 1..n :
                    Holds(g[k - 1]) /\ g[k] = Touch(g[k - 1], first + k - 1)
  BY <1>1
<1>3. /\ r.from \in Nat /\ r.to - 1 \in Nat /\ r.from <= r.to - 1
      /\ Positions(r) = r.from..(r.to - 1)
  BY DEF IsRange, Positions
<1> HIDE DEF t
<1>4. last \in Nat /\ first \in Nat /\ first <= last
  <2>1. r.to - 1 <= r.to - 1
    BY <1>3
  <2> QED
    BY <1>3, <2>1, BlockFacts
<1>5. ASSUME NEW p \in Positions(r)
      PROVE  BlockOf(p) \in first..last
  <2>1. p \in Nat /\ r.from <= p /\ p <= r.to - 1
    BY <1>3
  <2>2. BlockOf(p) \in Nat /\ first <= BlockOf(p) /\ BlockOf(p) <= last
    BY <1>3, <2>1, BlockFacts
  <2> QED
    BY <1>4, <2>2
<1>6. \A b \in first..last : \E p \in Positions(r) : BlockOf(p) = b
  <2> DEFINE p == r.from  q == r.to - 1
  <2>1. p \in Nat /\ q \in Nat /\ p <= q /\ Positions(r) = p..q
    BY <1>3
  <2> HIDE DEF p, q
  <2>2. \A b \in BlockOf(p)..BlockOf(q) : \E x \in p..q : BlockOf(x) = b
    BY <2>1, BlockFacts
  <2> QED
    BY <2>1, <2>2 DEF p, q
<1>7. /\ r.to - r.from <= BlockSize => last <= first + 1
      /\ WholeFile => first = 0 /\ last = 0
  <2>1. BlockSize \in Nat
    BY FileAssumption
  <2>2. (r.to - 1) - r.from < BlockSize => last <= first + 1
    BY <1>3, BlockFacts
  <2>3. r.to - 1 <= r.to - 1
    BY <1>3
  <2>4. WholeFile => first = 0 /\ last = 0
    BY <1>3, <2>3, BlockFacts
  <2>5. r.to - r.from <= BlockSize => (r.to - 1) - r.from < BlockSize
    BY <2>1 DEF IsRange
  <2> QED
    BY <2>2, <2>4, <2>5
<1> HIDE DEF first, last
<1>8. n \in Nat /\ n >= 1
  BY <1>4
<1> DEFINE Good(k) ==
             /\ Holds(g[k]) /\ g[k].data \subseteq mem.data
             /\ Positions(r) \subseteq mem.data =>
                  ToSet(g[k].lru) = ToSet(mem.lru) /\ g[k].data = mem.data
           B == {k \in 0..n : ~Good(k)}
<1>9. B = {}
  <2> SUFFICES ASSUME B # {} PROVE FALSE
    OBVIOUS
  <2>1. PICK k \in B : \A j \in B : k <= j
    <3>1. B \in SUBSET Nat
      OBVIOUS
    <3> HIDE DEF B
    <3> QED
      BY <3>1, LeastExists
  <2>2. k # 0
    BY <1>2, <2>1
  <2>3. k \in 1..n /\ k - 1 \in 0..n /\ Good(k - 1)
    <3> HIDE DEF Good
    <3> QED
      BY <1>8, <2>1, <2>2
  <2> DEFINE b == first + k - 1
             m == g[k - 1]
  <2>4. b \in Nat /\ b \in first..last
    BY <1>4, <2>3 DEF n
  <2>5. Holds(m) /\ g[k] = Touch(m, b)
    BY <1>2, <2>3
  <2>6. /\ m.data \subseteq mem.data
        /\ Positions(r) \subseteq mem.data =>
             ToSet(m.lru) = ToSet(mem.lru) /\ m.data = mem.data
    BY <2>3
  <2> HIDE DEF b, m
  <2>7. /\ Holds(Touch(m, b)) /\ Touch(m, b).data \subseteq m.data
        /\ b \in ToSet(m.lru) => ToSet(Touch(m, b).lru) = ToSet(m.lru)
                                 /\ Touch(m, b).data = m.data
    BY <2>4, <2>5, TouchFacts
  <2>8. Positions(r) \subseteq mem.data => b \in ToSet(mem.lru)
    <3>1. PICK p \in Positions(r) : BlockOf(p) = b
      BY <1>6, <2>4
    <3> QED
      BY <3>1 DEF Holds
  <2>9. Good(k)
    BY <2>5, <2>6, <2>7, <2>8
  <2> QED
    BY <2>1, <2>9
<1>10. Good(n)
  <2>1. n \in 0..n
    BY <1>8
  <2> HIDE DEF Good
  <2> QED
    BY <1>9, <2>1
<1>11. ASSUME r.to - r.from <= BlockSize, NEW p \in Positions(r)
       PROVE  BlockOf(p) \in ToSet(t.lru)
  <2>1. CASE n = 1
    <3>1. BlockOf(p) = first
      BY <1>4, <1>5, <2>1
    <3>2. 1 \in 1..n /\ first + 1 - 1 = first /\ 1 - 1 = 0
      BY <1>4, <2>1
    <3>3. t = Touch(mem, first)
      BY <1>2, <2>1, <3>2
    <3> QED
      BY <1>4, <3>1, <3>3, TouchFacts
  <2>2. CASE n = 2
    <3> DEFINE m == Touch(mem, first)
    <3>1. /\ 1 \in 1..n /\ first + 1 - 1 = first /\ 1 - 1 = 0
          /\ 2 \in 1..n /\ first + 2 - 1 = first + 1 /\ 2 - 1 = 1
          /\ first + 1 \in Nat
      BY <1>4, <2>2
    <3>2. g[1] = m /\ t = Touch(g[1], first + 1)
      BY <1>2, <2>2, <3>1
    <3>3. Holds(m) /\ first \in ToSet(m.lru) /\ m.lru[Len(m.lru)] = first
      BY <1>4, TouchFacts
    <3> HIDE DEF m
    <3>4. ~WholeFile
      BY <1>4, <1>7, <2>2
    <3>5. first + 1 \in ToSet(t.lru) /\ first \in ToSet(t.lru)
      BY <3>1, <3>2, <3>3, <3>4, TouchFacts
    <3>6. BlockOf(p) = first \/ BlockOf(p) = first + 1
      BY <1>4, <1>5, <2>2
    <3> QED
      BY <3>5, <3>6
  <2>3. n = 1 \/ n = 2
    BY <1>4, <1>7, <1>11
  <2> QED
    BY <2>1, <2>2, <2>3
<1> QED
  BY <1>2, <1>10, <1>11 DEF t

(* Slices of what is there leave the blocks and the data that there are.    *)
LEMMA SliceAllFacts ==
  ASSUME cache \in Caches, NEW mem, Holds(mem), NEW E, NEW ranges \in Seq(E),
         \A r \in E : IsRange(r),
         \A r \in ToSet(ranges) : HasData(r, mem.data)
  PROVE  /\ Holds(SliceAll(mem, ranges))
         /\ ToSet(SliceAll(mem, ranges).lru) = ToSet(mem.lru)
<1> DEFINE n == Len(ranges)
           Is(g) == g = [k \in 0..n |->
                           IF k = 0 THEN mem ELSE TouchAll(g[k - 1], ranges[k])]
           h == CHOOSE g : Is(g)
           Kept(m) == /\ Holds(m) /\ ToSet(m.lru) = ToSet(mem.lru)
                      /\ m.data = mem.data
           M == {m \in [lru : Seq(Nat), data : SUBSET Nat] : Kept(m)}
           step == [k \in 1..n |-> [m \in M |-> TouchAll(m, ranges[k])]]
<1>1. n \in Nat /\ \A k \in 1..n : IsRange(ranges[k]) /\ HasData(ranges[k], mem.data)
  <2>1. \A k \in 1..n : ranges[k] \in E /\ ranges[k] \in ToSet(ranges)
    BY DEF ToSet
  <2> QED
    BY <2>1
<1>2. SliceAll(mem, ranges) = h[n]
  BY DEF SliceAll
<1>3. \A m : Kept(m) <=> m \in M
  <2>1. ASSUME NEW m, Holds(m) PROVE m \in [lru : Seq(Nat), data : SUBSET Nat]
    <3>1. /\ m = [lru |-> m.lru, data |-> m.data]
          /\ m.lru \in Seq(Nat) /\ m.data \in SUBSET Nat
      BY <2>1 DEF Holds
    <3> DEFINE a == m.lru  d == m.data
    <3>2. m = [lru |-> a, data |-> d] /\ a \in Seq(Nat) /\ d \in SUBSET Nat
      BY <3>1
    <3> HIDE DEF a, d
    <3> QED
      BY <3>2
  <2> QED
    BY <2>1
<1>4. ASSUME NEW k \in 1..n, NEW m, Kept(m)
      PROVE  Kept(TouchAll(m, ranges[k]))
  <2>1. IsRange(ranges[k]) /\ Positions(ranges[k]) \subseteq m.data
    BY <1>1, <1>4 DEF HasData
  <2> QED
    BY <1>4, <2>1, TouchAllFacts
<1> HIDE DEF n, M
<1>5. PICK g : IsSteps(g, n, M, mem, step)
  <2>1. ASSUME NEW k \in 1..n, NEW m \in M PROVE step[k][m] \in M
    <3>1. TouchAll(m, ranges[k]) \in M
      BY <1>3, <1>4
    <3> QED
      BY <3>1
  <2>2. mem \in M
    BY <1>3
  <2> HIDE DEF step
  <2> QED
    BY <1>1, <2>1, <2>2, StepsExist
<1>6. g[0] = mem /\ g = [k \in 0..n |-> g[k]]
  BY <1>5 DEF IsSteps
<1>7. ASSUME NEW k \in 1..n PROVE g[k] = TouchAll(g[k - 1], ranges[k])
  <2>1. k - 1 \in 0..n
    BY <1>1
  <2>2. g[k - 1] \in M /\ g[k] = step[k][g[k - 1]]
    <3> HIDE DEF step
    <3> QED
      BY <1>5, <2>1 DEF IsSteps
  <2> QED
    BY <2>2
<1> HIDE DEF step
<1>8. Is(g)
  <2>1. ASSUME NEW k \in 0..n
        PROVE  g[k] = IF k = 0 THEN mem ELSE TouchAll(g[k - 1], ranges[k])
    <3>1. k = 0 \/ (k \in 1..n /\ k # 0)
      BY <1>1
    <3> QED
      BY <1>6, <1>7, <3>1
  <2> QED
    BY <1>6, <2>1
<1>9. Is(h)
  <2> HIDE DEF Is
  <2> QED
    BY <1>8
<1> HIDE DEF h
<1>10. ASSUME NEW k \in 0..n
       PROVE  h[k] = IF k = 0 THEN mem ELSE TouchAll(h[k - 1], ranges[k])
  BY <1>9, Zenon
<1> HIDE DEF Kept
<1> DEFINE B == {k \in 0..n : ~Kept(h[k])}
<1>11. B = {}
  <2> SUFFICES ASSUME B # {} PROVE FALSE
    OBVIOUS
  <2>1. PICK k \in B : \A j \in B : k <= j
    <3>1. B \in SUBSET Nat
      BY <1>1
    <3> HIDE DEF B
    <3> QED
      BY <3>1, LeastExists
  <2>2. k # 0
    <3>1. Kept(mem)
      BY DEF Kept
    <3>2. 0 \in 0..n
      BY <1>1
    <3> QED
      BY <1>10, <2>1, <3>1, <3>2
  <2>3. k \in 1..n /\ k - 1 \in 0..n /\ k - 1 \notin B
    BY <1>1, <2>1, <2>2
  <2>4. Kept(h[k - 1])
    BY <2>3
  <2>5. Kept(TouchAll(h[k - 1], ranges[k]))
    BY <1>4, <2>3, <2>4
  <2>6. Kept(h[k])
    BY <1>10, <2>1, <2>2, <2>5
  <2> QED
    BY <2>1, <2>6
<1>12. Kept(h[n])
  <2>1. n \in 0..n
    BY <1>1
  <2> QED
    BY <1>11, <2>1
<1> QED
  BY <1>2, <1>12 DEF Kept

-----------------------------------------------------------------------------
(* What a new stream is asked for is in the file.                           *)

Ranges == [from : Nat, to : 0..Size]

LEMMA FirstMissingFacts ==
  ASSUME NEW r, r.from \in Nat, r.to \in 0..Size, NEW data \in SUBSET Nat,
         ~HasData(r, data)
  PROVE  /\ FirstMissing(r, data) \in Ranges
         /\ FirstMissing(r, data).from \in Positions(r) \ data
<1> DEFINE S == Positions(r) \ data
           from == Min(S)
           T == {r.to} \cup {p \in data : from < p /\ p < r.to}
           to == Min(T)
<1>1. Size \in Nat
  BY FileAssumption
<1>2. S \in SUBSET Nat /\ S # {}
  BY <1>1 DEF HasData, Positions
<1>3. from \in S
  <2> HIDE DEF S
  <2> QED
    BY <1>2, MinFacts
<1> HIDE DEF from
<1>4. T \in SUBSET Nat /\ r.to \in T
  <2>1. r.to \in Nat
    BY <1>1
  <2> HIDE DEF from
  <2> DEFINE R == {p \in data : from < p /\ p < r.to}
  <2>2. R \subseteq Nat
    OBVIOUS
  <2> HIDE DEF R
  <2>3. {r.to} \cup R \in SUBSET Nat /\ r.to \in {r.to} \cup R
    BY <2>1, <2>2
  <2> QED
    BY <2>3 DEF R
<1>5. to \in Nat /\ to <= r.to
  <2> HIDE DEF T
  <2> QED
    BY <1>4, MinFacts
<1> HIDE DEF to
<1>6. FirstMissing(r, data) = [from |-> from, to |-> to]
  BY DEF FirstMissing, from, to
<1>7. from \in Nat /\ to \in 0..Size
  BY <1>1, <1>2, <1>3, <1>5
<1> QED
  BY <1>3, <1>6, <1>7 DEF Ranges

LEMMA MissingInFile ==
  ASSUME NEW r, r.from \in Nat, r.to \in 0..Size, NEW data \in SUBSET Nat,
         FirstMissing(r, data) # Nil
  PROVE  FirstMissing(r, data) \in Ranges
<1>1. ~HasData(r, data)
  BY DEF FirstMissing
<1> QED
  BY <1>1, FirstMissingFacts

LEMMA MinOfTwo ==
  ASSUME NEW n \in Nat
  PROVE  Min({n, Size}) \in 0..Size
<1>1. Size \in Nat /\ {n, Size} \in SUBSET Nat
  BY FileAssumption
<1>2. Min({n, Size}) \in {n, Size} /\ \A i \in {n, Size} : Min({n, Size}) <= i
  BY <1>1, MinFacts
<1> DEFINE m == Min({n, Size})
<1>3. m \in {n, Size} /\ m <= Size
  BY <1>2
<1> HIDE DEF m
<1>4. m \in 0..Size
  BY <1>1, <1>3
<1> QED
  BY <1>4 DEF m

LEMMA ForRequestFacts ==
  ASSUME cache \in Caches, NEW r, r.from \in Nat, r.to \in 0..Size,
         NEW data \in SUBSET Nat, ~HasData(r, data), NEW left,
         ForRequest(r, left, data) # Nil
  PROVE  ForRequest(r, left, data) \in Ranges
<1> DEFINE gap == FirstMissing(r, data)
           useless == \/ left = Nil
                      \/ Positions(left) \cap (Positions(r) \ data) = {}
                      \/ left.from + Threshold < gap.from
           whole == [gap EXCEPT !.to = Size]
           ahead == [gap EXCEPT !.to = Min({r.from + cache, Size})]
           new == ForRequest(r, left, data)
<1>1. cache \in Nat /\ Size \in Nat
  BY FileAssumption
<1>2. gap \in Ranges /\ gap.from \in Positions(r) \ data
  BY FirstMissingFacts
<1>3. new = CASE ~useless -> Nil
              [] useless /\ WholeFile -> FirstMissing(whole, data)
              [] useless /\ ~WholeFile /\ gap.to = r.to -> ahead
              [] OTHER -> gap
  BY DEF ForRequest
<1> HIDE DEF gap, useless, new
<1>4. gap = [from |-> gap.from, to |-> gap.to] /\ gap.from \in Nat
  BY <1>2 DEF Ranges
<1>5. whole = [from |-> gap.from, to |-> Size]
  BY <1>4
<1>6. ahead \in Ranges
  <2> DEFINE to == Min({r.from + cache, Size})
  <2>1. r.from + cache \in Nat
    BY <1>1
  <2>2. to \in 0..Size
    BY <2>1, MinOfTwo
  <2> HIDE DEF to
  <2>3. [gap EXCEPT !.to = to] = [from |-> gap.from, to |-> to]
    BY <1>4
  <2>4. [gap EXCEPT !.to = to] \in Ranges
    BY <1>4, <2>2, <2>3 DEF Ranges
  <2> QED
    BY <2>4 DEF to
<1> HIDE DEF ahead
<1>7. FirstMissing(whole, data) # Nil => FirstMissing(whole, data) \in Ranges
  <2>1. whole.from \in Nat /\ whole.to \in 0..Size
    BY <1>1, <1>4, <1>5
  <2> HIDE DEF whole
  <2> QED
    BY <2>1, MissingInFile
<1> DEFINE missing == FirstMissing(whole, data)
<1> HIDE DEF missing, whole
<1>8. new = Nil \/ new = missing \/ new = ahead \/ new = gap
  BY <1>3 DEF missing
<1>9. new # Nil
  BY DEF new
<1>10. new \in Ranges
  BY <1>2, <1>6, <1>7, <1>8, <1>9 DEF missing
<1> QED
  BY <1>10 DEF new

LEMMA ReadAheadFacts ==
  ASSUME cache \in Caches, NEW data \in SUBSET Nat, NEW end,
         end # Nil => end \in Nat, ReadAhead(end, data) # Nil
  PROVE  ReadAhead(end, data) \in Ranges
<1> DEFINE from == IF end = Nil THEN 0 ELSE end
           to == IF WholeFile THEN Size ELSE Min({end + cache, Size})
           next == [from |-> from, to |-> to]
           file == [from |-> 0, to |-> Size]
           new == ReadAhead(end, data)
<1>1. cache \in Nat /\ Size \in Nat
  BY FileAssumption
<1>2. new = CASE WholeFile /\ HasData(next, data) -> FirstMissing(file, data)
              [] ~WholeFile /\ end = Nil -> Nil
              [] OTHER -> FirstMissing(next, data)
  BY DEF ReadAhead
<1>3. WholeFile \/ end # Nil => to \in 0..Size
  <2>1. CASE WholeFile
    BY <1>1, <2>1
  <2>2. CASE end # Nil
    <3>1. end + cache \in Nat
      BY <1>1, <2>2
    <3>2. Min({end + cache, Size}) \in 0..Size
      BY <3>1, MinOfTwo
    <3> QED
      BY <1>1, <3>2
  <2> QED
    BY <2>1, <2>2
<1>4. from \in Nat
  OBVIOUS
<1> HIDE DEF from, to
<1>5. file.from \in Nat /\ file.to \in 0..Size
  BY <1>1
<1>6. FirstMissing(file, data) # Nil => FirstMissing(file, data) \in Ranges
  <2> HIDE DEF file
  <2> QED
    BY <1>5, MissingInFile
<1>7. WholeFile \/ end # Nil =>
        (FirstMissing(next, data) # Nil => FirstMissing(next, data) \in Ranges)
  <2>1. next.from = from /\ next.to = to
    OBVIOUS
  <2> HIDE DEF next
  <2> QED
    BY <1>3, <1>4, <2>1, MissingInFile
<1> DEFINE a == FirstMissing(file, data)
           b == FirstMissing(next, data)
<1> HIDE DEF a, b, next, file, new
<1>8. new = a \/ new = Nil \/ (new = b /\ (WholeFile \/ end # Nil))
  BY <1>2 DEF a, b
<1>9. new # Nil
  BY DEF new
<1>10. new \in Ranges
  BY <1>6, <1>7, <1>8, <1>9 DEF a, b
<1> QED
  BY <1>10 DEF new

LEMMA NewConnectionFacts ==
  ASSUME cache \in Caches, NEW data \in SUBSET Nat, NEW end,
         end # Nil => end \in Nat, NEW E, NEW reqs \in Seq(E),
         \A r \in ToSet(reqs) :
           r.from \in Nat /\ r.to \in 0..Size /\ ~HasData(r, data),
         NEW c, NewConnection(reqs, c, data, end) # Nil
  PROVE  NewConnection(reqs, c, data, end) \in Ranges
<1> DEFINE new == NewConnection(reqs, c, data, end)
           a == ForRequest(Head(reqs), Remaining(c), data)
           b == ReadAhead(end, data)
<1>1. new = CASE reqs # <<>> -> a
              [] reqs = <<>> /\ c = Nil -> b
              [] OTHER -> Nil
  BY DEF NewConnection
<1>2. reqs # <<>> /\ a # Nil => a \in Ranges
  <2>1. reqs # <<>> => Head(reqs) \in ToSet(reqs)
    BY DEF ToSet
  <2> QED
    BY <2>1, ForRequestFacts
<1>3. b # Nil => b \in Ranges
  BY ReadAheadFacts
<1> HIDE DEF a, b, new
<1>4. new # Nil
  BY DEF new
<1>5. new \in Ranges
  BY <1>1, <1>2, <1>3, <1>4
<1> QED
  BY <1>5 DEF new

-----------------------------------------------------------------------------
(* The invariant.                                                           *)

Statuses == {"pending", "right", "rejected"}

Request == {r \in [from : Nat, to : 0..Size, id : Nat] : r.from < r.to}

Streams == [from : Nat, to : 0..Size, read : Nat]

(* The bytes are those of the file, in blocks that are there.               *)
Contents(order, buf) ==
  /\ Holds([lru |-> order, data |-> DOMAIN buf])
  /\ DOMAIN buf \subseteq 0..(Size - 1)
  /\ \A p \in DOMAIN buf : buf[p] = p

(* Each pending read has a number of its own, and an answer to come.        *)
Asked(reqs, given) ==
  /\ reqs \in Seq(Request) /\ given \in Seq(Statuses)
  /\ \A r, q \in ToSet(reqs) : r.id = q.id => r = q
  /\ Ids(reqs) \subseteq DOMAIN given

Unanswered(reqs, given) ==
  Ids(reqs) = {i \in DOMAIN given : given[i] = "pending"}

IInv ==
  /\ cache \in Caches
  /\ Contents(lru, buffer)
  /\ Asked(requests, answers)
  /\ ~closed => Unanswered(requests, answers)
  /\ conn # Nil => conn \in Streams
  /\ lastEnd # Nil => lastEnd \in Nat

(* IInv but for what the step leaves alone.                                 *)
Kept ==
  /\ Contents(lru', buffer')
  /\ Asked(requests', answers')
  /\ Unanswered(requests', answers')
  /\ conn' # Nil => conn' \in Streams
  /\ lastEnd' # Nil => lastEnd' \in Nat

LEMMA InitIInv == Init => IInv
<1> SUFFICES ASSUME Init PROVE IInv
  OBVIOUS
<1>1. /\ cache \in Caches /\ buffer = <<>> /\ lru = <<>> /\ requests = <<>>
      /\ answers = <<>> /\ conn = Nil /\ lastEnd = Nil
  BY DEF Init
<1> DEFINE none == <<>>
<1>2. /\ DOMAIN none = {} /\ Len(none) = 0 /\ none \in Seq(Nat)
      /\ none \in Seq(Request) /\ none \in Seq(Statuses)
  OBVIOUS
<1>3. NumberOfBlocks \in Nat
  BY <1>1, BlocksEnough
<1> HIDE DEF none
<1>4. Contents(none, none)
  <2> DEFINE mem == [lru |-> none, data |-> DOMAIN none]
  <2>1. mem.lru = none /\ mem.data = {} /\ mem = [lru |-> mem.lru, data |-> mem.data]
    BY <1>2
  <2> HIDE DEF mem
  <2>2. Holds(mem)
    BY <1>2, <1>3, <2>1 DEF Holds, IsInjective
  <2> QED
    BY <1>2, <2>2 DEF Contents, mem
<1>5. Asked(none, none) /\ Unanswered(none, none)
  <2>1. ToSet(none) = {}
    BY <1>2 DEF ToSet
  <2>2. Ids(none) = {}
    BY <2>1 DEF Ids
  <2> QED
    BY <1>2, <2>1, <2>2 DEF Asked, Unanswered
<1>6. buffer = none /\ lru = none /\ requests = none /\ answers = none
  BY <1>1 DEF none
<1> QED
  BY <1>1, <1>4, <1>5, <1>6 DEF IInv

(* #updateState keeps the invariant: the slices drop no block, and a read   *)
(* that has its data is given the bytes of the file.                        *)
LEMMA UpdateKeeps ==
  ASSUME cache \in Caches, lastEnd # Nil => lastEnd \in Nat,
         NEW reqs, NEW given, NEW c, NEW buf, NEW order,
         Contents(order, buf), Asked(reqs, given), Unanswered(reqs, given),
         c # Nil => c \in Streams,
         UpdateState(reqs, given, c, buf, order)
  PROVE  Kept
<1> DEFINE have == {r \in ToSet(reqs) : HasData(r, DOMAIN buf)}
           ready == Filter(reqs, have)
           rest == Filter(reqs, ToSet(reqs) \ have)
           end == IF ready = <<>> THEN lastEnd ELSE Last(ready).to
           new == NewConnection(rest, c, DOMAIN buf, end)
           mem == [lru |-> order, data |-> DOMAIN buf]
           sliced == SliceAll(mem, ready)
<1>1. /\ requests' = rest
      /\ answers' = [i \in DOMAIN given |->
                       IF i \in Ids(ready)
                       THEN Judge(CHOOSE r \in ToSet(ready) : r.id = i, buf)
                       ELSE given[i]]
      /\ lastEnd' = end
      /\ lru' = sliced.lru
      /\ buffer' = buf
      /\ IF new = Nil THEN conn' = c /\ UNCHANGED late ELSE SetConnection(c, new)
  BY DEF UpdateState
<1>2. /\ Holds(mem) /\ DOMAIN buf \subseteq 0..(Size - 1)
      /\ \A p \in DOMAIN buf : buf[p] = p
      /\ mem.lru = order /\ mem.data = DOMAIN buf
  BY DEF Contents
<1>3. DOMAIN buf \in SUBSET Nat
  BY <1>2 DEF Holds
<1>4. /\ reqs \in Seq(Request) /\ given \in Seq(Statuses)
      /\ \A r, q \in ToSet(reqs) : r.id = q.id => r = q
      /\ Ids(reqs) \subseteq DOMAIN given
  BY DEF Asked
<1>5. /\ ready \in Seq(Request) /\ ToSet(ready) = have
      /\ rest \in Seq(Request) /\ ToSet(rest) = ToSet(reqs) \ have
  <2>1. ready \in Seq(Request) /\ ToSet(ready) = ToSet(reqs) \cap have
    BY <1>4, FilterFacts
  <2>2. /\ rest \in Seq(Request)
        /\ ToSet(rest) = ToSet(reqs) \cap (ToSet(reqs) \ have)
    BY <1>4, FilterFacts
  <2> HIDE DEF ready, rest
  <2> QED
    BY <2>1, <2>2
<1> HIDE DEF ready, rest, end, new, mem, sliced
<1>6. \A r \in Request : IsRange(r) /\ r.from \in Nat /\ r.to \in 0..Size /\ r.to \in Nat
  BY FileAssumption DEF IsRange, Request
<1>7. \A r \in ToSet(reqs) : r \in Request
  BY <1>4 DEF ToSet
<1>8. \A r \in ToSet(ready) : r \in ToSet(reqs) /\ HasData(r, DOMAIN buf)
  BY <1>5
<1>9. \A r \in ToSet(rest) : r \in ToSet(reqs) /\ ~HasData(r, DOMAIN buf)
  BY <1>5
<1>10. Contents(lru', buffer')
  <2>1. Holds(sliced) /\ ToSet(sliced.lru) = ToSet(order)
    BY <1>2, <1>5, <1>6, <1>8, SliceAllFacts DEF sliced
  <2> DEFINE now == [lru |-> sliced.lru, data |-> DOMAIN buf]
  <2>2. /\ now.lru = sliced.lru /\ now.data = DOMAIN buf
        /\ now = [lru |-> now.lru, data |-> now.data]
    OBVIOUS
  <2> HIDE DEF now
  <2>3. Holds(now)
    BY <1>2, <2>1, <2>2 DEF Holds
  <2> QED
    BY <1>1, <1>2, <2>3 DEF Contents, now
<1>11. ASSUME NEW i \in Ids(ready)
       PROVE  Judge(CHOOSE r \in ToSet(ready) : r.id = i, buf) = "right"
  <2> DEFINE q == CHOOSE r \in ToSet(ready) : r.id = i
  <2>1. \E r \in ToSet(ready) : r.id = i
    BY DEF Ids
  <2>2. q \in ToSet(ready)
    BY <2>1
  <2> HIDE DEF q
  <2>3. Positions(q) \subseteq DOMAIN buf
    BY <1>8, <2>2 DEF HasData
  <2>4. Judge(q, buf) = "right"
    BY <1>2, <2>3 DEF Judge
  <2> QED
    BY <2>4 DEF q
<1>12. /\ DOMAIN answers' = DOMAIN given
       /\ \A i \in DOMAIN given :
            answers'[i] = IF i \in Ids(ready) THEN "right" ELSE given[i]
  BY <1>1, <1>11
<1>13. answers' \in Seq(Statuses)
  <2> DEFINE n == Len(given)
  <2>1. DOMAIN given = 1..n /\ n \in Nat /\ \A i \in 1..n : given[i] \in Statuses
    BY <1>4
  <2>2. answers' \in [1..n -> Statuses]
    <3>1. \A i \in 1..n : answers'[i] \in Statuses
      BY <1>12, <2>1 DEF Statuses
    <3>2. answers' = [i \in 1..n |-> answers'[i]]
      <4>1. answers' = [i \in DOMAIN given |-> answers'[i]]
        BY <1>1
      <4> QED
        BY <2>1, <4>1
    <3> QED
      BY <3>1, <3>2
  <2> HIDE DEF n
  <2> QED
    BY <2>1, <2>2
<1>14. Ids(rest) = Ids(reqs) \ Ids(ready)
  <2>1. ASSUME NEW i \in Ids(rest) PROVE i \in Ids(reqs) /\ i \notin Ids(ready)
    <3>1. PICK r \in ToSet(rest) : r.id = i
      BY DEF Ids
    <3>2. r \in ToSet(reqs) /\ ~HasData(r, DOMAIN buf)
      BY <1>9
    <3>3. i \notin Ids(ready)
      <4>1. \A q \in ToSet(ready) : q.id # i
        BY <1>4, <1>8, <3>1, <3>2
      <4> QED
        BY <4>1 DEF Ids
    <3> QED
      BY <3>1, <3>2, <3>3 DEF Ids
  <2>2. ASSUME NEW i \in Ids(reqs), i \notin Ids(ready) PROVE i \in Ids(rest)
    <3>1. PICK r \in ToSet(reqs) : r.id = i
      BY DEF Ids
    <3>2. r \notin ToSet(ready)
      BY <2>2, <3>1 DEF Ids
    <3>3. r \in ToSet(rest)
      BY <1>5, <3>2
    <3> QED
      BY <3>1, <3>3 DEF Ids
  <2> QED
    BY <2>1, <2>2
<1>15. Asked(requests', answers')
  <2>1. \A r, q \in ToSet(rest) : r.id = q.id => r = q
    BY <1>4, <1>9
  <2>2. Ids(rest) \subseteq DOMAIN answers'
    BY <1>4, <1>12, <1>14
  <2> QED
    BY <1>1, <1>5, <1>13, <2>1, <2>2 DEF Asked
<1>16. Unanswered(requests', answers')
  <2>1. Ids(reqs) = {i \in DOMAIN given : given[i] = "pending"}
    BY DEF Unanswered
  <2>2. Ids(rest) = {i \in DOMAIN answers' : answers'[i] = "pending"}
    BY <1>12, <1>14, <2>1
  <2> QED
    BY <1>1, <2>2 DEF Unanswered
<1>17. end # Nil => end \in Nat
  <2>1. CASE ready = <<>>
    BY <2>1 DEF end
  <2>2. CASE ready # <<>>
    <3>1. Last(ready) \in Request
      <4>1. Len(ready) \in 1..Len(ready)
        BY <1>5, <2>2
      <4> QED
        BY <1>5, <4>1 DEF Last
    <3> QED
      BY <1>6, <2>2, <3>1 DEF end
  <2> QED
    BY <2>1, <2>2
<1>18. conn' # Nil => conn' \in Streams
  <2>1. CASE new = Nil
    BY <1>1, <2>1
  <2>2. CASE new # Nil
    <3>1. \A r \in ToSet(rest) :
            r.from \in Nat /\ r.to \in 0..Size /\ ~HasData(r, DOMAIN buf)
      BY <1>6, <1>7, <1>9
    <3>2. new \in Ranges
      BY <1>3, <1>5, <1>17, <2>2, <3>1, NewConnectionFacts DEF new
    <3>3. conn' = [from |-> new.from, to |-> new.to, read |-> 0]
      BY <1>1, <2>2 DEF SetConnection
    <3>4. new.from \in Nat /\ new.to \in 0..Size
      BY <3>2 DEF Ranges
    <3> QED
      BY <3>3, <3>4 DEF Streams
  <2> QED
    BY <2>1, <2>2
<1>19. lastEnd' # Nil => lastEnd' \in Nat
  BY <1>1, <1>17
<1> QED
  BY <1>10, <1>15, <1>16, <1>18, <1>19 DEF Kept

(* From the parts to the whole.                                             *)
LEMMA KeptIInv ==
  ASSUME IInv, Kept, UNCHANGED options
  PROVE  IInv'
<1>1. cache' = cache
  BY DEF options
<1>2. Contents(lru, buffer)'
  BY <1>1 DEF Kept, Contents, Holds, NumberOfBlocks, WholeFile, BlockOf
<1>3. Asked(requests, answers)' /\ Unanswered(requests, answers)'
  BY DEF Kept, Asked, Unanswered, Ids
<1> QED
  BY <1>1, <1>2, <1>3 DEF IInv, Kept

LEMMA ReadKeeps ==
  ASSUME IInv, NEW range \in Reads, Read(range)
  PROVE  IInv'
<1> DEFINE request == [from |-> range.from, to |-> range.to,
                       id |-> Len(answers) + 1]
           reqs == Append(requests, request)
           given == Append(answers, "pending")
           n == Len(answers)
<1>1. /\ requests \in Seq(Request) /\ answers \in Seq(Statuses)
      /\ \A r, q \in ToSet(requests) : r.id = q.id => r = q
      /\ Ids(requests) \subseteq DOMAIN answers
      /\ DOMAIN answers = 1..n /\ n \in Nat
  BY DEF IInv, Asked
<1>2. request \in Request /\ request.id = n + 1
  <2>1. range \in [from : Nat, to : 0..Size] /\ range.from < range.to
    BY FileAssumption
  <2> QED
    BY <1>1, <2>1 DEF Request
<1>3. /\ reqs \in Seq(Request) /\ ToSet(reqs) = ToSet(requests) \cup {request}
      /\ given \in Seq(Statuses) /\ DOMAIN given = 1..(n + 1)
      /\ given[n + 1] = "pending" /\ \A i \in 1..n : given[i] = answers[i]
  <2> HIDE DEF request
  <2>1. "pending" \in Statuses
    BY DEF Statuses
  <2>2. reqs \in Seq(Request) /\ ToSet(reqs) = ToSet(requests) \cup {request}
    <3> DEFINE l == Len(requests)
    <3>1. /\ reqs \in Seq(Request) /\ DOMAIN reqs = 1..(l + 1) /\ l \in Nat
          /\ DOMAIN requests = 1..l /\ reqs[l + 1] = request
          /\ \A i \in 1..l : reqs[i] = requests[i]
      BY <1>1, <1>2
    <3> HIDE DEF l, reqs
    <3>2. /\ \A i \in 1..(l + 1) : i = l + 1 \/ i \in 1..l
          /\ l + 1 \in 1..(l + 1) /\ \A i \in 1..l : i \in 1..(l + 1)
      BY <3>1
    <3>3. /\ ToSet(reqs) = {reqs[i] : i \in 1..(l + 1)}
          /\ ToSet(requests) = {requests[i] : i \in 1..l}
      BY <3>1 DEF ToSet
    <3> QED
      BY <3>1, <3>2, <3>3
  <2>3. /\ given \in Seq(Statuses) /\ DOMAIN given = 1..(n + 1)
        /\ given[n + 1] = "pending" /\ \A i \in 1..n : given[i] = answers[i]
    BY <1>1, <2>1
  <2> QED
    BY <2>2, <2>3
<1> HIDE DEF request, reqs, given
<1>4. Ids(reqs) = Ids(requests) \cup {n + 1}
  BY <1>2, <1>3 DEF Ids
<1>5. n + 1 \notin Ids(requests) /\ n + 1 \in 1..(n + 1) /\ 1..n \subseteq 1..(n + 1)
  BY <1>1
<1>6. Asked(reqs, given)
  <2>1. \A r \in ToSet(requests) : r.id # n + 1
    BY <1>5 DEF Ids
  <2>2. \A r, q \in ToSet(reqs) : r.id = q.id => r = q
    BY <1>1, <1>2, <1>3, <2>1
  <2>3. Ids(reqs) \subseteq DOMAIN given
    BY <1>1, <1>3, <1>4, <1>5
  <2> QED
    BY <1>3, <2>2, <2>3 DEF Asked
<1>7. UNCHANGED <<options, closed>> /\ (~closed \/ closed)
  BY DEF Read
<1>8. CASE ~closed
  <2>1. UpdateState(reqs, given, conn, buffer, lru)
    BY <1>8 DEF Read, reqs, given, request
  <2>2. Unanswered(reqs, given)
    <3>1. Ids(requests) = {i \in DOMAIN answers : answers[i] = "pending"}
      BY <1>8 DEF IInv, Unanswered
    <3>2. \A i \in 1..(n + 1) : i = n + 1 \/ i \in 1..n
      BY <1>1
    <3>3. {i \in DOMAIN given : given[i] = "pending"} = Ids(requests) \cup {n + 1}
      BY <1>1, <1>3, <1>5, <3>1, <3>2
    <3> QED
      BY <1>4, <3>3 DEF Unanswered
  <2>3. Kept
    BY <1>6, <2>1, <2>2, UpdateKeeps DEF IInv
  <2> QED
    BY <1>7, <2>3, KeptIInv
<1>9. CASE closed
  <2>1. /\ requests' = reqs /\ answers' = given
        /\ UNCHANGED <<buffer, lru, conn, late, lastEnd>>
    BY <1>9 DEF Read, reqs, given, request
  <2>2. cache' = cache /\ closed'
    BY <1>7, <1>9 DEF options
  <2>3. Contents(lru, buffer)'
    BY <2>1, <2>2 DEF IInv, Contents, Holds, NumberOfBlocks, WholeFile, BlockOf
  <2>4. Asked(requests, answers)'
    <3>1. Asked(requests', answers')
      BY <1>6, <2>1
    <3> QED
      BY <3>1 DEF Asked, Ids
  <2> QED
    BY <2>1, <2>2, <2>3, <2>4 DEF IInv
<1> QED
  BY <1>8, <1>9

LEMMA DataKeeps ==
  ASSUME IInv, NEW n \in 1..MaxChunk, Data(n)
  PROVE  IInv'
<1> DEFINE at == conn.from + conn.read
           chunk == [from |-> at, to |-> at + n]
           had == [lru |-> lru, data |-> DOMAIN buffer]
           mem == TouchAll(had, chunk)
           bytes == [p \in mem.data \cup Positions(chunk) |->
                       IF p \in Positions(chunk) THEN at + p - at ELSE buffer[p]]
           left == IF HasData(conn, DOMAIN bytes) THEN Nil
                   ELSE [conn EXCEPT !.read = conn.read + n]
<1>1. /\ ~closed /\ conn # Nil /\ at + n <= conn.to
      /\ UpdateState(requests, answers, left, bytes, mem.lru)
      /\ UNCHANGED <<options, closed>>
  BY DEF Data, Receive
<1>2. /\ conn.from \in Nat /\ conn.to \in 0..Size /\ conn.read \in Nat
      /\ conn = [from |-> conn.from, to |-> conn.to, read |-> conn.read]
  BY <1>1 DEF IInv, Streams
<1>3. /\ Size \in Nat /\ BlockSize \in Nat /\ MaxChunk \in Nat
      /\ MaxChunk <= BlockSize
  BY FileAssumption
<1>4. /\ at \in Nat /\ at + n \in Nat /\ at < at + n /\ at + n <= Size
      /\ (at + n) - at <= BlockSize
  BY <1>1, <1>2, <1>3
<1>5. chunk.from = at /\ chunk.to = at + n
  OBVIOUS
<1> HIDE DEF at, chunk
<1>6. IsRange(chunk) /\ chunk.to - chunk.from <= BlockSize
  BY <1>4, <1>5 DEF IsRange
<1>7. Positions(chunk) \subseteq 0..(Size - 1) /\ Positions(chunk) \subseteq Nat
  BY <1>3, <1>4, <1>5 DEF Positions
<1>8. /\ Holds(had) /\ DOMAIN buffer \subseteq 0..(Size - 1)
      /\ \A p \in DOMAIN buffer : buffer[p] = p
      /\ had.data = DOMAIN buffer /\ cache \in Caches
  BY DEF IInv, Contents
<1> HIDE DEF had
<1>9. /\ Holds(mem) /\ mem.data \subseteq DOMAIN buffer
      /\ \A p \in Positions(chunk) : BlockOf(p) \in ToSet(mem.lru)
  BY <1>6, <1>8, TouchAllFacts
<1> HIDE DEF mem
<1>10. Contents(mem.lru, bytes)
  <2>1. DOMAIN bytes = mem.data \cup Positions(chunk)
    OBVIOUS
  <2>2. ASSUME NEW p \in DOMAIN bytes PROVE bytes[p] = p
    <3>1. CASE p \in Positions(chunk)
      <4>1. bytes[p] = at + p - at
        BY <3>1
      <4>2. p \in Nat
        BY <1>7, <3>1
      <4> HIDE DEF bytes
      <4> QED
        BY <1>4, <4>1, <4>2
    <3>2. CASE p \notin Positions(chunk)
      BY <1>8, <1>9, <3>2
    <3> QED
      BY <3>1, <3>2
  <2> HIDE DEF bytes
  <2> DEFINE now == [lru |-> mem.lru, data |-> DOMAIN bytes]
  <2>3. /\ now.lru = mem.lru /\ now.data = DOMAIN bytes
        /\ now = [lru |-> now.lru, data |-> now.data]
    OBVIOUS
  <2> HIDE DEF now
  <2>4. DOMAIN bytes \subseteq 0..(Size - 1) /\ DOMAIN bytes \subseteq Nat
    <3>1. 0..(Size - 1) \subseteq Nat
      BY <1>3
    <3> QED
      BY <1>7, <1>8, <1>9, <2>1, <3>1
  <2>5. Holds(now)
    BY <1>9, <2>1, <2>3, <2>4 DEF Holds
  <2> QED
    BY <2>2, <2>4, <2>5 DEF Contents, now
<1> HIDE DEF bytes
<1>11. left # Nil => left \in Streams
  <2>1. n \in Nat
    BY <1>3
  <2>2. [conn EXCEPT !.read = conn.read + n]
          = [from |-> conn.from, to |-> conn.to, read |-> conn.read + n]
    BY <1>2
  <2>3. [conn EXCEPT !.read = conn.read + n] \in Streams
    BY <1>2, <2>1, <2>2 DEF Streams
  <2> QED
    BY <2>3
<1> HIDE DEF left
<1>12. Kept
  <2>1. Asked(requests, answers) /\ Unanswered(requests, answers)
        /\ (lastEnd # Nil => lastEnd \in Nat)
    BY <1>1 DEF IInv
  <2> QED
    BY <1>1, <1>8, <1>10, <1>11, <2>1, UpdateKeeps
<1> QED
  BY <1>1, <1>12, KeptIInv

LEMMA ErrorKeeps ==
  ASSUME IInv, Error
  PROVE  IInv'
<1>1. ~closed /\ conn # Nil /\ UNCHANGED options
  BY DEF Error
<1>2. CASE /\ closed' = TRUE
           /\ answers' = [i \in DOMAIN answers |->
                            IF i \in Ids(requests) THEN "rejected" ELSE answers[i]]
           /\ UNCHANGED <<buffer, lru, requests, conn, late, lastEnd, errorTime>>
  <2>1. cache' = cache
    BY <1>1 DEF options
  <2>2. Contents(lru, buffer)'
    BY <1>2, <2>1 DEF IInv, Contents, Holds, NumberOfBlocks, WholeFile, BlockOf
  <2>3. DOMAIN answers' = DOMAIN answers /\ answers' \in Seq(Statuses)
    <3> DEFINE n == Len(answers)
    <3>1. /\ DOMAIN answers = 1..n /\ n \in Nat
          /\ \A i \in 1..n : answers[i] \in Statuses
      BY DEF IInv, Asked
    <3>2. answers' \in [1..n -> Statuses]
      BY <1>2, <3>1 DEF Statuses
    <3> HIDE DEF n
    <3> QED
      BY <3>1, <3>2
  <2>4. Asked(requests, answers)'
    BY <1>2, <2>3 DEF IInv, Asked, Ids
  <2> QED
    BY <1>2, <2>1, <2>2, <2>4 DEF IInv
<1>3. CASE UpdateState(requests, answers, Nil, buffer, lru)
  <2>1. Kept
    BY <1>1, <1>3, UpdateKeeps DEF IInv
  <2> QED
    BY <1>1, <2>1, KeptIInv
<1> QED
  BY <1>2, <1>3 DEF Error

LEMMA NextIInv == IInv /\ [Next]_vars => IInv'
<1> SUFFICES ASSUME IInv, [Next]_vars PROVE IInv'
  OBVIOUS
<1>1. ASSUME NEW range \in Reads, Read(range) PROVE IInv'
  BY <1>1, ReadKeeps
<1>2. ASSUME NEW n \in 1..MaxChunk, Data(n) PROVE IInv'
  BY <1>2, DataKeeps
<1>3. CASE Error
  BY <1>3, ErrorKeeps
<1>4. CASE LateData \/ Later \/ UNCHANGED vars
  <2>1. UNCHANGED <<options, buffer, lru, requests, conn, lastEnd, closed, answers>>
    BY <1>4 DEF LateData, Later, vars
  <2>2. cache' = cache
    BY <2>1 DEF options
  <2>3. Contents(lru, buffer)'
    BY <2>1, <2>2 DEF IInv, Contents, Holds, NumberOfBlocks, WholeFile, BlockOf
  <2>4. Asked(requests, answers)' /\ (~closed' => Unanswered(requests, answers)')
    BY <2>1 DEF IInv, Asked, Unanswered, Ids
  <2> QED
    BY <2>1, <2>2, <2>3, <2>4 DEF IInv
<1> QED
  BY <1>1, <1>2, <1>3, <1>4 DEF Next

(* The cache's bytes are those of the file and in blocks that are there,    *)
(* the pending reads are ranges of the file that are not answered, and the  *)
(* streams and what is read ahead stay within it.                           *)
THEOREM Inductive == Spec => []IInv
<1>1. Spec => Init /\ [][Next]_vars
  BY DEF Spec
<1> QED
  BY <1>1, InitIInv, NextIInv, PTL

-----------------------------------------------------------------------------
(* The cache keeps to its blocks and knows which one every byte is in; the  *)
(* pending reads are those that are unanswered.  It rests on two facts: a   *)
(* slice never evicts, as the code claims (SliceAllFacts), and a chunk      *)
(* drops no block that it has just been copied to (TouchAllFacts).          *)
THEOREM BlocksKept == Spec => []TypeOK
<1>1. IInv => TypeOK
  <2> SUFFICES ASSUME IInv PROVE TypeOK
    OBVIOUS
  <2> DEFINE mem == [lru |-> lru, data |-> DOMAIN buffer]
  <2>1. Holds(mem) /\ mem.lru = lru /\ mem.data = DOMAIN buffer
        /\ DOMAIN buffer \subseteq 0..(Size - 1)
    BY DEF IInv, Contents
  <2> HIDE DEF mem
  <2>2. /\ IsInjective(lru) /\ Len(lru) <= NumberOfBlocks
        /\ {BlockOf(p) : p \in DOMAIN buffer} \subseteq ToSet(lru)
    BY <2>1 DEF Holds
  <2>3. ToSet(answers) \subseteq {"pending", "right", "wrong", "rejected"}
    BY DEF IInv, Asked, ToSet, Statuses
  <2>4. ~closed => Ids(requests) = {i \in DOMAIN answers : answers[i] = "pending"}
    BY DEF IInv, Unanswered
  <2> QED
    BY <2>1, <2>2, <2>3, <2>4 DEF TypeOK
<1> QED
  BY <1>1, Inductive, PTL

(* A read is given the bytes of the file at its range, whatever streams     *)
(* were replaced, failed or were late, and whatever blocks were dropped.    *)
THEOREM ReadsAreRight == Spec => []BytesRight
<1>1. IInv => BytesRight
  BY DEF IInv, Asked, ToSet, Statuses, BytesRight
<1> QED
  BY <1>1, Inductive, PTL

=============================================================================
