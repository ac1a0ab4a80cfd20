------------------------ MODULE CachingSource_proofs ------------------------
(***************************************************************************)
(* Proofs that the blocks of CachingSource are apart and complete, that    *)
(* what they hold is counted, and that an iterator over them is the stream *)
(* of messages its user is promised, for every source, every sequence of   *)
(* iterators and every place where one is abandoned.                       *)
(***************************************************************************)
EXTENDS CachingSource, SequenceTheorems, FiniteSetTheorems,
        WellFoundedInduction, TLAPS

-----------------------------------------------------------------------------
(* Least and greatest numbers of sets of natural numbers.  That there is a *)
(* least one is also how facts about numbers are proved by induction:      *)
(* there is no least number they fail for.                                 *)

NatLess == OpToRel(<, Nat)

(* A set of natural numbers has a least element.                           *)
LEMMA LeastExists ==
  ASSUME NEW S \in SUBSET Nat, S # {}
  PROVE  \E i \in S : \A j \in S : i <= j
<1>1. IsWellFoundedOn(NatLess, Nat)
  BY NatLessThanWellFounded DEF NatLess
<1>2. PICK i \in S : \A j \in S : <<j, i>> \notin NatLess
  BY <1>1, WFMin, Zenon
<1>3. ASSUME NEW j \in S PROVE i <= j
  <2>1. <<j, i>> \notin NatLess
    BY <1>2
  <2> QED
    BY <2>1 DEF NatLess, OpToRel
<1> QED
  BY <1>3

(* A bounded set of natural numbers has a greatest one.                    *)
LEMMA GreatestExists ==
  ASSUME NEW n \in Nat, NEW S \in SUBSET (0..n), S # {}
  PROVE  \E i \in S : \A j \in S : j <= i
<1> DEFINE T == {k \in 0..n : n - k \in S}
<1>1. T \in SUBSET Nat
  OBVIOUS
<1>2. T # {}
  <2>1. PICK i \in S : TRUE
    OBVIOUS
  <2> QED
    BY <2>1, n - i \in T
<1>3. PICK k \in T : \A l \in T : k <= l
  <2> HIDE DEF T
  <2> QED
    BY <1>1, <1>2, LeastExists
<1>4. ASSUME NEW j \in S PROVE j <= n - k
  BY <1>3, n - j \in T
<1> QED
  BY <1>3, <1>4

-----------------------------------------------------------------------------
(* Sums of w[1], ..., w[n].                                                *)

IsSum(g, w, n) ==
  g = [s \in SUBSET (1..n) |->
         IF s = {} THEN 0 ELSE g[s \ {Max(s)}] + w[Max(s)]]

SumOf(w, n) == (CHOOSE g : IsSum(g, w, n))[1..n]

(* The greatest element that the folds of sequences remove first.          *)
LEMMA MaxFacts ==
  ASSUME NEW n \in Nat, NEW s \in SUBSET (0..n), s # {}
  PROVE  Max(s) \in s /\ \A i \in s : i <= Max(s)
<1>1. \E i \in s : \A j \in s : i >= j
  BY GreatestExists
<1> QED
  BY <1>1 DEF Max

LEMMA MaxIs ==
  ASSUME NEW n \in Nat, NEW s \in SUBSET (0..n), NEW i \in s,
         \A j \in s : j <= i
  PROVE  Max(s) = i
<1> DEFINE m == Max(s)
<1>1. m \in s /\ \A j \in s : j <= m
  BY MaxFacts
<1> HIDE DEF m
<1>2. m <= i /\ i <= m /\ m \in 0..n /\ i \in 0..n
  BY <1>1
<1>3. m = i
  BY <1>2
<1> QED
  BY <1>3 DEF m

(* The function that the fold computes sums with exists.                   *)
LEMMA SumExists ==
  ASSUME NEW n \in Nat, NEW w
  PROVE  \E g : IsSum(g, w, n)
<1> DEFINE S == {k \in 0..n : ~\E g : IsSum(g, w, k)}
<1>1. S = {}
  <2> SUFFICES ASSUME S # {} PROVE FALSE
    OBVIOUS
  <2>1. PICK k \in S : \A j \in S : k <= j
    <3>1. S \in SUBSET Nat
      OBVIOUS
    <3> HIDE DEF S
    <3> QED
      BY <3>1, LeastExists
  <2>2. CASE k = 0
    <3> DEFINE g == [s \in SUBSET (1..0) |-> 0]
    <3>1. \A s \in SUBSET (1..0) : s = {}
      OBVIOUS
    <3>2. IsSum(g, w, 0)
      BY <3>1 DEF IsSum
    <3> QED
      BY <2>1, <2>2, <3>2
  <2>3. CASE k > 0
    <3>1. PICK g : IsSum(g, w, k - 1)
      BY <2>1, <2>3
    <3> DEFINE h == [s \in SUBSET (1..k) |->
                       IF k \in s THEN g[s \ {k}] + w[k] ELSE g[s]]
    <3>2. \A s \in SUBSET (1..(k - 1)) :
            g[s] = IF s = {} THEN 0 ELSE g[s \ {Max(s)}] + w[Max(s)]
      <4>1. g = [t \in SUBSET (1..(k - 1)) |->
                  IF t = {} THEN 0 ELSE g[t \ {Max(t)}] + w[Max(t)]]
        BY <3>1 DEF IsSum
      <4> QED
        BY <4>1
    <3>3. ASSUME NEW s \in SUBSET (1..k)
          PROVE  h[s] = IF s = {} THEN 0 ELSE h[s \ {Max(s)}] + w[Max(s)]
      <4>1. CASE k \in s
        <5>1. Max(s) = k
          BY <2>1, <4>1, MaxIs
        <5>2. h[s \ {k}] = g[s \ {k}]
          OBVIOUS
        <5> QED
          BY <4>1, <5>1, <5>2
      <4>2. CASE k \notin s /\ s # {}
        <5>1. s \in SUBSET (1..(k - 1))
          BY <2>1, <4>2
        <5>2. h[s] = g[s] /\ h[s \ {Max(s)}] = g[s \ {Max(s)}]
          BY <4>2
        <5> QED
          BY <3>2, <4>2, <5>1, <5>2
      <4>3. CASE s = {}
        <5>1. h[s] = g[s] /\ s \in SUBSET (1..(k - 1))
          BY <4>3
        <5> QED
          BY <3>2, <4>3, <5>1
      <4> QED
        BY <4>1, <4>2, <4>3
    <3>4. h = [s \in SUBSET (1..k) |->
                 IF s = {} THEN 0 ELSE h[s \ {Max(s)}] + w[Max(s)]]
      <4>1. h = [s \in SUBSET (1..k) |-> h[s]]
        OBVIOUS
      <4> HIDE DEF h
      <4> QED
        BY <3>3, <4>1
    <3>5. IsSum(h, w, k)
      BY <3>4 DEF IsSum
    <3> QED
      BY <2>1, <3>5
  <2> QED
    BY <2>1, <2>2, <2>3
<1> QED
  BY <1>1


LEMMA SumStep ==
  ASSUME NEW n \in Nat, NEW g, NEW w, IsSum(g, w, n), NEW k \in 1..n
  PROVE  g[1..k] = g[1..(k - 1)] + w[k]
<1>1. g = [s \in SUBSET (1..n) |->
             IF s = {} THEN 0 ELSE g[s \ {Max(s)}] + w[Max(s)]]
  BY DEF IsSum
<1>2. 1..k \in SUBSET (1..n) /\ 1..k # {}
  OBVIOUS
<1>3. g[1..k] = g[(1..k) \ {Max(1..k)}] + w[Max(1..k)]
  BY <1>1, <1>2
<1>4. Max(1..k) = k
  <2>1. 1..k \in SUBSET (0..n) /\ k \in 1..k /\ \A j \in 1..k : j <= k
    OBVIOUS
  <2> QED
    BY <2>1, MaxIs
<1>5. (1..k) \ {k} = 1..(k - 1)
  OBVIOUS
<1> QED
  BY <1>3, <1>4, <1>5

LEMMA SumNone ==
  ASSUME NEW n \in Nat, NEW g, NEW w, IsSum(g, w, n)
  PROVE  g[1..0] = 0
<1>1. g = [s \in SUBSET (1..n) |->
             IF s = {} THEN 0 ELSE g[s \ {Max(s)}] + w[Max(s)]]
  BY DEF IsSum
<1>2. 1..0 = {} /\ {} \in SUBSET (1..n)
  OBVIOUS
<1> QED
  BY <1>1, <1>2

(* Sums of what agrees so far agree so far. *)
LEMMA SumsAgree ==
  ASSUME NEW n \in Nat, NEW m \in Nat, NEW g, NEW h, NEW v, NEW w,
         IsSum(g, v, n), IsSum(h, w, m), NEW l \in Nat,
         l <= n, l <= m, \A k \in 1..l : v[k] = w[k]
  PROVE  g[1..l] = h[1..l]
<1> DEFINE S == {k \in 0..l : g[1..k] # h[1..k]}
<1> SUFFICES S = {}
  OBVIOUS
<1> SUFFICES ASSUME S # {} PROVE FALSE
  OBVIOUS
<1>1. PICK k \in S : \A j \in S : k <= j
  <2>1. S \in SUBSET Nat
    OBVIOUS
  <2> HIDE DEF S
  <2> QED
    BY <2>1, LeastExists
<1>2. CASE k = 0
  BY <1>1, <1>2, SumNone
<1>3. CASE k > 0
  <2>1. g[1..(k - 1)] = h[1..(k - 1)]
    BY <1>1, <1>3
  <2>2. k \in 1..n /\ k \in 1..m /\ k \in 1..l
    BY <1>3
  <2>3. g[1..k] = g[1..(k - 1)] + v[k]
    BY <2>2, SumStep
  <2>4. h[1..k] = h[1..(k - 1)] + w[k]
    BY <2>2, SumStep
  <2> QED
    BY <1>1, <2>1, <2>2, <2>3, <2>4
<1> QED
  BY <1>1, <1>2, <1>3

(* A fold that adds up w is its sum. *)
LEMMA SumIs ==
  ASSUME NEW n \in Nat, NEW g, NEW w, IsSum(g, w, n)
  PROVE  g[1..n] = SumOf(w, n)
<1> DEFINE h == CHOOSE h : IsSum(h, w, n)
<1>1. IsSum(h, w, n)
  BY SumExists
<1>2. SumOf(w, n) = h[1..n]
  BY DEF SumOf
<1> HIDE DEF h
<1> QED
  BY <1>1, <1>2, SumsAgree

LEMMA SumFacts ==
  ASSUME NEW n \in Nat, NEW w
  PROVE  /\ SumOf(w, 0) = 0
         /\ SumOf(w, n + 1) = SumOf(w, n) + w[n + 1]
         /\ \A v : (\A k \in 1..n : v[k] = w[k]) => SumOf(v, n) = SumOf(w, n)
<1>1. SumOf(w, 0) = 0
  <2>1. PICK g : IsSum(g, w, 0)
    BY SumExists
  <2> QED
    BY <2>1, SumNone, SumIs
<1>2. SumOf(w, n + 1) = SumOf(w, n) + w[n + 1]
  <2>1. PICK g : IsSum(g, w, n)
    BY SumExists
  <2>2. PICK h : IsSum(h, w, n + 1)
    BY SumExists
  <2>3. g[1..n] = SumOf(w, n) /\ h[1..(n + 1)] = SumOf(w, n + 1)
    BY <2>1, <2>2, SumIs
  <2>4. h[1..n] = g[1..n]
    BY <2>1, <2>2, SumsAgree
  <2>5. h[1..(n + 1)] = h[1..((n + 1) - 1)] + w[n + 1]
    <3>1. n + 1 \in Nat /\ n + 1 \in 1..(n + 1)
      OBVIOUS
    <3> QED
      BY <2>2, <3>1, SumStep
  <2>6. (n + 1) - 1 = n
    OBVIOUS
  <2> QED
    BY <2>3, <2>4, <2>5, <2>6
<1>3. ASSUME NEW v, \A k \in 1..n : v[k] = w[k]
      PROVE  SumOf(v, n) = SumOf(w, n)
  <2>1. PICK g : IsSum(g, v, n)
    BY SumExists
  <2>2. PICK h : IsSum(h, w, n)
    BY SumExists
  <2>3. g[1..n] = SumOf(v, n) /\ h[1..n] = SumOf(w, n)
    BY <2>1, <2>2, SumIs
  <2>4. h[1..n] = g[1..n]
    BY <1>3, <2>1, <2>2, SumsAgree
  <2> QED
    BY <2>3, <2>4
<1> QED
  BY <1>1, <1>2, <1>3

(* A sum of natural numbers is one. *)
LEMMA SumNat ==
  ASSUME NEW n \in Nat, NEW w, \A k \in 1..n : w[k] \in Nat
  PROVE  SumOf(w, n) \in Nat
<1> DEFINE S == {k \in 0..n : SumOf(w, k) \notin Nat}
<1> SUFFICES ASSUME S # {} PROVE FALSE
  OBVIOUS
<1>1. PICK k \in S : \A j \in S : k <= j
  <2>1. S \in SUBSET Nat
    OBVIOUS
  <2> HIDE DEF S
  <2> QED
    BY <2>1, LeastExists
<1>2. CASE k = 0
  BY <1>1, <1>2, SumFacts
<1>3. CASE k > 0
  <2>1. k - 1 \in Nat /\ k - 1 \notin S /\ k - 1 \in 0..n /\ w[k] \in Nat
    BY <1>1, <1>3
  <2>2. SumOf(w, (k - 1) + 1) = SumOf(w, k - 1) + w[(k - 1) + 1]
    BY <2>1, SumFacts
  <2> QED
    BY <1>1, <1>3, <2>1, <2>2
<1> QED
  BY <1>1, <1>2, <1>3

(* A term put in at place i or, read the other way, taken out:             *)
(* w[1], ..., w[n] is v[1], ..., v[n + 1] without v[i].                    *)
Without(v, w, i, n) ==
  \A k \in 1..n : w[k] = IF k < i THEN v[k] ELSE v[k + 1]

LEMMA SumInsert ==
  ASSUME NEW n \in Nat, NEW l, l = n + 1, NEW i \in 1..l, NEW v, NEW w,
         \A k \in 1..l : v[k] \in Nat,
         Without(v, w, i, n)
  PROVE  SumOf(v, l) = SumOf(w, n) + v[i]
<1> SUFFICES ASSUME \A k \in 1..n : k < i => w[k] = v[k],
                    \A k \in 1..n : k >= i => w[k] = v[k + 1]
             PROVE  SumOf(v, n + 1) = SumOf(w, n) + v[i]
  BY DEF Without
<1> DEFINE S == {k \in 0..n : k >= i - 1 /\ SumOf(v, k + 1) # SumOf(w, k) + v[i]}
<1>1. ASSUME NEW k \in 0..n
      PROVE  SumOf(v, k) \in Nat /\ SumOf(w, k) \in Nat
  BY SumNat
<1>2. S = {}
  <2> SUFFICES ASSUME S # {} PROVE FALSE
    OBVIOUS
  <2>1. PICK k \in S : \A j \in S : k <= j
    <3>1. S \in SUBSET Nat
      OBVIOUS
    <3> HIDE DEF S
    <3> QED
      BY <3>1, LeastExists
  <2>2. k \in 0..n /\ k >= i - 1 /\ SumOf(v, k + 1) # SumOf(w, k) + v[i]
    BY <2>1
  <2>3. SumOf(v, k + 1) = SumOf(v, k) + v[k + 1]
    BY <2>2, SumFacts
  <2>4. CASE k = i - 1
    <3>1. \A j \in 1..k : v[j] = w[j]
      BY <2>2, <2>4
    <3>2. SumOf(v, k) = SumOf(w, k)
      BY <2>2, <3>1, SumFacts
    <3> QED
      BY <2>2, <2>3, <2>4, <3>2
  <2>5. CASE k > i - 1
    <3>1. k - 1 \in 0..n /\ k - 1 \notin S /\ k - 1 >= i - 1 /\ k - 1 < k
      BY <2>1, <2>2, <2>5
    <3>2. (k - 1) + 1 = k
      BY <2>2
    <3>3. SumOf(v, k) = SumOf(w, k - 1) + v[i]
      BY <3>1, <3>2
    <3>4. SumOf(w, (k - 1) + 1) = SumOf(w, k - 1) + w[(k - 1) + 1]
      BY <3>1, SumFacts
    <3>5. w[k] = v[k + 1] /\ v[k + 1] \in Nat /\ v[i] \in Nat
      BY <2>2, <2>5
    <3>6. SumOf(w, k - 1) \in Nat
      BY <1>1, <3>1
    <3> QED
      BY <2>2, <2>3, <3>2, <3>3, <3>4, <3>5, <3>6
  <2> QED
    BY <2>2, <2>4, <2>5
<1>3. n \in 0..n /\ n >= i - 1
  OBVIOUS
<1> QED
  BY <1>2, <1>3

(* The sum of terms followed by others. *)
LEMMA SumConcat ==
  ASSUME NEW n \in Nat, NEW m \in Nat, NEW l, l = n + m,
         NEW u, NEW v, NEW w,
         \A k \in 1..l : w[k] \in Nat,
         \A k \in 1..n : w[k] = u[k],
         \A k \in 1..m : w[n + k] = v[k]
  PROVE  SumOf(w, l) = SumOf(u, n) + SumOf(v, m)
<1>0. SUFFICES SumOf(w, n + m) = SumOf(u, n) + SumOf(v, m)
  OBVIOUS
<1> DEFINE S == {k \in 0..m : SumOf(w, n + k) # SumOf(u, n) + SumOf(v, k)}
<1>1. /\ SumOf(w, n) = SumOf(u, n) /\ SumOf(w, n) \in Nat
      /\ \A k \in 1..m : v[k] \in Nat
  <2>1. SumOf(w, n) = SumOf(u, n)
    BY SumFacts
  <2>2. \A k \in 1..n : w[k] \in Nat
    OBVIOUS
  <2>3. ASSUME NEW k \in 1..m PROVE v[k] \in Nat
    <3>1. n + k \in 1..(n + m) /\ v[k] = w[n + k]
      OBVIOUS
    <3> QED
      BY <3>1
  <2> QED
    BY <2>1, <2>2, <2>3, SumNat
<1>2. S = {}
  <2> SUFFICES ASSUME S # {} PROVE FALSE
    OBVIOUS
  <2>1. PICK k \in S : \A j \in S : k <= j
    <3>1. S \in SUBSET Nat
      OBVIOUS
    <3> HIDE DEF S
    <3> QED
      BY <3>1, LeastExists
  <2>2. k \in 0..m /\ SumOf(w, n + k) # SumOf(u, n) + SumOf(v, k)
    BY <2>1
  <2>3. k # 0
    <3>1. SumOf(v, 0) = 0 /\ n + 0 = n
      BY SumFacts
    <3> QED
      BY <1>1, <2>2, <3>1
  <2>4. k - 1 \in Nat /\ k - 1 \in 0..m /\ k - 1 < k /\ k \in 1..m
    BY <2>2, <2>3
  <2>5. SumOf(w, n + (k - 1)) = SumOf(u, n) + SumOf(v, k - 1)
    BY <2>1, <2>4
  <2>6. /\ n + (k - 1) \in Nat /\ (n + (k - 1)) + 1 = n + k
        /\ (k - 1) + 1 = k
    BY <2>4
  <2>7. SumOf(w, (n + (k - 1)) + 1) = SumOf(w, n + (k - 1)) + w[n + k]
    BY <2>6, SumFacts
  <2>8. SumOf(v, (k - 1) + 1) = SumOf(v, k - 1) + v[k]
    BY <2>4, <2>6, SumFacts
  <2>9. SumOf(v, k - 1) \in Nat /\ w[n + k] = v[k] /\ v[k] \in Nat
    BY <1>1, <2>4, SumNat
  <2> QED
    BY <1>1, <2>2, <2>5, <2>6, <2>7, <2>8, <2>9
<1>3. m \in 0..m
  OBVIOUS
<1> QED
  BY <1>2, <1>3

-----------------------------------------------------------------------------
Item == [time : 0..End, index : 1..Len(Source)]

Block == [start : 0..End, end : 0..End, items : Seq(Item), size : Nat]

(* The parts of the assumption that say of what sort things are. *)
LEMMA ConstantFacts ==
  /\ Len(Source) \in Nat /\ End \in Nat
  /\ Starts \subseteq 0..End /\ Ends \subseteq 0..End
  /\ MaxBlockSize \in Nat \ {0} /\ MaxTotalSize \in Nat
  BY CachingAssumption

LEMMA SourceFacts ==
  ASSUME NEW i \in 1..Len(Source)
  PROVE  Source[i].time \in 0..End /\ Source[i].size \in Nat
  BY CachingAssumption

LEMMA BlockFacts ==
  ASSUME NEW b \in Block
  PROVE  /\ b.start \in 0..End /\ b.end \in 0..End
         /\ b.start \in Nat /\ b.end \in Nat
         /\ b.items \in Seq(Item) /\ b.size \in Nat
<1>1. /\ b.start \in 0..End /\ b.end \in 0..End
      /\ b.items \in Seq(Item) /\ b.size \in Nat
  BY DEF Block
<1>2. \A t \in 0..End : t \in Nat
  OBVIOUS
<1> QED
  BY <1>1, <1>2

LEMMA BlocksFacts ==
  ASSUME NEW s \in Seq(Block), NEW k \in 1..Len(s)
  PROVE  /\ s[k] \in Block
         /\ s[k].start \in 0..End /\ s[k].end \in 0..End
         /\ s[k].start \in Nat /\ s[k].end \in Nat
         /\ s[k].items \in Seq(Item) /\ s[k].size \in Nat
<1>1. s[k] \in Block
  OBVIOUS
<1> QED
  BY <1>1, BlockFacts

-----------------------------------------------------------------------------
(* Sequences.                                                               *)

(* What InsertAt returns. *)
LEMMA InsertFacts ==
  ASSUME NEW S, NEW s \in Seq(S), NEW e \in S, NEW i \in 1..(Len(s) + 1)
  PROVE  /\ InsertAt(s, i, e) \in Seq(S)
         /\ Len(InsertAt(s, i, e)) = Len(s) + 1
         /\ \A k \in 1..(Len(s) + 1) :
              InsertAt(s, i, e)[k] = IF k < i THEN s[k]
                                     ELSE IF k = i THEN e ELSE s[k - 1]
<1> DEFINE r == SubSeq(s, 1, i - 1)  t == SubSeq(s, i, Len(s))
<1>1. /\ r \in Seq(S) /\ Len(r) = i - 1 /\ \A k \in 1..(i - 1) : r[k] = s[k]
      /\ t \in Seq(S) /\ Len(t) = Len(s) - i + 1
      /\ \A k \in 1..(Len(s) - i + 1) : t[k] = s[i + k - 1]
  OBVIOUS
<1> HIDE DEF r, t
<1> DEFINE q == r \o <<e>>
<1>2. /\ q \in Seq(S) /\ Len(q) = i
      /\ \A k \in 1..i : q[k] = IF k < i THEN s[k] ELSE e
  BY <1>1
<1>3. InsertAt(s, i, e) = q \o t
  BY DEF InsertAt, r, t
<1> HIDE DEF q
<1>4. /\ q \o t \in Seq(S) /\ Len(q \o t) = Len(s) + 1
      /\ \A k \in 1..(Len(s) + 1) :
           (q \o t)[k] = IF k <= i THEN q[k] ELSE t[k - i]
  <2>1. Len(q) + Len(t) = Len(s) + 1
    BY <1>1, <1>2
  <2> QED
    BY <1>1, <1>2, <2>1, ConcatProperties
<1>5. ASSUME NEW k \in 1..(Len(s) + 1), k > i PROVE t[k - i] = s[k - 1]
  <2>1. k - i \in 1..(Len(s) - i + 1) /\ i + (k - i) - 1 = k - 1
    BY <1>5
  <2> QED
    BY <1>1, <2>1
<1>6. ASSUME NEW k \in 1..(Len(s) + 1)
      PROVE  InsertAt(s, i, e)[k] = IF k < i THEN s[k]
                                    ELSE IF k = i THEN e ELSE s[k - 1]
  BY <1>2, <1>3, <1>4, <1>5
<1> QED
  BY <1>3, <1>4, <1>6

(* What RemoveAt returns. *)
LEMMA RemoveFacts ==
  ASSUME NEW S, NEW s \in Seq(S), NEW i \in 1..Len(s)
  PROVE  /\ RemoveAt(s, i) \in Seq(S)
         /\ Len(RemoveAt(s, i)) = Len(s) - 1
         /\ \A k \in 1..(Len(s) - 1) :
              RemoveAt(s, i)[k] = IF k < i THEN s[k] ELSE s[k + 1]
<1> DEFINE r == SubSeq(s, 1, i - 1)  t == SubSeq(s, i + 1, Len(s))
<1>1. /\ r \in Seq(S) /\ Len(r) = i - 1 /\ \A k \in 1..(i - 1) : r[k] = s[k]
      /\ t \in Seq(S) /\ Len(t) = Len(s) - i
      /\ \A k \in 1..(Len(s) - i) : t[k] = s[i + k]
  OBVIOUS
<1>2. RemoveAt(s, i) = r \o t
  BY DEF RemoveAt
<1> HIDE DEF r, t
<1>3. /\ r \o t \in Seq(S) /\ Len(r \o t) = Len(s) - 1
      /\ \A k \in 1..(Len(s) - 1) :
           (r \o t)[k] = IF k <= i - 1 THEN r[k] ELSE t[k - (i - 1)]
  <2>1. Len(r) + Len(t) = Len(s) - 1
    BY <1>1
  <2>2. /\ r \o t \in Seq(S) /\ Len(r \o t) = Len(r) + Len(t)
        /\ \A k \in 1..(Len(r) + Len(t)) :
             (r \o t)[k] = IF k <= Len(r) THEN r[k] ELSE t[k - Len(r)]
    BY <1>1, ConcatProperties
  <2>3. Len(r) = i - 1
    BY <1>1
  <2> QED
    BY <2>1, <2>2, <2>3
<1>4. ASSUME NEW k \in 1..(Len(s) - 1), k >= i
      PROVE  t[k - (i - 1)] = s[k + 1]
  <2>1. k - (i - 1) \in 1..(Len(s) - i) /\ i + (k - (i - 1)) = k + 1
    BY <1>4
  <2> QED
    BY <1>1, <2>1
<1>5. ASSUME NEW k \in 1..(Len(s) - 1)
      PROVE  RemoveAt(s, i)[k] = IF k < i THEN s[k] ELSE s[k + 1]
  <2>1. CASE k < i
    BY <1>1, <1>2, <1>3, <2>1
  <2>2. CASE k >= i
    BY <1>2, <1>3, <1>4, <2>2
  <2> QED
    BY <2>1, <2>2
<1> QED
  BY <1>2, <1>3, <1>5

(* What Reverse returns. *)
LEMMA ReverseFacts ==
  ASSUME NEW S, NEW s \in Seq(S)
  PROVE  Reverse(s) \in Seq(S) /\ Len(Reverse(s)) = Len(s)
  BY DEF Reverse

(* Append, as the facts about concatenation know it. *)
LEMMA AppendIs ==
  ASSUME NEW S, NEW s \in Seq(S), NEW e \in S
  PROVE  Append(s, e) = s \o <<e>> /\ Append(s, e) \in Seq(S)
  OBVIOUS

-----------------------------------------------------------------------------
(* Searches.                                                                *)

(* What findIndex returns when anything satisfies the test. *)
LEMMA LeastFacts ==
  ASSUME NEW n \in Nat, NEW S \in SUBSET (1..n), S # {}
  PROVE  Least(S) \in S /\ \A j \in S : Least(S) <= j
<1>1. S \in SUBSET Nat
  OBVIOUS
<1>2. \E i \in S : \A j \in S : i <= j
  BY <1>1, LeastExists
<1> QED
  BY <1>2 DEF Least

LEMMA IndexOfFacts ==
  ASSUME NEW s \in Seq(Block), NEW t
  PROVE  \/ /\ IndexOf(s, t) = 0
            /\ \A k \in 1..Len(s) : s[k].start # t
         \/ /\ IndexOf(s, t) \in 1..Len(s)
            /\ s[IndexOf(s, t)].start = t
<1> DEFINE found == {k \in 1..Len(s) : s[k].start = t}
<1>1. IndexOf(s, t) = IF found = {} THEN 0 ELSE Least(found)
  BY DEF IndexOf, FirstIndex, Least
<1>2. found # {} => Least(found) \in found
  <2>1. found \in SUBSET (1..Len(s)) /\ Len(s) \in Nat
    OBVIOUS
  <2> HIDE DEF found
  <2> QED
    BY <2>1, LeastFacts
<1> QED
  BY <1>1, <1>2

LEMMA BlockAtFacts ==
  ASSUME cache \in Seq(Block), NEW t
  PROVE  \/ /\ BlockAt(t) = 0
            /\ \A k \in 1..Len(cache) : ~Covers(cache[k], t)
         \/ /\ BlockAt(t) \in 1..Len(cache)
            /\ Covers(cache[BlockAt(t)], t)
<1> DEFINE found == {k \in 1..Len(cache) : Covers(cache[k], t)}
<1>1. BlockAt(t) = IF found = {} THEN 0 ELSE Least(found)
  BY DEF BlockAt, FirstIndex, Least
<1>2. found # {} => Least(found) \in found
  <2>1. found \in SUBSET (1..Len(cache)) /\ Len(cache) \in Nat
    OBVIOUS
  <2> HIDE DEF found
  <2> QED
    BY <2>1, LeastFacts
<1> QED
  BY <1>1, <1>2

LEMMA BlockAfterFacts ==
  ASSUME cache \in Seq(Block), NEW t
  PROVE  \/ /\ BlockAfter(t) = 0
            /\ \A k \in 1..Len(cache) : ~(t < cache[k].start)
         \/ /\ BlockAfter(t) \in 1..Len(cache)
            /\ t < cache[BlockAfter(t)].start
            /\ \A k \in 1..Len(cache) :
                 t < cache[k].start => BlockAfter(t) <= k
<1> DEFINE found == {k \in 1..Len(cache) : t < cache[k].start}
<1>1. BlockAfter(t) = IF found = {} THEN 0 ELSE Least(found)
  BY DEF BlockAfter, FirstIndex, Least
<1>2. found # {} =>
        Least(found) \in found /\ \A j \in found : Least(found) <= j
  <2>1. found \in SUBSET (1..Len(cache)) /\ Len(cache) \in Nat
    OBVIOUS
  <2> HIDE DEF found
  <2> QED
    BY <2>1, LeastFacts
<1> QED
  BY <1>1, <1>2

LEMMA StartItemFacts ==
  ASSUME NEW b \in Block
  PROVE  FindStartItem(b) \in Nat \ {0}
<1> DEFINE found == {k \in 1..Len(b.items) : b.items[k].time >= readHead}
<1>1. FirstIndex(b.items, LAMBDA x : x.time >= readHead)
        = IF found = {} THEN 0 ELSE Least(found)
  BY DEF FirstIndex, Least
<1>2. Len(b.items) \in Nat
  BY DEF Block
<1>3. found # {} => Least(found) \in found
  BY <1>2, LeastFacts
<1> QED
  BY <1>1, <1>2, <1>3 DEF FindStartItem

(* Where Inserted puts a block: after those that start before it. *)
LEMMA InsertedIs ==
  ASSUME NEW s \in Seq(Block), NEW b \in Block
  PROVE  \E k \in 1..(Len(s) + 1) :
           /\ Inserted(s, b) = InsertAt(s, k, b)
           /\ \A l \in 1..Len(s) : l < k => s[l].start < b.start
           /\ k <= Len(s) => s[k].start >= b.start
<1> DEFINE found == {k \in 1..Len(s) : s[k].start >= b.start}
           k == FirstIndex(s, LAMBDA other : other.start >= b.start)
<1>1. k = IF found = {} THEN 0 ELSE Least(found)
  BY DEF FirstIndex, Least
<1>2. found # {} =>
        Least(found) \in found /\ \A j \in found : Least(found) <= j
  <2>1. found \in SUBSET (1..Len(s)) /\ Len(s) \in Nat
    OBVIOUS
  <2> HIDE DEF found
  <2> QED
    BY <2>1, LeastFacts
<1>3. \A l \in 1..Len(s) : s[l].start \in Int
  BY BlocksFacts
<1>4. b.start \in Int
  BY DEF Block
<1>5. Inserted(s, b) = InsertAt(s, IF k = 0 THEN Len(s) + 1 ELSE k, b)
  BY DEF Inserted
<1> HIDE DEF k
<1>6. CASE found = {}
  <2>1. \A l \in 1..Len(s) : s[l].start < b.start
    BY <1>3, <1>4, <1>6
  <2>2. Inserted(s, b) = InsertAt(s, Len(s) + 1, b)
    BY <1>1, <1>5, <1>6
  <2>3. Len(s) + 1 \in 1..(Len(s) + 1) /\ ~(Len(s) + 1 <= Len(s))
    OBVIOUS
  <2> QED
    BY <2>1, <2>2, <2>3
<1>7. CASE found # {}
  <2>1. k \in found /\ \A j \in found : k <= j
    BY <1>1, <1>2, <1>7
  <2>2. k \in 1..(Len(s) + 1) /\ s[k].start >= b.start
    BY <2>1
  <2>3. Inserted(s, b) = InsertAt(s, k, b)
    BY <1>5, <2>1
  <2>4. ASSUME NEW l \in 1..Len(s), l < k PROVE s[l].start < b.start
    <3>1. l \notin found
      BY <2>1, <2>4
    <3> QED
      BY <1>3, <1>4, <3>1
  <2> QED
    BY <2>2, <2>3, <2>4
<1> QED
  BY <1>6, <1>7
-----------------------------------------------------------------------------
(* What the cache's blocks are: apart from each other, and the whole of     *)
(* their time.                                                              *)

Ordered(s) ==
  /\ \A k \in 1..Len(s) : s[k].start <= s[k].end
  /\ \A k, l \in 1..Len(s) : k < l => s[k].end < s[l].start

(* Two blocks of an ordered cache that share a start are one. *)
LEMMA StartsDiffer ==
  ASSUME NEW s \in Seq(Block), Ordered(s),
         NEW k \in 1..Len(s), NEW l \in 1..Len(s), s[k].start = s[l].start
  PROVE  k = l
<1>1. /\ s[k].start <= s[k].end /\ s[l].start <= s[l].end
      /\ s[k].start \in Nat /\ s[k].end \in Nat
      /\ s[l].start \in Nat /\ s[l].end \in Nat
  BY BlocksFacts DEF Ordered
<1>2. /\ k < l => s[k].end < s[l].start
      /\ l < k => s[l].end < s[k].start
  BY DEF Ordered
<1> QED
  BY <1>1, <1>2

LEMMA RemoveOrdered ==
  ASSUME NEW s \in Seq(Block), Ordered(s), NEW i \in 1..Len(s)
  PROVE  /\ RemoveAt(s, i) \in Seq(Block)
         /\ Ordered(RemoveAt(s, i))
         /\ \A k \in 1..Len(RemoveAt(s, i)) :
              \E l \in 1..Len(s) : l # i /\ RemoveAt(s, i)[k] = s[l]
         /\ \A l \in 1..Len(s) :
              l # i => \E k \in 1..Len(RemoveAt(s, i)) :
                         RemoveAt(s, i)[k] = s[l]
<1> DEFINE r == RemoveAt(s, i)
<1>1. /\ r \in Seq(Block) /\ Len(r) = Len(s) - 1
      /\ \A k \in 1..(Len(s) - 1) : r[k] = IF k < i THEN s[k] ELSE s[k + 1]
  BY RemoveFacts
<1> HIDE DEF r
<1>2. Ordered(r)
  <2>1. ASSUME NEW k \in 1..Len(r) PROVE r[k].start <= r[k].end
    BY <1>1 DEF Ordered
  <2>2. ASSUME NEW k \in 1..Len(r), NEW l \in 1..Len(r), k < l
        PROVE  r[k].end < r[l].start
    <3> DEFINE f == IF k < i THEN k ELSE k + 1
               g == IF l < i THEN l ELSE l + 1
    <3>1. r[k] = s[f] /\ r[l] = s[g]
      BY <1>1
    <3>2. f \in 1..Len(s) /\ g \in 1..Len(s) /\ f < g
      BY <1>1, <2>2
    <3> HIDE DEF f, g
    <3> QED
      BY <3>1, <3>2 DEF Ordered
  <2> QED
    BY <2>1, <2>2 DEF Ordered
<1>3. ASSUME NEW k \in 1..Len(r)
      PROVE  \E l \in 1..Len(s) : l # i /\ r[k] = s[l]
  <2>1. CASE k < i
    BY <1>1, <2>1
  <2>2. CASE ~(k < i)
    <3>1. k + 1 \in 1..Len(s) /\ k + 1 # i /\ r[k] = s[k + 1]
      BY <1>1, <2>2
    <3> QED
      BY <3>1
  <2> QED
    BY <2>1, <2>2
<1>4. ASSUME NEW l \in 1..Len(s), l # i
      PROVE  \E k \in 1..Len(r) : r[k] = s[l]
  <2>1. CASE l < i
    BY <1>1, <2>1
  <2>2. CASE l > i
    <3>1. l - 1 \in 1..Len(r) /\ ~(l - 1 < i) /\ (l - 1) + 1 = l
      BY <1>1, <2>2
    <3>2. r[l - 1] = s[l]
      BY <1>1, <3>1
    <3> QED
      BY <3>1, <3>2
  <2> QED
    BY <1>4, <2>1, <2>2
<1> QED
  BY <1>1, <1>2, <1>3, <1>4 DEF r

(* A block that overlaps none is put where the order asks for it. *)
LEMMA InsertOrdered ==
  ASSUME NEW s \in Seq(Block), Ordered(s), NEW b \in Block, b.start <= b.end,
         \A k \in 1..Len(s) : s[k].end < b.start \/ b.end < s[k].start
  PROVE  /\ Inserted(s, b) \in Seq(Block)
         /\ Ordered(Inserted(s, b))
         /\ \E i \in 1..Len(Inserted(s, b)) :
              /\ Inserted(s, b)[i] = b
              /\ \A k \in 1..Len(Inserted(s, b)) :
                   k # i => \E l \in 1..Len(s) : Inserted(s, b)[k] = s[l]
<1>1. PICK i \in 1..(Len(s) + 1) :
        /\ Inserted(s, b) = InsertAt(s, i, b)
        /\ \A l \in 1..Len(s) : l < i => s[l].start < b.start
        /\ i <= Len(s) => s[i].start >= b.start
  BY InsertedIs
<1> DEFINE r == Inserted(s, b)
<1>2. /\ r \in Seq(Block) /\ Len(r) = Len(s) + 1
      /\ \A k \in 1..(Len(s) + 1) :
           r[k] = IF k < i THEN s[k] ELSE IF k = i THEN b ELSE s[k - 1]
  <2>1. /\ InsertAt(s, i, b) \in Seq(Block)
        /\ Len(InsertAt(s, i, b)) = Len(s) + 1
    BY InsertFacts
  <2>2. \A k \in 1..(Len(s) + 1) :
          InsertAt(s, i, b)[k] = IF k < i THEN s[k]
                                 ELSE IF k = i THEN b ELSE s[k - 1]
    BY InsertFacts
  <2> QED
    BY <1>1, <2>1, <2>2
<1> HIDE DEF r
<1>3. b.start \in Nat /\ b.end \in Nat
  BY BlockFacts
<1>4. ASSUME NEW l \in 1..Len(s)
      PROVE  /\ l < i => s[l].end < b.start
             /\ l >= i => b.end < s[l].start
  <2>1. /\ s[l].start \in Nat /\ s[l].end \in Nat
        /\ s[l].start <= s[l].end
    BY BlocksFacts DEF Ordered
  <2>2. l < i => s[l].end < b.start
    BY <1>1, <1>3, <2>1
  <2>3. ASSUME l >= i PROVE s[l].start >= b.start
    <3>1. i \in 1..Len(s) /\ s[i].start >= b.start
      BY <1>1, <2>3
    <3>2. /\ s[i].start \in Nat /\ s[i].end \in Nat
          /\ s[i].start <= s[i].end
      BY <3>1, BlocksFacts DEF Ordered
    <3>3. l > i => s[i].end < s[l].start
      BY <3>1 DEF Ordered
    <3> QED
      BY <1>3, <2>1, <2>3, <3>1, <3>2, <3>3
  <2> QED
    BY <1>3, <2>1, <2>2, <2>3
<1>5. ASSUME NEW k \in 1..Len(r), k # i
      PROVE  \E m \in 1..Len(s) :
               r[k] = s[m] /\ ((m = k /\ k < i) \/ (m = k - 1 /\ k > i))
  <2>1. CASE k < i
    BY <1>2, <2>1
  <2>2. CASE k > i
    <3>1. k - 1 \in 1..Len(s) /\ r[k] = s[k - 1]
      BY <1>2, <2>2
    <3> QED
      BY <2>2, <3>1
  <2> QED
    BY <1>5, <2>1, <2>2
<1>6. Ordered(r)
  <2>1. ASSUME NEW k \in 1..Len(r) PROVE r[k].start <= r[k].end
    <3>1. CASE k = i
      BY <1>2, <3>1
    <3>2. CASE k # i
      BY <1>5, <3>2 DEF Ordered
    <3> QED
      BY <3>1, <3>2
  <2>2. ASSUME NEW k \in 1..Len(r), NEW l \in 1..Len(r), k < l
        PROVE  r[k].end < r[l].start
    <3>1. CASE k # i /\ l # i
      <4>1. PICK m \in 1..Len(s) :
              r[k] = s[m] /\ ((m = k /\ k < i) \/ (m = k - 1 /\ k > i))
        BY <1>5, <3>1
      <4>2. PICK n \in 1..Len(s) :
              r[l] = s[n] /\ ((n = l /\ l < i) \/ (n = l - 1 /\ l > i))
        BY <1>5, <3>1
      <4>3. m < n
        BY <2>2, <4>1, <4>2
      <4> QED
        BY <4>1, <4>2, <4>3 DEF Ordered
    <3>2. CASE k = i
      <4>1. PICK n \in 1..Len(s) : r[l] = s[n] /\ n >= i
        BY <1>5, <2>2, <3>2
      <4> QED
        BY <1>2, <1>4, <3>2, <4>1
    <3>3. CASE l = i
      <4>1. PICK n \in 1..Len(s) : r[k] = s[n] /\ n < i
        BY <1>5, <2>2, <3>3
      <4> QED
        BY <1>2, <1>4, <3>3, <4>1
    <3> QED
      BY <3>1, <3>2, <3>3
  <2> QED
    BY <2>1, <2>2 DEF Ordered
<1>7. i \in 1..Len(r) /\ r[i] = b
  BY <1>2
<1> QED
  BY <1>2, <1>5, <1>6, <1>7 DEF r

(* A block that grows within the gap after it. *)
LEMMA ReplaceOrdered ==
  ASSUME NEW s \in Seq(Block), Ordered(s), NEW i \in 1..Len(s),
         NEW b \in Block, b.start = s[i].start, b.start <= b.end,
         \A k \in 1..Len(s) :
           k # i => s[k].end < b.start \/ b.end < s[k].start
  PROVE  [s EXCEPT ![i] = b] \in Seq(Block) /\ Ordered([s EXCEPT ![i] = b])
<1> DEFINE r == [s EXCEPT ![i] = b]
<1>1. /\ r \in Seq(Block) /\ Len(r) = Len(s)
      /\ \A k \in 1..Len(s) : r[k] = IF k = i THEN b ELSE s[k]
  BY ExceptSeq
<1> HIDE DEF r
<1>2. b.start \in Nat /\ b.end \in Nat
  BY BlockFacts
<1>3. ASSUME NEW k \in 1..Len(r) PROVE r[k].start <= r[k].end
  BY <1>1 DEF Ordered
<1>4. ASSUME NEW k \in 1..Len(r), NEW l \in 1..Len(r), k < l
      PROVE  r[k].end < r[l].start
  <2>1. /\ s[k].start \in Nat /\ s[k].end \in Nat
        /\ s[l].start \in Nat /\ s[l].end \in Nat
        /\ s[k].start <= s[k].end /\ s[l].start <= s[l].end
        /\ s[k].end < s[l].start
    BY <1>1, <1>4, BlocksFacts DEF Ordered
  <2>2. CASE k # i /\ l # i
    BY <1>1, <2>1, <2>2
  <2>3. CASE k = i
    BY <1>1, <1>2, <1>4, <2>1, <2>3
  <2>4. CASE l = i
    BY <1>1, <1>2, <1>4, <2>1, <2>4
  <2> QED
    BY <2>2, <2>3, <2>4
<1>5. Ordered(r)
  BY <1>3, <1>4 DEF Ordered
<1> QED
  BY <1>1, <1>5 DEF r
-----------------------------------------------------------------------------
(* Sizes.                                                                   *)

Sizes(items) == [k \in 1..Len(items) |-> Source[items[k].index].size]

LEMMA SizeIsSum ==
  ASSUME NEW items \in Seq(Item)
  PROVE  SizeOf(items) = SumOf(Sizes(items), Len(items))
<1> DEFINE n == Len(items)
           w == Sizes(items)
           Adds(g) == g = [s \in SUBSET DOMAIN items |->
                             IF s = {} THEN 0
                             ELSE g[s \ {Max(s)}]
                                    + Source[items[Max(s)].index].size]
           h == CHOOSE h : Adds(h)
<1>1. DOMAIN items = 1..n /\ n \in Nat
  OBVIOUS
<1>2. SizeOf(items) = h[DOMAIN items]
  BY DEF SizeOf, FoldLeft, MapThenFoldSet
<1>3. ASSUME NEW g PROVE IsSum(g, w, n) <=> Adds(g)
  <2>1. ASSUME NEW s \in SUBSET (1..n), s # {}
        PROVE  w[Max(s)] = Source[items[Max(s)].index].size
    <3>1. s \in SUBSET (0..n)
      OBVIOUS
    <3> HIDE DEF n
    <3>2. Max(s) \in 1..n
      BY <1>1, <2>1, <3>1, MaxFacts
    <3> QED
      BY <3>2 DEF Sizes, n
  <2> HIDE DEF n, w
  <2> QED
    BY <1>1, <2>1 DEF IsSum
<1>4. \E g : IsSum(g, w, n)
  <2> HIDE DEF n, w
  <2> QED
    BY <1>1, SumExists
<1>5. IsSum(h, w, n)
  <2>1. \E g : Adds(g)
    BY <1>3, <1>4
  <2> HIDE DEF Adds
  <2>2. Adds(h)
    BY <2>1
  <2> HIDE DEF h
  <2> QED
    BY <2>2, <1>3
<1> HIDE DEF h, n, w
<1>6. h[1..n] = SumOf(w, n)
  BY <1>1, <1>5, SumIs
<1> QED
  BY <1>1, <1>2, <1>6 DEF w, n

LEMMA SizesNat ==
  ASSUME NEW items \in Seq(Item)
  PROVE  /\ \A k \in 1..Len(items) :
              /\ items[k].index \in 1..Len(Source)
              /\ Sizes(items)[k] = Source[items[k].index].size
              /\ Sizes(items)[k] \in Nat
         /\ SizeOf(items) \in Nat
<1>1. ASSUME NEW k \in 1..Len(items)
      PROVE  /\ items[k].index \in 1..Len(Source)
             /\ Sizes(items)[k] = Source[items[k].index].size
             /\ Sizes(items)[k] \in Nat
  <2>1. items[k] \in Item
    OBVIOUS
  <2>2. items[k].index \in 1..Len(Source)
    BY <2>1 DEF Item
  <2> QED
    BY <2>2, SourceFacts DEF Sizes
<1>2. Len(items) \in Nat
  OBVIOUS
<1>3. SumOf(Sizes(items), Len(items)) \in Nat
  BY <1>1, <1>2, SumNat
<1> QED
  BY <1>1, <1>3, SizeIsSum

LEMMA SizeFacts ==
  ASSUME NEW items \in Seq(Item), NEW more \in Seq(Item)
  PROVE  /\ SizeOf(<<>>) = 0
         /\ items \o more \in Seq(Item)
         /\ SizeOf(items \o more) = SizeOf(items) + SizeOf(more)
<1>1. SizeOf(<<>>) = 0
  <2>1. <<>> \in Seq(Item) /\ Len(<<>>) = 0
    BY EmptySeq
  <2> QED
    BY <2>1, SizeIsSum, SumFacts
<1> DEFINE both == items \o more  n == Len(items)  m == Len(more)
<1>2. /\ both \in Seq(Item) /\ Len(both) = n + m
      /\ \A k \in 1..(n + m) :
           both[k] = IF k <= n THEN items[k] ELSE more[k - n]
  BY ConcatProperties
<1>3. n \in Nat /\ m \in Nat
  OBVIOUS
<1> HIDE DEF both
<1>4. \A k \in 1..(n + m) : Sizes(both)[k] \in Nat
  BY <1>2, SizesNat
<1>5. ASSUME NEW k \in 1..n PROVE Sizes(both)[k] = Sizes(items)[k]
  <2>1. k \in 1..(n + m) /\ both[k] = items[k]
    BY <1>2, <1>3
  <2> QED
    BY <1>2, <2>1 DEF Sizes
<1>6. ASSUME NEW k \in 1..m PROVE Sizes(both)[n + k] = Sizes(more)[k]
  <2>1. n + k \in 1..(n + m) /\ ~(n + k <= n) /\ (n + k) - n = k
    BY <1>3
  <2>2. both[n + k] = more[k]
    BY <1>2, <2>1
  <2> QED
    BY <1>2, <2>1, <2>2 DEF Sizes
<1> HIDE DEF n, m
<1>7. SumOf(Sizes(both), n + m) = SumOf(Sizes(items), n) + SumOf(Sizes(more), m)
  <2> DEFINE u == Sizes(items)  v == Sizes(more)  w == Sizes(both)
  <2>1. /\ \A k \in 1..(n + m) : w[k] \in Nat
        /\ \A k \in 1..n : w[k] = u[k]
        /\ \A k \in 1..m : w[n + k] = v[k]
    BY <1>4, <1>5, <1>6
  <2> HIDE DEF u, v, w
  <2>2. SumOf(w, n + m) = SumOf(u, n) + SumOf(v, m)
    <3> DEFINE l == n + m
    <3>1. \A k \in 1..l : w[k] \in Nat
      BY <2>1
    <3> HIDE DEF l
    <3>2. l = n + m
      BY DEF l
    <3> QED
      BY <1>3, <2>1, <3>1, <3>2, SumConcat
  <2> QED
    BY <2>2 DEF u, v, w
<1>8. SizeOf(both) = SizeOf(items) + SizeOf(more)
  BY <1>2, <1>7, SizeIsSum DEF n, m
<1> QED
  BY <1>1, <1>2, <1>8 DEF both

LEMMA SizeOfOne ==
  ASSUME NEW x \in Item
  PROVE  <<x>> \in Seq(Item) /\ SizeOf(<<x>>) = Source[x.index].size
<1>1. <<x>> \in Seq(Item) /\ Len(<<x>>) = 1
  OBVIOUS
<1>2. SizeOf(<<x>>) = SumOf(Sizes(<<x>>), 0 + 1)
  <2> DEFINE one == <<x>>
  <2>1. one \in Seq(Item) /\ Len(one) = 0 + 1
    BY <1>1
  <2> HIDE DEF one
  <2>2. SizeOf(one) = SumOf(Sizes(one), 0 + 1)
    BY <2>1, SizeIsSum
  <2> QED
    BY <2>2 DEF one
<1>3. /\ SumOf(Sizes(<<x>>), 0 + 1)
           = SumOf(Sizes(<<x>>), 0) + Sizes(<<x>>)[0 + 1]
      /\ SumOf(Sizes(<<x>>), 0) = 0
  BY SumFacts
<1>4. 1 \in 1..Len(<<x>>)
  BY <1>1
<1>5. <<x>>[1] = x
  OBVIOUS
<1>6. Sizes(<<x>>)[1] \in Nat /\ Sizes(<<x>>)[1] = Source[x.index].size
  BY <1>1, <1>4, <1>5, SizesNat
<1> QED
  BY <1>1, <1>2, <1>3, <1>6

(* What the blocks of a cache say they hold. *)
Total(s) == FoldLeft(LAMBDA sum, b : sum + b.size, 0, s)

BlockSizes(s) == [k \in 1..Len(s) |-> s[k].size]

LEMMA TotalIsSum ==
  ASSUME NEW s \in Seq(Block)
  PROVE  Total(s) = SumOf(BlockSizes(s), Len(s)) /\ Total(s) \in Nat
<1> DEFINE n == Len(s)
           w == BlockSizes(s)
           Adds(g) == g = [r \in SUBSET DOMAIN s |->
                             IF r = {} THEN 0
                             ELSE g[r \ {Max(r)}] + s[Max(r)].size]
           h == CHOOSE h : Adds(h)
<1>1. DOMAIN s = 1..n /\ n \in Nat
  OBVIOUS
<1>2. Total(s) = h[DOMAIN s]
  BY DEF Total, FoldLeft, MapThenFoldSet
<1>3. ASSUME NEW g PROVE IsSum(g, w, n) <=> Adds(g)
  <2>1. ASSUME NEW r \in SUBSET (1..n), r # {}
        PROVE  w[Max(r)] = s[Max(r)].size
    <3>1. r \in SUBSET (0..n)
      OBVIOUS
    <3> HIDE DEF n
    <3>2. Max(r) \in 1..n
      BY <1>1, <2>1, <3>1, MaxFacts
    <3> QED
      BY <3>2 DEF BlockSizes, n
  <2> HIDE DEF n, w
  <2> QED
    BY <1>1, <2>1 DEF IsSum
<1>4. \E g : IsSum(g, w, n)
  <2> HIDE DEF n, w
  <2> QED
    BY <1>1, SumExists
<1>5. IsSum(h, w, n)
  <2>1. \E g : Adds(g)
    BY <1>3, <1>4
  <2> HIDE DEF Adds
  <2>2. Adds(h)
    BY <2>1
  <2> HIDE DEF h
  <2> QED
    BY <2>2, <1>3
<1>6. \A k \in 1..n : w[k] \in Nat
  BY BlocksFacts DEF BlockSizes
<1> HIDE DEF h, n, w
<1>7. h[1..n] = SumOf(w, n)
  BY <1>1, <1>5, SumIs
<1>8. SumOf(w, n) \in Nat
  BY <1>1, <1>6, SumNat
<1> QED
  BY <1>1, <1>2, <1>7, <1>8 DEF w, n

LEMMA TotalRemoved ==
  ASSUME NEW s \in Seq(Block), NEW i \in 1..Len(s)
  PROVE  /\ Total(RemoveAt(s, i)) \in Nat
         /\ Total(s) = Total(RemoveAt(s, i)) + s[i].size
<1> DEFINE r == RemoveAt(s, i)  n == Len(s) - 1
<1>1. /\ r \in Seq(Block) /\ Len(r) = n
      /\ \A k \in 1..n : r[k] = IF k < i THEN s[k] ELSE s[k + 1]
  BY RemoveFacts
<1>2. n \in Nat /\ i \in 1..(n + 1) /\ n + 1 = Len(s)
  OBVIOUS
<1> HIDE DEF r, n
<1>3. \A k \in 1..(n + 1) :
        BlockSizes(s)[k] = s[k].size /\ BlockSizes(s)[k] \in Nat
  BY <1>2, BlocksFacts DEF BlockSizes
<1>4. ASSUME NEW k \in 1..n
      PROVE  BlockSizes(r)[k] = IF k < i THEN BlockSizes(s)[k]
                                ELSE BlockSizes(s)[k + 1]
  <2>1. k \in 1..(n + 1) /\ k + 1 \in 1..(n + 1)
    BY <1>2
  <2>2. BlockSizes(r)[k] = r[k].size
    BY <1>1 DEF BlockSizes
  <2> QED
    BY <1>1, <1>3, <2>1, <2>2
<1>5. SumOf(BlockSizes(s), n + 1) = SumOf(BlockSizes(r), n) + BlockSizes(s)[i]
  <2> DEFINE l == n + 1
  <2>1. i \in 1..l
    BY <1>2
  <2>3. \A k \in 1..l : BlockSizes(s)[k] \in Nat
    BY <1>3
  <2> HIDE DEF l
  <2>2. l = n + 1 /\ n \in Nat
    BY <1>2 DEF l
  <2> QED
    <3> DEFINE v == BlockSizes(s)  w == BlockSizes(r)
    <3>1. /\ \A k \in 1..l : v[k] \in Nat
          /\ Without(v, w, i, n)
      BY <1>4, <2>3 DEF Without
    <3> HIDE DEF v, w
    <3>2. SumOf(v, l) = SumOf(w, n) + v[i]
      BY <2>1, <2>2, <3>1, SumInsert
    <3> QED
      BY <2>2, <3>2 DEF v, w
<1> QED
  BY <1>1, <1>2, <1>3, <1>5, TotalIsSum DEF r
LEMMA TotalInserted ==
  ASSUME NEW s \in Seq(Block), NEW b \in Block
  PROVE  Total(Inserted(s, b)) = Total(s) + b.size
<1>1. PICK i \in 1..(Len(s) + 1) : Inserted(s, b) = InsertAt(s, i, b)
  BY InsertedIs
<1> DEFINE r == InsertAt(s, i, b)
<1>2. r \in Seq(Block) /\ Len(r) = Len(s) + 1
  BY InsertFacts
<1>3. \A k \in 1..(Len(s) + 1) :
        r[k] = IF k < i THEN s[k] ELSE IF k = i THEN b ELSE s[k - 1]
  BY InsertFacts
<1>4. i \in 1..Len(r) /\ r[i] = b
  BY <1>2, <1>3
<1> HIDE DEF r
<1>5. RemoveAt(r, i) = s
  <2> DEFINE q == RemoveAt(r, i)
  <2>1. /\ q \in Seq(Block) /\ Len(q) = Len(s)
        /\ \A k \in 1..Len(s) : q[k] = IF k < i THEN r[k] ELSE r[k + 1]
    <3>1. Len(r) - 1 = Len(s)
      BY <1>2
    <3>2. /\ q \in Seq(Block) /\ Len(q) = Len(r) - 1
          /\ \A k \in 1..(Len(r) - 1) :
               q[k] = IF k < i THEN r[k] ELSE r[k + 1]
      BY <1>2, <1>4, RemoveFacts
    <3> HIDE DEF q
    <3> QED
      BY <3>1, <3>2
  <2> HIDE DEF q
  <2>2. ASSUME NEW k \in 1..Len(s) PROVE q[k] = s[k]
    <3>1. k \in 1..(Len(s) + 1) /\ k + 1 \in 1..(Len(s) + 1)
      OBVIOUS
    <3>2. CASE k < i
      BY <1>3, <2>1, <3>1, <3>2
    <3>3. CASE ~(k < i)
      <4>1. ~(k + 1 < i) /\ k + 1 # i /\ (k + 1) - 1 = k
        BY <3>3
      <4> QED
        BY <1>3, <2>1, <3>1, <3>3, <4>1
    <3> QED
      BY <3>2, <3>3
  <2>3. q = s
    BY <2>1, <2>2, SeqEqual
  <2> QED
    BY <2>3 DEF q
<1>6. Total(r) = Total(s) + b.size
  BY <1>2, <1>4, <1>5, TotalRemoved
<1> QED
  BY <1>1, <1>6 DEF r

LEMMA TotalReplaced ==
  ASSUME NEW s \in Seq(Block), NEW i \in 1..Len(s), NEW b \in Block
  PROVE  /\ Total([s EXCEPT ![i] = b]) \in Nat
         /\ Total([s EXCEPT ![i] = b]) + s[i].size = Total(s) + b.size
<1> DEFINE r == [s EXCEPT ![i] = b]
<1>1. /\ r \in Seq(Block) /\ Len(r) = Len(s)
      /\ \A k \in 1..Len(s) : r[k] = IF k = i THEN b ELSE s[k]
  BY ExceptSeq
<1> HIDE DEF r
<1>2. i \in 1..Len(r) /\ r[i] = b
  BY <1>1
<1>3. RemoveAt(r, i) = RemoveAt(s, i)
  <2>1. /\ RemoveAt(r, i) \in Seq(Block) /\ Len(RemoveAt(r, i)) = Len(r) - 1
        /\ \A k \in 1..(Len(r) - 1) :
             RemoveAt(r, i)[k] = IF k < i THEN r[k] ELSE r[k + 1]
    BY <1>1, <1>2, RemoveFacts
  <2>2. /\ RemoveAt(s, i) \in Seq(Block) /\ Len(RemoveAt(s, i)) = Len(s) - 1
        /\ \A k \in 1..(Len(s) - 1) :
             RemoveAt(s, i)[k] = IF k < i THEN s[k] ELSE s[k + 1]
    BY RemoveFacts
  <2>3. ASSUME NEW k \in 1..(Len(s) - 1)
        PROVE  RemoveAt(r, i)[k] = RemoveAt(s, i)[k]
    <3>1. k \in 1..Len(s) /\ k + 1 \in 1..Len(s)
      OBVIOUS
    <3>2. r[k] = IF k = i THEN b ELSE s[k]
      BY <1>1, <3>1
    <3>3. r[k + 1] = IF k + 1 = i THEN b ELSE s[k + 1]
      BY <1>1, <3>1
    <3>4. k < i => RemoveAt(r, i)[k] = r[k] /\ RemoveAt(s, i)[k] = s[k]
      BY <1>1, <2>1, <2>2
    <3>5. ~(k < i) =>
            RemoveAt(r, i)[k] = r[k + 1] /\ RemoveAt(s, i)[k] = s[k + 1]
      BY <1>1, <2>1, <2>2
    <3> QED
      BY <3>2, <3>3, <3>4, <3>5
  <2> QED
    BY <1>1, <2>1, <2>2, <2>3, SeqEqual
<1>4. /\ Total(r) = Total(RemoveAt(r, i)) + b.size
      /\ Total(s) = Total(RemoveAt(s, i)) + s[i].size
      /\ Total(RemoveAt(s, i)) \in Nat
  BY <1>1, <1>2, TotalRemoved
<1>5. b.size \in Nat /\ s[i].size \in Nat
  BY BlockFacts, BlocksFacts
<1> QED
  BY <1>3, <1>4, <1>5 DEF r

-----------------------------------------------------------------------------
(* Messages.                                                                *)

LEMMA MessagesOfNone == MessagesOf(<<>>) = {}
  BY DEF MessagesOf

LEMMA MessagesOfOne ==
  ASSUME NEW x \in Item
  PROVE  MessagesOf(<<x>>) = IF Source[x.index].type = "message-event"
                             THEN {x.index} ELSE {}
<1>1. Len(<<x>>) = 1 /\ <<x>>[1] = x
  OBVIOUS
<1> QED
  BY <1>1 DEF MessagesOf

LEMMA MessagesOfBoth ==
  ASSUME NEW items \in Seq(Item), NEW more \in Seq(Item)
  PROVE  MessagesOf(items \o more) = MessagesOf(items) \cup MessagesOf(more)
<1> DEFINE both == items \o more  n == Len(items)  m == Len(more)
<1>1. /\ Len(both) = n + m
      /\ \A k \in 1..(n + m) :
           both[k] = IF k <= n THEN items[k] ELSE more[k - n]
  BY ConcatProperties
<1>2. n \in Nat /\ m \in Nat
  OBVIOUS
<1> HIDE DEF both
<1>3. ASSUME NEW i \in MessagesOf(both)
      PROVE  i \in MessagesOf(items) \cup MessagesOf(more)
  <2>1. PICK k \in 1..(n + m) :
          i = both[k].index /\ Source[both[k].index].type = "message-event"
    BY <1>1 DEF MessagesOf
  <2>2. CASE k <= n
    <3>1. k \in 1..Len(items) /\ both[k] = items[k]
      BY <1>1, <1>2, <2>2
    <3> QED
      BY <2>1, <3>1 DEF MessagesOf
  <2>3. CASE k > n
    <3>1. k - n \in 1..Len(more) /\ both[k] = more[k - n]
      BY <1>1, <1>2, <2>3
    <3> QED
      BY <2>1, <3>1 DEF MessagesOf
  <2> QED
    BY <1>2, <2>2, <2>3
<1>4. ASSUME NEW i \in MessagesOf(items) PROVE i \in MessagesOf(both)
  <2>1. PICK k \in 1..n :
          i = items[k].index /\ Source[items[k].index].type = "message-event"
    BY DEF MessagesOf
  <2>2. k \in 1..(n + m) /\ both[k] = items[k]
    BY <1>1, <1>2
  <2> QED
    BY <1>1, <2>1, <2>2 DEF MessagesOf
<1>5. ASSUME NEW i \in MessagesOf(more) PROVE i \in MessagesOf(both)
  <2>1. PICK k \in 1..m :
          i = more[k].index /\ Source[more[k].index].type = "message-event"
    BY DEF MessagesOf
  <2>2. n + k \in 1..(n + m) /\ ~(n + k <= n) /\ (n + k) - n = k
    BY <1>2
  <2>3. both[n + k] = more[k]
    BY <1>1, <2>2
  <2> QED
    BY <1>1, <2>1, <2>2, <2>3 DEF MessagesOf
<1>6. MessagesOf(both) = MessagesOf(items) \cup MessagesOf(more)
  BY <1>3, <1>4, <1>5
<1> QED
  BY <1>6 DEF both

-----------------------------------------------------------------------------
(* Eviction.                                                                *)

LEMMA ChainEndFacts ==
  ASSUME NEW s \in Seq(Block), NEW k \in 1..Len(s)
  PROVE  /\ ChainEnd(s, k) \in k..Len(s)
         /\ \A n \in k..(ChainEnd(s, k) - 1) : Adjacent(s[n], s[n + 1])
         /\ \/ ChainEnd(s, k) = Len(s)
            \/ ~Adjacent(s[ChainEnd(s, k)], s[ChainEnd(s, k) + 1])
<1> DEFINE Stops == {l \in k..Len(s) :
                       l = Len(s) \/ ~Adjacent(s[l], s[l + 1])}
<1>1. Stops \in SUBSET Nat /\ Len(s) \in Stops
  OBVIOUS
<1>2. PICK l \in Stops : \A m \in Stops : l <= m
  <2> HIDE DEF Stops
  <2> QED
    BY <1>1, LeastExists
<1>3. ASSUME NEW n \in k..(l - 1) PROVE Adjacent(s[n], s[n + 1])
  <2>1. n \in k..Len(s) /\ n # Len(s) /\ n \notin Stops
    BY <1>2
  <2> QED
    BY <2>1
<1>4. /\ l \in k..Len(s)
      /\ \A n \in k..(l - 1) : Adjacent(s[n], s[n + 1])
      /\ l = Len(s) \/ ~Adjacent(s[l], s[l + 1])
  BY <1>2, <1>3
<1> HIDE DEF Stops
<1> QED
  BY <1>4 DEF ChainEnd

(* Only blocks of the cache are evicted. *)
LEMMA EvictFacts ==
  ASSUME NEW s \in Seq(Block), NEW head, NEW active,
         NEW list \in EvictableLists(s, head, active)
  PROVE  /\ list \in Seq(0..End)
         /\ list # <<>> =>
              /\ Tail(list) \in Seq(0..End)
              /\ IndexOf(s, Head(list)) \in 1..Len(s)
<1> DEFINE found == {k \in 1..Len(s) : Covers(s[k], head)}
           k == FirstIndex(s, LAMBDA b : Covers(b, head))
           starts == [n \in 1..Len(s) |-> s[n].start]
           T == {s[n].start : n \in 1..Len(s)}
<1>1. k \in 0..Len(s)
  <2>1. k = IF found = {} THEN 0 ELSE Least(found)
    BY DEF FirstIndex, Least
  <2>2. found \in SUBSET (1..Len(s)) /\ Len(s) \in Nat
    OBVIOUS
  <2> HIDE DEF found, k
  <2>3. found # {} => Least(found) \in found
    BY <2>2, LeastFacts
  <2> QED
    BY <2>1, <2>2, <2>3
<1>2. /\ starts \in Seq(T) /\ Len(starts) = Len(s)
      /\ \A n \in 1..Len(s) : starts[n] \in T
  OBVIOUS
<1>3. T \subseteq 0..End
  BY BlocksFacts
<1>4. list \in Seq(T)
  <2>1. \/ s = <<>> /\ list = <<>>
        \/ s # <<>> /\ \E n \in 1..Len(s) : list = <<starts[n]>>
        \/ /\ k \in 1..Len(s)
           /\ list = SubSeq(starts, 1, k - 1)
                       \o Reverse(SubSeq(starts, ChainEnd(s, k) + 1, Len(s)))
    <3> DEFINE rest == SubSeq(starts, 1, k - 1)
                         \o Reverse(SubSeq(starts, ChainEnd(s, k) + 1, Len(s)))
    <3>1. EvictableLists(s, head, active) =
            IF s = <<>> THEN { <<>> }
            ELSE IF k = 0
            THEN { <<starts[n]>> : n \in {m \in 1..Len(s) :
                                             starts[m] # active \/ m = 1} }
            ELSE { rest }
      BY DEF EvictableLists
    <3> HIDE DEF k, starts, rest
    <3>2. CASE s = <<>>
      BY <3>1, <3>2
    <3>3. CASE s # <<>> /\ k = 0
      BY <3>1, <3>3
    <3>4. CASE s # <<>> /\ k # 0
      <4>1. list = rest
        BY <3>1, <3>4
      <4> QED
        BY <1>1, <3>4, <4>1 DEF rest
    <3> QED
      BY <3>2, <3>3, <3>4
  <2> HIDE DEF k, starts, T
  <2>2. CASE list = <<>>
    BY <2>2
  <2>3. ASSUME NEW n \in 1..Len(s), list = <<starts[n]>> PROVE list \in Seq(T)
    BY <1>2, <2>3
  <2>4. ASSUME k \in 1..Len(s),
               list = SubSeq(starts, 1, k - 1)
                        \o Reverse(SubSeq(starts, ChainEnd(s, k) + 1, Len(s)))
        PROVE  list \in Seq(T)
    <3>1. ChainEnd(s, k) \in k..Len(s)
      BY <2>4, ChainEndFacts
    <3>2. SubSeq(starts, 1, k - 1) \in Seq(T)
      <4>1. \A n \in 1..(k - 1) : starts[n] \in T
        BY <1>2, <2>4
      <4> QED
        BY <2>4, <4>1, SubSeqProperties
    <3>3. SubSeq(starts, ChainEnd(s, k) + 1, Len(s)) \in Seq(T)
      <4>1. /\ ChainEnd(s, k) + 1 \in Int /\ Len(s) \in Int
            /\ \A n \in (ChainEnd(s, k) + 1)..Len(s) : starts[n] \in T
        BY <1>2, <2>4, <3>1
      <4> QED
        BY <4>1, SubSeqProperties
    <3>4. Reverse(SubSeq(starts, ChainEnd(s, k) + 1, Len(s))) \in Seq(T)
      BY <3>3, ReverseFacts
    <3> QED
      BY <2>4, <3>2, <3>4, ConcatProperties
  <2> QED
    BY <2>1, <2>2, <2>3, <2>4
<1> HIDE DEF k, starts, T
<1>5. list \in Seq(0..End)
  BY <1>3, <1>4, SeqMonotonic
<1>6. ASSUME list # <<>>
      PROVE  /\ Tail(list) \in Seq(0..End)
             /\ IndexOf(s, Head(list)) \in 1..Len(s)
  <2>1. Tail(list) \in Seq(0..End)
    BY <1>5, <1>6, HeadTailProperties
  <2>2. Head(list) \in T
    BY <1>4, <1>6, HeadTailProperties
  <2>3. \E n \in 1..Len(s) : s[n].start = Head(list)
    BY <2>2 DEF T
  <2> QED
    BY <2>1, <2>3, IndexOfFacts
<1> QED
  BY <1>5, <1>6

-----------------------------------------------------------------------------
(* The inductive invariant.                                                 *)

(* The messages of some topics within a time. *)
MessagesIn(topics, from, to) ==
  {i \in 1..Len(Source) : /\ Source[i].type = "message-event"
                          /\ Source[i].topic \in topics
                          /\ Source[i].time \in from..to}

Whole(s, topics) ==
  \A k \in 1..Len(s) :
    ~Unfinished(s[k]) =>
      MessagesOf(s[k].items) = MessagesIn(topics, s[k].start, s[k].end)

(* A block that is being filled has room, and is as it was started or       *)
(* complete up to just before the last time a result moved on to.           *)
Filling(b, topics, time, to) ==
  /\ b.end <= to /\ ~(b.size >= MaxBlockSize)
  /\ MessagesOf(b.items) = MessagesIn(topics, b.start, time - 1)
  /\ (Unfinished(b) /\ time = b.start) \/ b.end = time - 1

Apart(b, from, to) == b.end < from \/ to < b.start

(* What the variables range over, and that blocks carry their size. *)
Sorts ==
  /\ cachedTopics \in TopicSets \cup {{}}
  /\ cache \in Seq(Block)
  /\ totalSize \in Nat
  /\ currentReadHead \in 0..End /\ candidates \in Seq(0..End)
  /\ pc \in {"none", "loop", "cached", "read", "done", "failed", "terminated"}
  /\ readHead \in 0..(End + 1) /\ maxEnd \in Ends \cup {End}
  /\ block \in {None} \cup 0..End /\ item \in Nat
  /\ unread \subseteq 1..Len(Source)
  /\ sourceReadEnd \in 0..End /\ lastTime \in 0..End
  /\ pending \in Seq(Item)
  /\ at \in 1..(Len(Source) + 1)

Sized(s) == \A k \in 1..Len(s) : s[k].size = SizeOf(s[k].items)

(* The block in use is in the cache; the one being filled is as Filling     *)
(* says, and the others stay clear of what the source is read for.          *)
Active ==
  /\ pc = "cached" =>
       item >= 1 /\ \E k \in 1..Len(cache) : cache[k].start = block
  /\ pc = "read" =>
       /\ block # None => \E k \in 1..Len(cache) : cache[k].start = block
       /\ \A k \in 1..Len(cache) :
            IF cache[k].start = block
            THEN Filling(cache[k], cachedTopics, lastTime, sourceReadEnd)
            ELSE Apart(cache[k], readHead, sourceReadEnd)

UnreadMessages(set) == {i \in set : Source[i].type = "message-event"}

(* The messages from the last time on are still to be read or wait to be    *)
(* written.                                                                 *)
Reading ==
  pc = "read" =>
    /\ readHead <= lastTime /\ lastTime <= sourceReadEnd
    /\ block \in {None, readHead}
    /\ block = None => lastTime = readHead
    /\ \A i \in unread : /\ Source[i].time \in lastTime..sourceReadEnd
                         /\ Matches(i)
    /\ UnreadMessages(unread) \cup MessagesOf(pending)
         = MessagesIn(cachedTopics, lastTime, sourceReadEnd)
    /\ \A i \in MessagesOf(pending) : Source[i].time = lastTime

IInv ==
  /\ Sorts
  /\ Sized(cache)
  /\ Ordered(cache)
  /\ Whole(cache, cachedTopics)
  /\ Active
  /\ Reading
  /\ totalSize >= SizeOf(pending) + Total(cache)

LEMMA NoBlocks ==
  /\ <<>> \in Seq(Block) /\ Total(<<>>) = 0
  /\ Sized(<<>>) /\ Ordered(<<>>) /\ \A topics : Whole(<<>>, topics)
<1>1. <<>> \in Seq(Block) /\ Len(<<>>) = 0
  BY EmptySeq
<1>2. Total(<<>>) = 0
  BY <1>1, TotalIsSum, SumFacts
<1> QED
  BY <1>1, <1>2 DEF Sized, Ordered, Whole

LEMMA NoItems ==
  <<>> \in Seq(Item) /\ SizeOf(<<>>) = 0 /\ MessagesOf(<<>>) = {}
<1>1. <<>> \in Seq(Item)
  BY EmptySeq
<1> QED
  BY <1>1, SizeFacts, MessagesOfNone

LEMMA InitIInv == Init => IInv
<1> SUFFICES ASSUME Init PROVE IInv
  OBVIOUS
<1> USE DEF Init
<1>1. Sorts
  BY ConstantFacts, NoBlocks, NoItems, EmptySeq DEF Sorts, None
<1>2. Active /\ Reading
  BY DEF Active, Reading
<1>3. totalSize >= SizeOf(pending) + Total(cache)
  BY NoBlocks, NoItems
<1> QED
  BY <1>1, <1>2, <1>3, NoBlocks DEF IInv

(* Steps that leave the cache alone and read from no source. *)
LEMMA QuietStep ==
  ASSUME IInv, UNCHANGED <<cachedTopics, cache, totalSize, pending>>, Sorts',
         pc' # "read",
         pc' = "cached" =>
           item' >= 1 /\ \E k \in 1..Len(cache) : cache[k].start = block'
  PROVE  IInv'
<1>1. Active'
  BY DEF Active
<1>2. Reading'
  BY DEF Reading
<1> QED
  BY <1>1, <1>2 DEF IInv

LEMMA ExhaustedIInv == IInv /\ Exhausted => IInv'
<1> SUFFICES ASSUME IInv, Exhausted PROVE IInv'
  OBVIOUS
<1> USE DEF Exhausted, store, eviction, reading, history
<1>1. Sorts'
  BY DEF IInv, Sorts
<1> QED
  BY <1>1, QuietStep

LEMMA EnterBlockIInv == IInv /\ EnterBlock => IInv'
<1> SUFFICES ASSUME IInv, EnterBlock PROVE IInv'
  OBVIOUS
<1> USE DEF store, eviction, reading, history
<1>1. Sorts /\ cache \in Seq(Block)
  BY DEF IInv, Sorts
<1> DEFINE k == BlockAt(readHead)
<1>2. k \in 1..Len(cache)
  BY <1>1, BlockAtFacts DEF EnterBlock
<1>3. block' = cache[k].start /\ item' = FindStartItem(cache[k])
  BY DEF EnterBlock
<1> HIDE DEF k
<1>4. cache[k].start \in 0..End /\ item' \in Nat \ {0}
  BY <1>1, <1>2, <1>3, BlocksFacts, StartItemFacts
<1>5. Sorts'
  BY <1>1, <1>3, <1>4 DEF Sorts, EnterBlock
<1>6. item' >= 1 /\ \E n \in 1..Len(cache) : cache[n].start = block'
  BY <1>2, <1>3, <1>4
<1> QED
  BY <1>5, <1>6, QuietStep DEF EnterBlock

(* The block that is read from is one of the cache's. *)
LEMMA InUse ==
  ASSUME IInv, pc = "cached"
  PROVE  IndexOf(cache, block) \in 1..Len(cache)
<1>1. cache \in Seq(Block) /\ \E k \in 1..Len(cache) : cache[k].start = block
  BY DEF IInv, Sorts, Active
<1> QED
  BY <1>1, IndexOfFacts

LEMMA YieldCachedIInv == IInv /\ YieldCached => IInv'
<1> SUFFICES ASSUME IInv, YieldCached PROVE IInv'
  OBVIOUS
<1> USE DEF store, eviction, reading, history
<1> DEFINE b == cache[IndexOf(cache, block)]
<1>1. Sorts /\ cache \in Seq(Block) /\ pc = "cached" /\ item \in Nat
  BY DEF IInv, Sorts, YieldCached
<1>2. b.items \in Seq(Item)
  BY <1>1, InUse, BlocksFacts
<1>3. /\ item >= 1 /\ item <= Len(b.items)
      /\ at' = b.items[item].index + 1 /\ item' = item + 1
  BY <1>1 DEF YieldCached, Yielded, IInv, Active
<1> HIDE DEF b
<1>4. b.items[item] \in Item
  BY <1>1, <1>2, <1>3
<1>5. at' \in 1..(Len(Source) + 1) /\ item' \in Nat /\ item' >= 1
  <2>1. b.items[item].index \in 1..Len(Source)
    BY <1>4 DEF Item
  <2> QED
    BY <1>1, <1>3, <2>1, ConstantFacts
<1>6. Sorts'
  BY <1>1, <1>5 DEF Sorts, YieldCached
<1>7. \E k \in 1..Len(cache) : cache[k].start = block
  BY <1>1 DEF IInv, Active
<1> QED
  BY <1>1, <1>5, <1>6, <1>7, QuietStep DEF YieldCached

LEMMA CachedPastEndIInv == IInv /\ CachedPastEnd => IInv'
<1> SUFFICES ASSUME IInv, CachedPastEnd PROVE IInv'
  OBVIOUS
<1> USE DEF CachedPastEnd, store, eviction, reading, history
<1>1. Sorts'
  BY DEF IInv, Sorts
<1> QED
  BY <1>1, QuietStep

LEMMA BlockReadIInv == IInv /\ BlockRead => IInv'
<1> SUFFICES ASSUME IInv, BlockRead PROVE IInv'
  OBVIOUS
<1> USE DEF store, eviction, reading, history
<1>1. Sorts /\ cache \in Seq(Block) /\ pc = "cached"
  BY DEF IInv, Sorts, BlockRead
<1>2. cache[IndexOf(cache, block)].end \in 0..End
  BY <1>1, InUse, BlocksFacts
<1>3. readHead' = cache[IndexOf(cache, block)].end + 1
  BY DEF BlockRead, AfterBlock
<1>4. readHead' \in 0..(End + 1)
  BY <1>2, <1>3, ConstantFacts
<1>5. Sorts'
  BY <1>1, <1>4 DEF Sorts, BlockRead
<1> QED
  BY <1>5, QuietStep DEF BlockRead

LEMMA SetCurrentReadHeadIInv ==
  ASSUME IInv, NEW t \in 0..End, SetCurrentReadHead(t)
  PROVE  IInv'
<1> USE DEF SetCurrentReadHead, store, eviction, reading, history
<1>1. Sorts'
  BY DEF IInv, Sorts
<1>2. Active'
  BY DEF IInv, Active
<1>3. Reading'
  BY DEF IInv, Reading, Matches
<1> QED
  BY <1>1, <1>2, <1>3 DEF IInv

(* What waits to be written goes; nothing else does. *)
LEMMA DroppedPending ==
  ASSUME IInv, UNCHANGED <<cachedTopics, cache, totalSize>>, pending' = <<>>
  PROVE  /\ Sized(cache') /\ Ordered(cache') /\ Whole(cache', cachedTopics')
         /\ totalSize' >= SizeOf(pending') + Total(cache')
<1>1. /\ cache \in Seq(Block) /\ pending \in Seq(Item) /\ totalSize \in Nat
      /\ totalSize >= SizeOf(pending) + Total(cache)
  BY DEF IInv, Sorts
<1>2. SizeOf(pending) \in Nat /\ Total(cache) \in Nat
  BY <1>1, SizesNat, TotalIsSum
<1>3. totalSize >= SizeOf(<<>>) + Total(cache)
  BY <1>1, <1>2, NoItems
<1> QED
  BY <1>3 DEF IInv

LEMMA ReturnIInv == IInv /\ Return => IInv'
<1> SUFFICES ASSUME IInv, Return PROVE IInv'
  OBVIOUS
<1> USE DEF Return, store, eviction, history
<1>1. Sorts'
  BY NoItems DEF IInv, Sorts, None
<1>2. Active' /\ Reading'
  BY DEF Active, Reading
<1>3. UNCHANGED <<cachedTopics, cache, totalSize>> /\ pending' = <<>>
  OBVIOUS
<1> QED
  BY <1>1, <1>2, <1>3, DroppedPending DEF IInv

LEMMA TerminateIInv == IInv /\ Terminate => IInv'
<1> SUFFICES ASSUME IInv, Terminate PROVE IInv'
  OBVIOUS
<1> USE DEF Terminate, eviction, reading, history
<1>1. Sorts'
  BY NoBlocks DEF IInv, Sorts
<1>2. Active' /\ Reading'
  BY DEF Active, Reading
<1>3. /\ cache \in Seq(Block) /\ pending \in Seq(Item) /\ totalSize \in Nat
      /\ totalSize >= SizeOf(pending) + Total(cache)
  BY DEF IInv, Sorts
<1>4. SizeOf(pending) \in Nat /\ Total(cache) \in Nat
  BY <1>3, SizesNat, TotalIsSum
<1>5. totalSize' >= SizeOf(pending') + Total(cache')
  BY <1>3, <1>4, NoBlocks
<1> QED
  BY <1>1, <1>2, <1>5, NoBlocks DEF IInv

LEMMA FirstFromFacts ==
  ASSUME NEW t
  PROVE  FirstFrom(t) \in 1..(Len(Source) + 1)
<1> DEFINE S == {i \in 1..Len(Source) : Source[i].time < t}
<1>1. /\ IsFiniteSet(1..Len(Source))
      /\ Cardinality(1..Len(Source)) = Len(Source)
  <2> DEFINE n == Len(Source)
  <2>1. n \in Nat /\ n \in Int /\ 1 \in Int
    BY ConstantFacts
  <2> HIDE DEF n
  <2>2. /\ IsFiniteSet(1..n)
        /\ Cardinality(1..n) = IF 1 > n THEN 0 ELSE n - 1 + 1
    BY <2>1, FS_Interval
  <2> QED
    BY <2>1, <2>2 DEF n
<1>2. IsFiniteSet(S) /\ Cardinality(S) <= Len(Source)
  BY <1>1, FS_Subset
<1>3. Cardinality(S) \in Nat
  BY <1>2, FS_CardinalityType
<1>4. FirstFrom(t) = Cardinality(S) + 1
  BY DEF FirstFrom
<1> HIDE DEF S
<1> QED
  BY <1>2, <1>3, <1>4, ConstantFacts

LEMMA OpenIInv ==
  ASSUME IInv, NEW start \in Starts, NEW end \in Ends, NEW topics \in TopicSets,
         Open(start, end, topics)
  PROVE  IInv'
<1> USE DEF store
<1>1. /\ cache' \in Seq(Block) /\ Ordered(cache') /\ Sized(cache')
      /\ Whole(cache', cachedTopics') /\ totalSize' \in Nat
      /\ totalSize' >= SizeOf(pending') + Total(cache')
      /\ cachedTopics' \in TopicSets \cup {{}}
  <2>1. CASE topics # cachedTopics
    BY <2>1, NoBlocks, NoItems DEF Open
  <2>2. CASE topics = cachedTopics
    <3>1. UNCHANGED <<cachedTopics, cache, totalSize>> /\ pending' = <<>>
      BY <2>2 DEF Open
    <3> QED
      BY <3>1, DroppedPending DEF IInv, Sorts
  <2> QED
    BY <2>1, <2>2
<1>2. candidates' \in Seq(0..End)
  <2>1. candidates' \in EvictableLists(cache', start, None)
    BY DEF Open
  <2> QED
    BY <1>1, <2>1, EvictFacts
<1>3. start \in 0..End /\ start \in 0..(End + 1) /\ 0 \in 0..End
  BY ConstantFacts
<1>4. at' \in 1..(Len(Source) + 1)
  BY FirstFromFacts DEF Open
<1>5. Sorts'
  BY <1>1, <1>2, <1>3, <1>4, NoItems DEF Sorts, Open
<1>6. Active' /\ Reading'
  BY DEF Active, Reading, Open
<1> QED
  BY <1>1, <1>5, <1>6 DEF IInv

(* A removed block leaves the others as they are. *)
LEMMA RemoveKeeps ==
  ASSUME NEW s \in Seq(Block), NEW i \in 1..Len(s), NEW topics,
         Ordered(s), Sized(s), Whole(s, topics)
  PROVE  /\ RemoveAt(s, i) \in Seq(Block)
         /\ Ordered(RemoveAt(s, i)) /\ Sized(RemoveAt(s, i))
         /\ Whole(RemoveAt(s, i), topics)
<1>1. /\ RemoveAt(s, i) \in Seq(Block) /\ Ordered(RemoveAt(s, i))
      /\ \A k \in 1..Len(RemoveAt(s, i)) :
           \E l \in 1..Len(s) : l # i /\ RemoveAt(s, i)[k] = s[l]
  BY RemoveOrdered
<1>2. Sized(RemoveAt(s, i))
  BY <1>1 DEF Sized
<1>3. Whole(RemoveAt(s, i), topics)
  BY <1>1 DEF Whole
<1> QED
  BY <1>1, <1>2, <1>3

LEMMA DropUnfinishedIInv == IInv /\ DropUnfinished => IInv'
<1> SUFFICES ASSUME IInv, DropUnfinished PROVE IInv'
  OBVIOUS
<1> USE DEF eviction, reading, history
<1> DEFINE k == BlockAt(readHead)
<1>1. /\ cache \in Seq(Block) /\ pending \in Seq(Item) /\ totalSize \in Nat
      /\ Ordered(cache) /\ Sized(cache) /\ Whole(cache, cachedTopics)
      /\ totalSize >= SizeOf(pending) + Total(cache)
  BY DEF IInv, Sorts
<1>2. k \in 1..Len(cache) /\ cache' = RemoveAt(cache, k)
  BY <1>1, BlockAtFacts DEF DropUnfinished
<1>3. UNCHANGED <<cachedTopics, totalSize, pending>>
  BY DEF DropUnfinished
<1> HIDE DEF k
<1>4. /\ cache' \in Seq(Block) /\ Ordered(cache') /\ Sized(cache')
      /\ Whole(cache', cachedTopics')
  BY <1>1, <1>2, <1>3, RemoveKeeps
<1>5. totalSize' >= SizeOf(pending') + Total(cache')
  <2>1. /\ Total(cache') \in Nat /\ cache[k].size \in Nat
        /\ Total(cache) = Total(cache') + cache[k].size
    BY <1>1, <1>2, TotalRemoved, BlocksFacts
  <2>2. SizeOf(pending) \in Nat
    BY <1>1, SizesNat
  <2> QED
    BY <1>1, <1>3, <2>1, <2>2
<1>6. Sorts'
  BY <1>4 DEF IInv, Sorts, DropUnfinished
<1>7. Active' /\ Reading'
  BY DEF Active, Reading, DropUnfinished
<1> QED
  BY <1>4, <1>5, <1>6, <1>7 DEF IInv

(* The gap that is read from the source is free of blocks. *)
LEMMA GapFacts ==
  ASSUME IInv, readHead <= maxEnd, BlockAt(readHead) = 0
  PROVE  /\ GapEnd \in 0..End /\ readHead \in 0..End /\ readHead <= GapEnd
         /\ \A k \in 1..Len(cache) : Apart(cache[k], readHead, GapEnd)
<1>1. /\ cache \in Seq(Block) /\ Ordered(cache)
      /\ readHead \in 0..(End + 1) /\ maxEnd \in 0..End
  BY ConstantFacts DEF IInv, Sorts
<1>2. readHead \in 0..End /\ readHead \in Nat /\ maxEnd \in Nat
  BY <1>1, ConstantFacts
<1>3. \A k \in 1..Len(cache) : ~Covers(cache[k], readHead)
  <2>1. 0 \notin 1..Len(cache)
    OBVIOUS
  <2> QED
    BY <1>1, <2>1, BlockAtFacts
<1> DEFINE n == BlockAfter(readHead)
<1>4. \/ n = 0 /\ \A k \in 1..Len(cache) : ~(readHead < cache[k].start)
      \/ /\ n \in 1..Len(cache) /\ readHead < cache[n].start
         /\ \A k \in 1..Len(cache) : readHead < cache[k].start => n <= k
  BY <1>1, BlockAfterFacts
<1>5. GapEnd = IF n # 0 /\ cache[n].start - 1 < maxEnd
               THEN cache[n].start - 1 ELSE maxEnd
  BY DEF GapEnd
<1> HIDE DEF n
<1>6. ASSUME NEW k \in 1..Len(cache)
      PROVE  /\ cache[k].start \in Nat /\ cache[k].end \in Nat
             /\ cache[k].start <= cache[k].end
             /\ cache[k].end < readHead \/ readHead < cache[k].start
  <2>1. /\ cache[k].start \in Nat /\ cache[k].end \in Nat
        /\ cache[k].start <= cache[k].end
    BY <1>1, BlocksFacts DEF Ordered
  <2> QED
    BY <1>2, <1>3, <2>1 DEF Covers
<1>7. GapEnd \in 0..End /\ readHead <= GapEnd
  <2>1. CASE n # 0 /\ cache[n].start - 1 < maxEnd
    <3>1. cache[n].start \in Nat /\ readHead < cache[n].start
      BY <1>4, <1>6, <2>1
    <3> QED
      BY <1>1, <1>2, <1>5, <2>1, <3>1, ConstantFacts
  <2>2. CASE ~(n # 0 /\ cache[n].start - 1 < maxEnd)
    BY <1>1, <1>5, <2>2
  <2> QED
    BY <2>1, <2>2
<1>8. ASSUME NEW k \in 1..Len(cache), ~(cache[k].end < readHead)
      PROVE  GapEnd < cache[k].start
  <2>1. readHead < cache[k].start
    BY <1>6, <1>8
  <2>2. n \in 1..Len(cache) /\ n <= k /\ n # 0
    BY <1>4, <2>1
  <2>3. /\ cache[n].start \in Nat /\ cache[n].end \in Nat
        /\ cache[n].start <= cache[n].end /\ cache[k].start \in Nat
        /\ n < k => cache[n].end < cache[k].start
    BY <1>1, <1>6, <2>2 DEF Ordered
  <2>4. cache[n].start <= cache[k].start
    BY <2>2, <2>3
  <2> QED
    BY <1>1, <1>2, <1>5, <2>2, <2>3, <2>4
<1> QED
  BY <1>2, <1>7, <1>8 DEF Apart

LEMMA OpenSourceIInv == IInv /\ OpenSource => IInv'
<1> SUFFICES ASSUME IInv, OpenSource PROVE IInv'
  OBVIOUS
<1> USE DEF store, eviction, history
<1>1. /\ GapEnd \in 0..End /\ readHead \in 0..End /\ readHead <= GapEnd
      /\ \A k \in 1..Len(cache) : Apart(cache[k], readHead, GapEnd)
  BY GapFacts DEF OpenSource
<1>2. /\ pc' = "read" /\ sourceReadEnd' = GapEnd /\ lastTime' = readHead
      /\ pending' = <<>> /\ block' = None
      /\ unread' = SourceResults(readHead, GapEnd)
      /\ UNCHANGED <<cachedTopics, cache, totalSize, readHead, currentReadHead,
                     candidates, maxEnd, item, at>>
  BY DEF OpenSource
<1>3. Sorts'
  <2>1. unread' \subseteq 1..Len(Source)
    BY <1>2 DEF SourceResults
  <2> QED
    BY <1>1, <1>2, <2>1, NoItems DEF IInv, Sorts
<1>4. Active'
  <2>1. ASSUME NEW k \in 1..Len(cache) PROVE cache[k].start # None
    <3>1. cache[k].start \in Nat
      BY BlocksFacts DEF IInv, Sorts
    <3> QED
      BY <3>1 DEF None
  <2> QED
    BY <1>1, <1>2, <2>1 DEF Active
<1>5. Reading'
  <2>1. \A i \in unread' : /\ Source[i].time \in lastTime'..sourceReadEnd'
                           /\ Matches(i)'
    BY <1>2 DEF SourceResults, Matches
  <2>2. UnreadMessages(unread') \cup MessagesOf(pending')
          = MessagesIn(cachedTopics', lastTime', sourceReadEnd')
    <3>1. UnreadMessages(unread') = MessagesIn(cachedTopics, readHead, GapEnd)
      BY <1>2 DEF SourceResults, Matches, UnreadMessages, MessagesIn
    <3> QED
      BY <1>2, <3>1, NoItems
  <2> QED
    BY <1>1, <1>2, <2>1, <2>2, NoItems DEF Reading
<1> QED
  BY <1>2, <1>3, <1>4, <1>5, DroppedPending DEF IInv
-----------------------------------------------------------------------------
(* Writing results to a block.                                              *)

LEMMA MessagesSplit ==
  ASSUME NEW topics, NEW a \in Int, NEW b \in Int, NEW c \in Int,
         a <= b, b <= c + 1
  PROVE  MessagesIn(topics, a, c)
           = MessagesIn(topics, a, b - 1) \cup MessagesIn(topics, b, c)
<1>1. \A i \in 1..Len(Source) : Source[i].time \in Int
  BY SourceFacts, ConstantFacts
<1>2. ASSUME NEW i \in 1..Len(Source)
      PROVE  Source[i].time \in a..c
               <=> Source[i].time \in a..(b - 1) \/ Source[i].time \in b..c
  BY <1>1
<1> QED
  BY <1>2 DEF MessagesIn

LEMMA WriteBlock ==
  ASSUME NEW s \in Seq(Block), NEW topics, NEW to \in Int,
         Ordered(s), Sized(s), Whole(s, topics),
         NEW k \in 1..Len(s), NEW b \in Block,
         b.start = s[k].start, b.start <= b.end, b.end <= to,
         \A l \in 1..Len(s) : l # k => Apart(s[l], b.start, to),
         b.size = SizeOf(b.items),
         ~Unfinished(b) =>
           MessagesOf(b.items) = MessagesIn(topics, b.start, b.end),
         NEW r, r = [s EXCEPT ![k] = b]
  PROVE  /\ r \in Seq(Block) /\ Len(r) = Len(s)
         /\ \A l \in 1..Len(s) : r[l] = IF l = k THEN b ELSE s[l]
         /\ Ordered(r) /\ Sized(r) /\ Whole(r, topics)
         /\ Total(r) \in Nat /\ Total(r) + s[k].size = Total(s) + b.size
<1>1. /\ r \in Seq(Block) /\ Len(r) = Len(s)
      /\ \A l \in 1..Len(s) : r[l] = IF l = k THEN b ELSE s[l]
  BY ExceptSeq
<1>2. Ordered(r)
  <2>1. ASSUME NEW l \in 1..Len(s), l # k
        PROVE  s[l].end < b.start \/ b.end < s[l].start
    <3>1. /\ s[l].start \in Nat /\ s[l].end \in Nat
          /\ b.start \in Nat /\ b.end \in Nat
      BY BlocksFacts, BlockFacts
    <3>2. s[l].end < b.start \/ to < s[l].start
      BY <2>1 DEF Apart
    <3> QED
      BY <3>1, <3>2
  <2> QED
    BY <2>1, ReplaceOrdered
<1>3. Total(r) \in Nat /\ Total(r) + s[k].size = Total(s) + b.size
  BY TotalReplaced
<1>4. Sized(r)
  <2>1. ASSUME NEW l \in 1..Len(r) PROVE r[l].size = SizeOf(r[l].items)
    BY <1>1 DEF Sized
  <2> QED
    BY <2>1 DEF Sized
<1>5. Whole(r, topics)
  <2>1. ASSUME NEW l \in 1..Len(r), ~Unfinished(r[l])
        PROVE  MessagesOf(r[l].items) = MessagesIn(topics, r[l].start, r[l].end)
    BY <1>1, <2>1 DEF Whole
  <2> QED
    BY <2>1 DEF Whole
<1> QED
  BY <1>1, <1>2, <1>3, <1>4, <1>5

LEMMA FlushFacts ==
  ASSUME IInv, pc = "read", NEW t \in Int,
         lastTime < t, t - 1 <= sourceReadEnd,
         MessagesOf(pending) = MessagesIn(cachedTopics, lastTime, t - 1),
         NEW b \in Block, b.start = readHead, b.size = SizeOf(b.items),
         MessagesOf(b.items) = MessagesIn(cachedTopics, readHead, lastTime - 1)
  PROVE  LET f == Flushed(b, t)
         IN /\ f \in Block /\ f.start = readHead /\ f.end = t - 1
            /\ f.start <= f.end /\ f.size = SizeOf(f.items)
            /\ f.size = b.size + SizeOf(pending)
            /\ MessagesOf(f.items) = MessagesIn(cachedTopics, readHead, t - 1)
<1> DEFINE f == Flushed(b, t)
<1>1. /\ pending \in Seq(Item) /\ sourceReadEnd \in 0..End
      /\ lastTime \in 0..End /\ readHead \in 0..(End + 1)
      /\ readHead <= lastTime
  BY DEF IInv, Sorts, Reading
<1>2. /\ f.start = readHead /\ f.end = t - 1
      /\ f.items = b.items \o pending
      /\ f.size = b.size + SizeOf(pending)
      /\ f = [start |-> b.start, end |-> t - 1, items |-> b.items \o pending,
              size |-> b.size + SizeOf(pending)]
  BY DEF Flushed, NewBlock
<1>3. b.start \in 0..End /\ b.items \in Seq(Item) /\ b.size \in Nat
  BY BlockFacts
<1>4. /\ b.items \o pending \in Seq(Item) /\ SizeOf(pending) \in Nat
      /\ SizeOf(b.items \o pending) = SizeOf(b.items) + SizeOf(pending)
  BY <1>1, <1>3, SizeFacts, SizesNat
<1>5. t - 1 \in 0..End /\ readHead <= t - 1
  BY <1>1, ConstantFacts
<1>6. f \in Block
  BY <1>2, <1>3, <1>4, <1>5 DEF Block
<1>7. MessagesOf(f.items) = MessagesIn(cachedTopics, readHead, t - 1)
  <2>1. MessagesOf(f.items) = MessagesOf(b.items) \cup MessagesOf(pending)
    BY <1>1, <1>2, <1>3, MessagesOfBoth
  <2>2. readHead \in Int /\ lastTime \in Int /\ lastTime <= (t - 1) + 1
    BY <1>1, ConstantFacts
  <2>3. MessagesIn(cachedTopics, readHead, t - 1)
          = MessagesIn(cachedTopics, readHead, lastTime - 1)
              \cup MessagesIn(cachedTopics, lastTime, t - 1)
    BY <1>1, <2>2, MessagesSplit
  <2> QED
    BY <2>1, <2>3
<1> HIDE DEF f
<1>8. f.start <= f.end /\ f.size = SizeOf(f.items)
  BY <1>2, <1>4, <1>5
<1> QED
  BY <1>2, <1>6, <1>7, <1>8 DEF f

(* The cache with the block that the next result needs. *)
OpenedCache ==
  IF block = None
  THEN Inserted(cache, NewBlock(readHead, readHead, <<>>, 0))
  ELSE cache

OpenedIndex == IndexOf(OpenedCache, IF block = None THEN readHead ELSE block)

LEMMA OpenedFacts ==
  ASSUME IInv, pc = "read"
  PROVE  /\ OpenedCache \in Seq(Block)
         /\ Ordered(OpenedCache) /\ Sized(OpenedCache)
         /\ Whole(OpenedCache, cachedTopics)
         /\ Total(OpenedCache) = Total(cache)
         /\ OpenedIndex \in 1..Len(OpenedCache)
         /\ OpenedCache[OpenedIndex].start = readHead
         /\ Filling(OpenedCache[OpenedIndex], cachedTopics, lastTime,
                    sourceReadEnd)
         /\ \A l \in 1..Len(OpenedCache) :
              l # OpenedIndex =>
                Apart(OpenedCache[l], readHead, sourceReadEnd)
<1>1. /\ cache \in Seq(Block) /\ Ordered(cache) /\ Sized(cache)
      /\ Whole(cache, cachedTopics) /\ sourceReadEnd \in 0..End
      /\ lastTime \in 0..End /\ readHead \in 0..(End + 1)
  BY DEF IInv, Sorts
<1>2. /\ readHead <= lastTime /\ lastTime <= sourceReadEnd
      /\ block \in {None, readHead}
      /\ block = None => lastTime = readHead
  BY DEF IInv, Reading
<1>3. readHead \in 0..End /\ readHead \in Nat /\ sourceReadEnd \in Nat
  BY <1>1, <1>2, ConstantFacts
<1>4. /\ block # None => \E k \in 1..Len(cache) : cache[k].start = block
      /\ \A k \in 1..Len(cache) :
           IF cache[k].start = block
           THEN Filling(cache[k], cachedTopics, lastTime, sourceReadEnd)
           ELSE Apart(cache[k], readHead, sourceReadEnd)
  BY DEF IInv, Active
<1>5. CASE block # None
  <2>1. block = readHead /\ OpenedCache = cache
    BY <1>2, <1>5 DEF OpenedCache
  <2> DEFINE k == OpenedIndex
  <2>2. k = IndexOf(cache, block)
    BY <1>5, <2>1 DEF OpenedIndex
  <2>3. k \in 1..Len(cache) /\ cache[k].start = block
    BY <1>1, <1>4, <1>5, <2>2, IndexOfFacts
  <2> HIDE DEF k
  <2>4. ASSUME NEW l \in 1..Len(cache), l # k
        PROVE  Apart(cache[l], readHead, sourceReadEnd)
    <3>1. cache[l].start # block
      BY <1>1, <2>3, <2>4, StartsDiffer
    <3> QED
      BY <1>4, <3>1
  <2>5. Filling(cache[k], cachedTopics, lastTime, sourceReadEnd)
    BY <1>4, <2>3
  <2> QED
    BY <1>1, <2>1, <2>3, <2>4, <2>5 DEF k
<1>6. CASE block = None
  <2> DEFINE new == NewBlock(readHead, readHead, <<>>, 0)
             s == Inserted(cache, new)
             k == IndexOf(s, readHead)
  <2>1. /\ new \in Block /\ new.start = readHead /\ new.end = readHead
        /\ new.items = <<>> /\ new.size = 0
    BY <1>3, NoItems DEF NewBlock, Block
  <2>2. OpenedCache = s /\ OpenedIndex = k
    BY <1>6 DEF OpenedCache, OpenedIndex
  <2> HIDE DEF new
  <2>3. ASSUME NEW l \in 1..Len(cache)
        PROVE  /\ Apart(cache[l], readHead, sourceReadEnd)
               /\ cache[l].end < new.start \/ new.end < cache[l].start
    <3>1. cache[l].start \in Nat /\ cache[l].end \in Nat
      BY <1>1, BlocksFacts
    <3>2. Apart(cache[l], readHead, sourceReadEnd)
      BY <1>4, <1>6, <3>1 DEF None
    <3> QED
      BY <1>1, <1>2, <1>3, <2>1, <3>1, <3>2 DEF Apart
  <2>4. s \in Seq(Block) /\ Ordered(s)
    BY <1>1, <1>3, <2>1, <2>3, InsertOrdered
  <2>5. PICK i \in 1..Len(s) :
          /\ s[i] = new
          /\ \A l \in 1..Len(s) : l # i => \E m \in 1..Len(cache) : s[l] = cache[m]
    BY <1>1, <1>3, <2>1, <2>3, InsertOrdered
  <2>6. Total(s) = Total(cache)
    <3>1. Total(s) = Total(cache) + new.size
      BY <1>1, <2>1, TotalInserted
    <3> QED
      BY <1>1, <2>1, <3>1, TotalIsSum
  <2> HIDE DEF s
  <2>7. k = i
    <3>1. k \in 1..Len(s) /\ s[k].start = readHead
      BY <2>1, <2>4, <2>5, IndexOfFacts
    <3> HIDE DEF k
    <3> QED
      BY <2>1, <2>4, <2>5, <3>1, StartsDiffer
  <2> HIDE DEF k
  <2>8. Sized(s)
    <3>1. new.size = SizeOf(new.items)
      BY <2>1, NoItems
    <3> QED
      BY <1>1, <2>5, <3>1 DEF Sized
  <2>9. Whole(s, cachedTopics)
    <3>1. Unfinished(new)
      BY <2>1 DEF Unfinished
    <3> QED
      BY <1>1, <2>5, <3>1 DEF Whole
  <2>10. Filling(s[k], cachedTopics, lastTime, sourceReadEnd)
    <3>1. MessagesIn(cachedTopics, readHead, lastTime - 1) = {}
      BY <1>2, <1>3, <1>6, SourceFacts DEF MessagesIn
    <3>2. MessagesOf(new.items) = {}
      BY <2>1, NoItems
    <3>3. ~(new.size >= MaxBlockSize)
      BY <2>1, ConstantFacts
    <3> QED
      BY <1>2, <1>6, <2>1, <2>5, <2>7, <3>1, <3>2, <3>3
         DEF Filling, Unfinished
  <2>11. \A l \in 1..Len(s) : l # k => Apart(s[l], readHead, sourceReadEnd)
    BY <2>3, <2>5, <2>7
  <2> QED
    BY <2>1, <2>2, <2>4, <2>5, <2>6, <2>7, <2>8, <2>9, <2>10, <2>11
<1> QED
  BY <1>5, <1>6

LEMMA SourceEndsIInv == IInv /\ SourceEnds => IInv'
<1> SUFFICES ASSUME IInv, SourceEnds PROVE IInv'
  OBVIOUS
<1> USE DEF eviction, history
<1>1. /\ cache \in Seq(Block) /\ Ordered(cache) /\ Sized(cache)
      /\ Whole(cache, cachedTopics) /\ sourceReadEnd \in 0..End
      /\ lastTime \in 0..End /\ pending \in Seq(Item) /\ totalSize \in Nat
      /\ totalSize >= SizeOf(pending) + Total(cache)
      /\ readHead \in 0..(End + 1)
  BY DEF IInv, Sorts
<1>2. pc = "read" /\ unread = {}
  BY DEF SourceEnds
<1>3. /\ readHead <= lastTime /\ lastTime <= sourceReadEnd
      /\ block \in {None, readHead}
      /\ block = None => lastTime = readHead
  BY <1>2 DEF IInv, Reading
<1>4. MessagesOf(pending) = MessagesIn(cachedTopics, lastTime, sourceReadEnd)
  <2>1. UnreadMessages(unread) = {}
    BY <1>2 DEF UnreadMessages
  <2> QED
    BY <1>2, <2>1 DEF IInv, Reading
<1>5. SizeOf(pending) \in Nat /\ Total(cache) \in Nat
  BY <1>1, SizesNat, TotalIsSum
<1>6. /\ cache' \in Seq(Block) /\ Ordered(cache') /\ Sized(cache')
      /\ Whole(cache', cachedTopics)
      /\ Total(cache') = Total(cache) + SizeOf(pending)
  <2>1. CASE block # None
    <3> DEFINE k == IndexOf(cache, block)  t == sourceReadEnd + 1
               f == Flushed(cache[k], t)
    <3>1. cache' = [cache EXCEPT ![k] = f]
      BY <2>1 DEF SourceEnds
    <3>2. OpenedCache = cache /\ OpenedIndex = k
      BY <2>1 DEF OpenedCache, OpenedIndex
    <3> HIDE DEF k
    <3>3. /\ k \in 1..Len(cache) /\ cache[k].start = readHead
          /\ Filling(cache[k], cachedTopics, lastTime, sourceReadEnd)
          /\ \A l \in 1..Len(cache) :
               l # k => Apart(cache[l], readHead, sourceReadEnd)
      BY <1>2, <3>2, OpenedFacts
    <3>4. /\ t \in Int /\ lastTime < t /\ t - 1 = sourceReadEnd
          /\ sourceReadEnd \in Int /\ sourceReadEnd <= sourceReadEnd
      BY <1>1, <1>3, ConstantFacts
    <3>5. /\ cache[k] \in Block /\ cache[k].size = SizeOf(cache[k].items)
          /\ cache[k].size \in Nat
      BY <1>1, <3>3, BlocksFacts DEF Sized
    <3>6. MessagesOf(cache[k].items)
            = MessagesIn(cachedTopics, readHead, lastTime - 1)
      BY <3>3 DEF Filling
    <3> HIDE DEF t
    <3>7. /\ f \in Block /\ f.start = readHead /\ f.end = sourceReadEnd
          /\ f.start <= f.end /\ f.size = SizeOf(f.items)
          /\ f.size = cache[k].size + SizeOf(pending)
          /\ MessagesOf(f.items)
               = MessagesIn(cachedTopics, readHead, sourceReadEnd)
      BY <1>2, <1>4, <3>3, <3>4, <3>5, <3>6, FlushFacts
    <3> HIDE DEF f
    <3> DEFINE r == [cache EXCEPT ![k] = f]
    <3>8. /\ r \in Seq(Block) /\ Ordered(r) /\ Sized(r)
          /\ Whole(r, cachedTopics) /\ Total(r) \in Nat
          /\ Total(r) + cache[k].size = Total(cache) + f.size
      <4>1. /\ f.start = cache[k].start /\ f.start <= f.end
            /\ f.end <= sourceReadEnd /\ f.size = SizeOf(f.items)
        BY <3>3, <3>4, <3>7
      <4>2. /\ f \in Block /\ k \in 1..Len(cache) /\ sourceReadEnd \in Int
            /\ cache \in Seq(Block) /\ Ordered(cache) /\ Sized(cache)
            /\ Whole(cache, cachedTopics)
        BY <1>1, <3>3, <3>4, <3>7
      <4>3. /\ MessagesOf(f.items) = MessagesIn(cachedTopics, f.start, f.end)
            /\ \A l \in 1..Len(cache) :
                 l # k => Apart(cache[l], f.start, sourceReadEnd)
        BY <3>3, <3>7
      <4> QED
        BY <4>1, <4>2, <4>3, WriteBlock
    <3> HIDE DEF r
    <3>9. Total(r) = Total(cache) + SizeOf(pending)
      BY <1>5, <3>5, <3>7, <3>8
    <3>10. cache' = r
      BY <3>1 DEF r
    <3> QED
      BY <3>8, <3>9, <3>10
  <2>2. CASE block = None
    <3> DEFINE new == NewBlock(readHead, sourceReadEnd, pending, SizeOf(pending))
    <3>1. cache' = Inserted(cache, new)
      BY <2>2 DEF SourceEnds
    <3>2. /\ readHead \in 0..End /\ readHead \in Nat
          /\ sourceReadEnd \in Nat /\ readHead <= sourceReadEnd
      BY <1>1, <1>3, ConstantFacts
    <3>3. /\ new \in Block /\ new.start = readHead /\ new.end = sourceReadEnd
          /\ new.items = pending /\ new.size = SizeOf(pending)
      BY <1>1, <1>5, <3>2 DEF NewBlock, Block
    <3> HIDE DEF new
    <3>4. ASSUME NEW l \in 1..Len(cache)
          PROVE  cache[l].end < new.start \/ new.end < cache[l].start
      <4>1. cache[l].start \in Nat /\ cache[l].end \in Nat
        BY <1>1, BlocksFacts
      <4>2. Apart(cache[l], readHead, sourceReadEnd)
        BY <1>2, <2>2, <4>1 DEF IInv, Active, None
      <4> QED
        BY <3>3, <4>2 DEF Apart
    <3>5. cache' \in Seq(Block) /\ Ordered(cache')
      BY <1>1, <3>1, <3>2, <3>3, <3>4, InsertOrdered
    <3>6. PICK i \in 1..Len(cache') :
            /\ cache'[i] = new
            /\ \A l \in 1..Len(cache') :
                 l # i => \E m \in 1..Len(cache) : cache'[l] = cache[m]
      <4> DEFINE r == Inserted(cache, new)
      <4>1. new.start <= new.end
        BY <3>2, <3>3
      <4>2. \E i \in 1..Len(r) :
              /\ r[i] = new
              /\ \A l \in 1..Len(r) :
                   l # i => \E m \in 1..Len(cache) : r[l] = cache[m]
        BY <1>1, <3>3, <3>4, <4>1, InsertOrdered
      <4> HIDE DEF r
      <4>3. cache' = r
        BY <3>1 DEF r
      <4> QED
        BY <4>2, <4>3
    <3>7. Total(cache') = Total(cache) + SizeOf(pending)
      BY <1>1, <3>1, <3>3, TotalInserted
    <3>8. Sized(cache')
      BY <1>1, <3>3, <3>6 DEF Sized
    <3>9. Whole(cache', cachedTopics)
      <4>1. MessagesOf(new.items)
              = MessagesIn(cachedTopics, new.start, new.end)
        BY <1>3, <1>4, <2>2, <3>3
      <4> QED
        BY <1>1, <3>6, <4>1 DEF Whole
    <3> QED
      BY <3>5, <3>7, <3>8, <3>9
  <2> QED
    BY <2>1, <2>2
<1>7. Sorts'
  <2>1. readHead' \in 0..(End + 1)
    BY <1>1, ConstantFacts DEF SourceEnds
  <2> QED
    BY <1>6, <2>1, NoItems DEF IInv, Sorts, SourceEnds, None
<1>8. Active' /\ Reading'
  BY DEF Active, Reading, SourceEnds
<1>9. totalSize' >= SizeOf(pending') + Total(cache')
  <2>1. totalSize' = totalSize /\ pending' = <<>>
    BY DEF SourceEnds
  <2> QED
    BY <1>1, <1>5, <1>6, <2>1, NoItems
<1>10. cachedTopics' = cachedTopics
  BY DEF SourceEnds
<1> QED
  BY <1>6, <1>7, <1>8, <1>9, <1>10 DEF IInv

-----------------------------------------------------------------------------
(* Reading one result.                                                      *)

(* maybePurgeCache takes out at most one block, never the active one, and   *)
(* what it says is held is no less than what is held.                       *)
LEMMA PurgeFacts ==
  ASSUME NEW s \in Seq(Block), NEW topics,
         Ordered(s), Sized(s), Whole(s, topics),
         NEW active, NEW size \in Nat, NEW rest \in Nat,
         totalSize \in Nat, totalSize >= rest + Total(s),
         candidates \in Seq(0..End),
         MaybePurge(s, active, size)
  PROVE  /\ cache' \in Seq(Block) /\ Ordered(cache') /\ Sized(cache')
         /\ Whole(cache', topics)
         /\ \A k \in 1..Len(cache') : \E l \in 1..Len(s) : cache'[k] = s[l]
         /\ \A l \in 1..Len(s) :
              s[l].start = active =>
                \E k \in 1..Len(cache') : cache'[k] = s[l]
         /\ pc' \in {"read", "failed"}
         /\ candidates' \in Seq(0..End)
         /\ totalSize' \in Nat
         /\ totalSize' >= rest + Total(cache')
         /\ pc' = "read" => totalSize' >= rest + size + Total(cache')
<1>1. Total(s) \in Nat
  BY TotalIsSum
<1>2. ASSUME cache' = s, totalSize' = totalSize + size, pc' = "read",
             candidates' \in Seq(0..End)
      PROVE  /\ totalSize' \in Nat /\ totalSize' >= rest + Total(cache')
             /\ totalSize' >= rest + size + Total(cache')
  BY <1>1, <1>2
<1>3. CASE totalSize + size <= MaxTotalSize
  <2>1. /\ cache' = s /\ totalSize' = totalSize + size /\ pc' = "read"
        /\ candidates' = candidates
    BY <1>3 DEF MaybePurge, TotalWith
  <2> QED
    BY <1>2, <2>1
<1>4. CASE ~(totalSize + size <= MaxTotalSize)
  <2> DEFINE Evicts(list) ==
        IF list = <<>>
        THEN /\ cache' = s
             /\ totalSize' = TotalWith(0, size)
             /\ candidates' = list
             /\ pc' = "read"
        ELSE LET k == IndexOf(s, Head(list)) IN
             /\ candidates' = Tail(list)
             /\ IF s[k].start = active
                THEN pc' = "failed" /\ cache' = s /\ UNCHANGED totalSize
                ELSE /\ pc' = "read"
                     /\ cache' = RemoveAt(s, k)
                     /\ totalSize' = TotalWith(s[k].size, size)
  <2>1. PICK list \in EvictableLists(s, currentReadHead, active) : Evicts(list)
    BY <1>4 DEF MaybePurge
  <2>2. /\ list \in Seq(0..End)
        /\ list # <<>> =>
             /\ Tail(list) \in Seq(0..End)
             /\ IndexOf(s, Head(list)) \in 1..Len(s)
    BY EvictFacts
  <2>3. CASE list = <<>>
    <3>1. /\ cache' = s /\ totalSize' = totalSize + size /\ pc' = "read"
          /\ candidates' = list
      BY <2>1, <2>3 DEF TotalWith
    <3> QED
      BY <1>2, <2>2, <3>1
  <2>4. CASE list # <<>>
    <3> DEFINE k == IndexOf(s, Head(list))
    <3>1. /\ k \in 1..Len(s)
          /\ candidates' = Tail(list)
          /\ IF s[k].start = active
             THEN pc' = "failed" /\ cache' = s /\ totalSize' = totalSize
             ELSE /\ pc' = "read"
                  /\ cache' = RemoveAt(s, k)
                  /\ totalSize' = totalSize - s[k].size + size
      BY <2>1, <2>2, <2>4 DEF TotalWith
    <3> HIDE DEF k
    <3>2. CASE s[k].start = active
      BY <2>2, <2>4, <3>1, <3>2
    <3>3. CASE s[k].start # active
      <4>1. /\ pc' = "read" /\ cache' = RemoveAt(s, k)
            /\ totalSize' = totalSize - s[k].size + size
        BY <3>1, <3>3
      <4>2. /\ cache' \in Seq(Block) /\ Ordered(cache') /\ Sized(cache')
            /\ Whole(cache', topics)
        BY <3>1, <4>1, RemoveKeeps
      <4>3. /\ \A n \in 1..Len(cache') :
                 \E l \in 1..Len(s) : cache'[n] = s[l]
            /\ \A l \in 1..Len(s) :
                 l # k => \E n \in 1..Len(cache') : cache'[n] = s[l]
        BY <3>1, <4>1, RemoveOrdered
      <4>4. /\ Total(cache') \in Nat /\ s[k].size \in Nat
            /\ Total(s) = Total(cache') + s[k].size
        BY <3>1, <4>1, TotalRemoved, BlocksFacts
      <4>5. /\ totalSize' \in Nat
            /\ totalSize' >= rest + Total(cache')
            /\ totalSize' >= rest + size + Total(cache')
        <5> DEFINE left == Total(cache')  gone == s[k].size  all == Total(s)
        <5>1. /\ totalSize' = totalSize - gone + size
              /\ left \in Nat /\ gone \in Nat /\ all = left + gone
              /\ totalSize >= rest + all
          BY <4>1, <4>4
        <5> HIDE DEF left, gone, all
        <5>2. /\ totalSize' \in Nat
              /\ totalSize' >= rest + left
              /\ totalSize' >= rest + size + left
          BY <5>1
        <5> QED
          BY <5>2 DEF left
      <4> QED
        BY <2>2, <2>4, <3>1, <3>3, <4>1, <4>2, <4>3, <4>5
    <3> QED
      BY <3>2, <3>3
  <2> QED
    BY <2>3, <2>4
<1> QED
  BY <1>3, <1>4

(* The next result is one of the earliest unread. *)
LEMMA NextUnread ==
  ASSUME IInv, pc = "read", unread # {}
  PROVE  /\ Least(unread) \in unread /\ Least(unread) \in 1..Len(Source)
         /\ Matches(Least(unread))
         /\ Source[Least(unread)].time \in lastTime..sourceReadEnd
         /\ Source[Least(unread)].time \in 0..End
         /\ Source[Least(unread)].size \in Nat
         /\ \A j \in unread : Source[Least(unread)].time <= Source[j].time
<1> DEFINE i == Least(unread)
<1>1. unread \subseteq 1..Len(Source) /\ Len(Source) \in Nat
  BY ConstantFacts DEF IInv, Sorts
<1>2. i \in unread /\ \A j \in unread : i <= j
  BY <1>1, LeastFacts
<1> HIDE DEF i
<1>3. ASSUME NEW j \in unread PROVE Source[i].time <= Source[j].time
  <2>1. i \in 1..Len(Source) /\ j \in 1..Len(Source) /\ (i < j \/ i = j)
    BY <1>1, <1>2
  <2>2. Source[i].time \in Nat
    BY <2>1, SourceFacts, ConstantFacts
  <2>3. i < j => Source[i].time <= Source[j].time
    BY <2>1, CachingAssumption
  <2> QED
    BY <2>1, <2>2, <2>3
<1>4. i \in 1..Len(Source)
  BY <1>1, <1>2
<1>5. Matches(i) /\ Source[i].time \in lastTime..sourceReadEnd
  BY <1>2 DEF IInv, Reading
<1> QED
  BY <1>2, <1>3, <1>4, <1>5, SourceFacts DEF i

(* Before the time that a result moves on to, everything waits. *)
LEMMA WaitingFacts ==
  ASSUME IInv, pc = "read", NEW t \in Int,
         \A j \in unread : t <= Source[j].time,
         lastTime < t, t <= sourceReadEnd
  PROVE  /\ MessagesOf(pending) = MessagesIn(cachedTopics, lastTime, t - 1)
         /\ UnreadMessages(unread) = MessagesIn(cachedTopics, t, sourceReadEnd)
<1>1. /\ unread \subseteq 1..Len(Source)
      /\ lastTime \in Int /\ sourceReadEnd \in Int
  BY ConstantFacts DEF IInv, Sorts
<1>2. /\ \A i \in MessagesOf(pending) : Source[i].time = lastTime
      /\ UnreadMessages(unread) \cup MessagesOf(pending)
           = MessagesIn(cachedTopics, lastTime, sourceReadEnd)
  BY DEF IInv, Reading
<1>3. \A i \in 1..Len(Source) : Source[i].time \in Int
  BY SourceFacts, ConstantFacts
<1> DEFINE U == UnreadMessages(unread)  P == MessagesOf(pending)
           All == MessagesIn(cachedTopics, lastTime, sourceReadEnd)
<1>4. /\ \A i \in U : i \in 1..Len(Source) /\ t <= Source[i].time
      /\ \A i \in P : Source[i].time = lastTime
      /\ U \cup P = All
  BY <1>1, <1>2 DEF UnreadMessages
<1>5. /\ All \subseteq 1..Len(Source)
      /\ MessagesIn(cachedTopics, lastTime, t - 1)
           = {i \in All : Source[i].time < t}
      /\ MessagesIn(cachedTopics, t, sourceReadEnd)
           = {i \in All : t <= Source[i].time}
  BY <1>1, <1>3 DEF MessagesIn
<1> HIDE DEF U, P, All
<1>6. P = {i \in All : Source[i].time < t}
  BY <1>1, <1>3, <1>4, <1>5
<1>7. U = {i \in All : t <= Source[i].time}
  BY <1>1, <1>3, <1>4, <1>5
<1> QED
  BY <1>5, <1>6, <1>7 DEF U, P

(* What waits when a result was read. *)
LEMMA ReadOne ==
  ASSUME NEW i \in 1..Len(Source),
         NEW waiting \in Seq(Item), NEW x \in Item, x.index = i
  PROVE  /\ Append(waiting, x) \in Seq(Item)
         /\ SizeOf(Append(waiting, x)) = SizeOf(waiting) + Source[i].size
         /\ MessagesOf(Append(waiting, x))
              = MessagesOf(waiting)
                  \cup (IF Source[i].type = "message-event" THEN {i} ELSE {})
<1>1. /\ Append(waiting, x) = waiting \o <<x>>
      /\ Append(waiting, x) \in Seq(Item) /\ <<x>> \in Seq(Item)
  BY AppendIs, SizeOfOne
<1>2. SizeOf(Append(waiting, x)) = SizeOf(waiting) + Source[i].size
  BY <1>1, SizeFacts, SizeOfOne
<1>3. MessagesOf(Append(waiting, x)) = MessagesOf(waiting) \cup MessagesOf(<<x>>)
  BY <1>1, MessagesOfBoth
<1>4. MessagesOf(<<x>>)
        = IF Source[i].type = "message-event" THEN {i} ELSE {}
  BY MessagesOfOne
<1> QED
  BY <1>1, <1>2, <1>3, <1>4

LEMMA ReadResultIInv == IInv /\ ReadResult => IInv'
<1> SUFFICES ASSUME IInv, ReadResult PROVE IInv'
  OBVIOUS
<1> DEFINE i == Least(unread)
           t == Source[i].time
           moves == Source[i].type # "problem" /\ Source[i].time > lastTime
           s == OpenedCache
           k == OpenedIndex
           b == IF moves THEN Flushed(s[k], t) ELSE s[k]
           full == b.size >= MaxBlockSize
           waiting == IF moves THEN <<>> ELSE pending
           r == [s EXCEPT ![k] = b]
           x == [time |-> lastTime', index |-> i]
<1>1. /\ pc = "read" /\ unread # {} /\ unread' = unread \ {i}
      /\ lastTime' = IF moves THEN t ELSE lastTime
      /\ readHead' = IF full THEN b.end + 1 ELSE readHead
      /\ block' = IF full THEN None ELSE b.start
      /\ MaybePurge(r, block', Source[i].size)
      /\ IF pc' = "failed"
         THEN pending' = waiting /\ at' = at
         ELSE pending' = Append(waiting, x) /\ at' = i + 1
      /\ UNCHANGED <<cachedTopics, currentReadHead, maxEnd, item,
                     sourceReadEnd>>
  BY DEF ReadResult, OpenedCache, OpenedIndex, Yielded, history
<1>2. /\ cachedTopics \in TopicSets \cup {{}} /\ totalSize \in Nat
      /\ candidates \in Seq(0..End) /\ unread \subseteq 1..Len(Source)
      /\ sourceReadEnd \in 0..End /\ lastTime \in 0..End
      /\ readHead \in 0..(End + 1) /\ pending \in Seq(Item)
      /\ cache \in Seq(Block) /\ at \in 1..(Len(Source) + 1)
      /\ totalSize >= SizeOf(pending) + Total(cache)
  BY DEF IInv, Sorts
<1>3. /\ readHead <= lastTime /\ lastTime <= sourceReadEnd
      /\ \A j \in unread : Source[j].time \in lastTime..sourceReadEnd /\ Matches(j)
      /\ UnreadMessages(unread) \cup MessagesOf(pending)
           = MessagesIn(cachedTopics, lastTime, sourceReadEnd)
      /\ \A j \in MessagesOf(pending) : Source[j].time = lastTime
  BY <1>1 DEF IInv, Reading
<1>4. /\ i \in unread /\ i \in 1..Len(Source) /\ Source[i].size \in Nat
      /\ t \in lastTime..sourceReadEnd /\ t \in 0..End
      /\ \A j \in unread : t <= Source[j].time
  BY <1>1, NextUnread
<1>5. /\ lastTime \in Int /\ sourceReadEnd \in Int /\ readHead \in Int
      /\ t \in Int /\ readHead \in 0..End
  BY <1>2, <1>3, <1>4, ConstantFacts
<1>6. /\ s \in Seq(Block) /\ Ordered(s) /\ Sized(s)
      /\ Whole(s, cachedTopics) /\ Total(s) = Total(cache)
      /\ k \in 1..Len(s) /\ s[k].start = readHead
  BY <1>1, OpenedFacts
<1>7. /\ Filling(s[k], cachedTopics, lastTime, sourceReadEnd)
      /\ \A l \in 1..Len(s) : l # k => Apart(s[l], readHead, sourceReadEnd)
  BY <1>1, OpenedFacts
<1>8. /\ SizeOf(pending) \in Nat /\ Total(cache) \in Nat
      /\ s[k] \in Block /\ s[k].size \in Nat /\ s[k].end \in Nat
      /\ s[k].size = SizeOf(s[k].items) /\ s[k].start <= s[k].end
      /\ MessagesOf(s[k].items)
           = MessagesIn(cachedTopics, readHead, lastTime - 1)
  BY <1>2, <1>6, <1>7, SizesNat, TotalIsSum, BlocksFacts
     DEF Sized, Ordered, Filling
<1> HIDE DEF i, s, k
<1>9. moves =>
        /\ MessagesOf(pending) = MessagesIn(cachedTopics, lastTime, t - 1)
        /\ UnreadMessages(unread) = MessagesIn(cachedTopics, t, sourceReadEnd)
  <2>1. ASSUME moves PROVE lastTime < t /\ t <= sourceReadEnd
    BY <1>4, <1>5, <2>1
  <2> HIDE DEF t, moves
  <2> QED
    BY <1>1, <1>4, <1>5, <2>1, WaitingFacts
<1>10. /\ b \in Block /\ b.start = readHead /\ b.start <= b.end
       /\ b.end <= sourceReadEnd /\ b.size = SizeOf(b.items)
       /\ ~Unfinished(b) =>
            MessagesOf(b.items) = MessagesIn(cachedTopics, b.start, b.end)
       /\ MessagesOf(b.items) = MessagesIn(cachedTopics, readHead, lastTime' - 1)
       /\ (Unfinished(b) /\ lastTime' = b.start) \/ b.end = lastTime' - 1
       /\ moves => b.end = lastTime' - 1
       /\ b.size + SizeOf(waiting) = s[k].size + SizeOf(pending)
       /\ waiting \in Seq(Item) /\ SizeOf(waiting) \in Nat
  <2>1. CASE moves
    <3> DEFINE f == Flushed(s[k], t)
    <3>1. b = f /\ waiting = <<>> /\ lastTime' = t
      BY <1>1, <2>1
    <3>2. lastTime < t /\ t - 1 <= sourceReadEnd
      BY <1>4, <1>5, <2>1
    <3> HIDE DEF b, waiting, t, moves
    <3>3. /\ f \in Block /\ f.start = readHead /\ f.end = t - 1
          /\ f.start <= f.end /\ f.size = SizeOf(f.items)
          /\ f.size = s[k].size + SizeOf(pending)
          /\ MessagesOf(f.items) = MessagesIn(cachedTopics, readHead, t - 1)
      BY <1>1, <1>5, <1>6, <1>8, <1>9, <2>1, <3>2, FlushFacts
    <3> HIDE DEF f
    <3>4. SizeOf(waiting) = 0 /\ waiting \in Seq(Item)
      BY <3>1, NoItems
    <3>5. b.size + SizeOf(waiting) = s[k].size + SizeOf(pending)
      BY <1>8, <3>1, <3>3, <3>4
    <3> QED
      BY <3>1, <3>2, <3>3, <3>4, <3>5
  <2>2. CASE ~moves
    <3>1. b = s[k] /\ waiting = pending /\ lastTime' = lastTime
      BY <1>1, <2>2
    <3> HIDE DEF b, waiting, t, moves
    <3>2. /\ b.end <= sourceReadEnd
          /\ (Unfinished(b) /\ lastTime = b.start) \/ b.end = lastTime - 1
      BY <1>7, <3>1 DEF Filling
    <3> QED
      BY <1>2, <1>6, <1>8, <2>2, <3>1, <3>2
  <2> QED
    BY <2>1, <2>2
<1>11. full => moves
  BY <1>7 DEF Filling
<1>12. lastTime' \in 0..End /\ readHead <= lastTime' /\ lastTime' <= sourceReadEnd
  BY <1>1, <1>2, <1>3, <1>4, <1>5
<1>13. UnreadMessages(unread) \cup MessagesOf(waiting)
         = MessagesIn(cachedTopics, lastTime', sourceReadEnd)
  BY <1>1, <1>3, <1>9, MessagesOfNone
<1>14. \A j \in MessagesOf(waiting) : Source[j].time = lastTime'
  BY <1>1, <1>3, MessagesOfNone
<1>15. \A j \in unread : Source[j].time \in lastTime'..sourceReadEnd
  <2>1. ASSUME NEW j \in unread PROVE Source[j].time \in lastTime'..sourceReadEnd
    <3>1. Source[j].time \in lastTime..sourceReadEnd /\ t <= Source[j].time
      BY <1>3, <1>4
    <3> QED
      BY <1>1, <1>5, <3>1
  <2> QED
    BY <2>1
<1>16. Source[i].type = "message-event" => t = lastTime'
  BY <1>1, <1>4, <1>5
<1> HIDE DEF t, moves, b, waiting
<1>17. /\ r \in Seq(Block) /\ Len(r) = Len(s)
       /\ \A l \in 1..Len(s) : r[l] = IF l = k THEN b ELSE s[l]
       /\ Ordered(r) /\ Sized(r) /\ Whole(r, cachedTopics)
       /\ Total(r) \in Nat /\ Total(r) + s[k].size = Total(s) + b.size
  <2>1. /\ b \in Block /\ b.start = s[k].start /\ b.start <= b.end
        /\ b.end <= sourceReadEnd /\ b.size = SizeOf(b.items)
        /\ ~Unfinished(b) =>
             MessagesOf(b.items) = MessagesIn(cachedTopics, b.start, b.end)
    BY <1>6, <1>10
  <2>2. \A l \in 1..Len(s) : l # k => Apart(s[l], b.start, sourceReadEnd)
    BY <1>7, <1>10
  <2>3. sourceReadEnd \in Int
    BY <1>5
  <2> QED
    BY <1>6, <2>1, <2>2, <2>3, WriteBlock
<1> HIDE DEF r
<1>18. totalSize >= SizeOf(waiting) + Total(r)
  <2>1. b.size \in Nat
    BY <1>10, BlockFacts
  <2>2. /\ totalSize \in Nat /\ Total(cache) \in Nat /\ Total(r) \in Nat
        /\ SizeOf(pending) \in Nat /\ SizeOf(waiting) \in Nat
        /\ s[k].size \in Nat
    BY <1>2, <1>8, <1>10, <1>17
  <2>3. totalSize >= SizeOf(pending) + Total(cache)
    BY <1>2
  <2>4. Total(r) + s[k].size = Total(cache) + b.size
    BY <1>6, <1>17
  <2>5. b.size + SizeOf(waiting) = s[k].size + SizeOf(pending)
    BY <1>10
  <2> QED
    BY <2>1, <2>2, <2>3, <2>4, <2>5
<1>19. /\ cache' \in Seq(Block) /\ Ordered(cache') /\ Sized(cache')
       /\ Whole(cache', cachedTopics)
       /\ \A n \in 1..Len(cache') : \E l \in 1..Len(r) : cache'[n] = r[l]
       /\ \A l \in 1..Len(r) :
            r[l].start = block' => \E n \in 1..Len(cache') : cache'[n] = r[l]
       /\ pc' \in {"read", "failed"} /\ candidates' \in Seq(0..End)
       /\ totalSize' \in Nat
       /\ totalSize' >= SizeOf(waiting) + Total(cache')
       /\ pc' = "read" =>
            totalSize' >= SizeOf(waiting) + Source[i].size + Total(cache')
  <2>1. /\ Ordered(r) /\ Sized(r) /\ Whole(r, cachedTopics)
        /\ r \in Seq(Block)
    BY <1>17
  <2>2. MaybePurge(r, block', Source[i].size)
    BY <1>1 DEF r
  <2>3. /\ Source[i].size \in Nat /\ SizeOf(waiting) \in Nat
        /\ totalSize \in Nat /\ candidates \in Seq(0..End)
    BY <1>2, <1>4, <1>10
  <2> QED
    BY <1>18, <2>1, <2>2, <2>3, PurgeFacts
<1>20. /\ x \in Item /\ x.index = i
       /\ Append(waiting, x) \in Seq(Item)
       /\ SizeOf(Append(waiting, x)) = SizeOf(waiting) + Source[i].size
       /\ MessagesOf(Append(waiting, x))
            = MessagesOf(waiting)
                \cup (IF Source[i].type = "message-event" THEN {i} ELSE {})
       /\ UnreadMessages(unread \ {i}) \cup MessagesOf(Append(waiting, x))
            = MessagesIn(cachedTopics, lastTime', sourceReadEnd)
  <2>1. x \in Item /\ x.index = i
    BY <1>4, <1>12 DEF Item
  <2> HIDE DEF x
  <2>2. i \in 1..Len(Source) /\ i \in unread
    BY <1>2, <1>4
  <2>3. waiting \in Seq(Item)
    BY <1>10
  <2>4. /\ Append(waiting, x) \in Seq(Item)
        /\ SizeOf(Append(waiting, x)) = SizeOf(waiting) + Source[i].size
        /\ MessagesOf(Append(waiting, x))
             = MessagesOf(waiting)
                 \cup (IF Source[i].type = "message-event" THEN {i} ELSE {})
        /\ UnreadMessages(unread \ {i}) \cup MessagesOf(Append(waiting, x))
             = MessagesIn(cachedTopics, lastTime', sourceReadEnd)
    <3>1. UnreadMessages(unread)
            = UnreadMessages(unread \ {i})
                \cup (IF Source[i].type = "message-event" THEN {i} ELSE {})
      BY <2>2 DEF UnreadMessages
    <3>2. /\ Append(waiting, x) \in Seq(Item)
          /\ SizeOf(Append(waiting, x)) = SizeOf(waiting) + Source[i].size
      BY <2>1, <2>2, <2>3, ReadOne
    <3>3. MessagesOf(Append(waiting, x))
            = MessagesOf(waiting)
                \cup (IF Source[i].type = "message-event" THEN {i} ELSE {})
      BY <2>1, <2>2, <2>3, ReadOne
    <3> QED
      BY <1>13, <3>1, <3>2, <3>3
  <2> QED
    BY <2>1, <2>4
<1> HIDE DEF x
<1>21. /\ pending' \in Seq(Item)
       /\ totalSize' >= SizeOf(pending') + Total(cache')
  <2>1. CASE pc' = "failed"
    BY <1>1, <1>10, <1>19, <2>1
  <2>2. CASE pc' = "read"
    <3>1. pending' = Append(waiting, x)
      BY <1>1, <2>2
    <3> QED
      BY <1>19, <1>20, <2>2, <3>1
  <2> QED
    BY <1>19, <2>1, <2>2
<1>22. /\ block' \in {None, readHead'} /\ readHead <= readHead'
       /\ readHead' \in 0..End /\ readHead' <= lastTime'
       /\ block' = None => full /\ lastTime' = readHead' /\ b.end < readHead'
       /\ block' # None => readHead' = readHead /\ block' = readHead
  <2>1. b.start \in Nat /\ b.end \in Nat
    BY <1>10, BlockFacts
  <2>2. CASE full
    <3>1. readHead' = b.end + 1 /\ block' = None /\ b.end = lastTime' - 1
      BY <1>1, <1>10, <1>11, <2>2
    <3>2. b.start = readHead /\ b.start <= b.end /\ b.end <= sourceReadEnd
      BY <1>10
    <3>3. lastTime' \in 0..End /\ lastTime' <= sourceReadEnd
      BY <1>12
    <3>4. readHead' = lastTime'
      <4>1. lastTime' \in Int
        BY <1>12, ConstantFacts
      <4>2. readHead' = (lastTime' - 1) + 1
        BY <3>1
      <4>3. \A m \in Int : (m - 1) + 1 = m
        OBVIOUS
      <4> QED
        BY <4>1, <4>2, <4>3, Zenon
    <3>5. readHead <= readHead' /\ b.end < readHead'
      BY <1>5, <2>1, <3>1, <3>2
    <3>6. readHead' \in 0..End /\ readHead' <= lastTime'
      BY <3>3, <3>4
    <3> QED
      BY <2>2, <3>1, <3>4, <3>5, <3>6
  <2>3. CASE ~full
    <3>1. readHead' = readHead /\ block' = readHead
      BY <1>1, <1>10, <2>3
    <3> QED
      BY <1>5, <1>12, <3>1 DEF None
  <2> QED
    BY <2>2, <2>3
<1>23. Sorts'
  <2>1. at' \in 1..(Len(Source) + 1)
    <3>1. at' = at \/ at' = i + 1
      BY <1>1
    <3>2. at \in 1..(Len(Source) + 1) /\ i \in 1..Len(Source)
      BY <1>2, <1>4
    <3> QED
      BY <3>1, <3>2, CachingAssumption DEF CachingAssumption
  <2>2. readHead' \in 0..(End + 1) /\ block' \in {None} \cup 0..End
    BY <1>22, ConstantFacts
  <2>3. unread' \subseteq 1..Len(Source)
    BY <1>1, <1>2
  <2>4. Sorts
    BY DEF IInv
  <2> QED
    BY <1>1, <1>12, <1>19, <1>21, <2>1, <2>2, <2>3, <2>4 DEF Sorts
<1>24. Active'
  <2> SUFFICES ASSUME pc' = "read" PROVE Active'
    BY <1>19 DEF Active
  <2>1. block' # None => \E n \in 1..Len(cache') : cache'[n].start = block'
    <3>1. k \in 1..Len(r) /\ r[k] = b
      BY <1>6, <1>17
    <3>2. block' # None => r[k].start = block'
      BY <1>10, <1>22, <3>1
    <3> QED
      BY <1>19, <3>1, <3>2
  <2>2. ASSUME NEW n \in 1..Len(cache')
        PROVE  IF cache'[n].start = block'
               THEN Filling(cache'[n], cachedTopics', lastTime', sourceReadEnd')
               ELSE Apart(cache'[n], readHead', sourceReadEnd')
    <3>1. PICK l \in 1..Len(s) : cache'[n] = r[l]
      BY <1>17, <1>19
    <3>2. CASE l = k
      <4>1. cache'[n] = b
        BY <1>17, <3>1, <3>2
      <4>2. CASE block' = None
        <5>1. b.start # None
          BY <1>5, <1>10 DEF None
        <5> QED
          BY <1>22, <4>1, <4>2, <5>1 DEF Apart
      <4>3. CASE block' # None
        <5>1. ~full
          BY <1>1, <1>22, <4>3, <1>10
        <5>2. b.start = block'
          BY <1>10, <1>22, <4>3
        <5>3. Filling(b, cachedTopics, lastTime', sourceReadEnd)
          BY <1>10, <5>1 DEF Filling
        <5> QED
          BY <1>1, <4>1, <5>2, <5>3
      <4> QED
        BY <4>2, <4>3
    <3>3. CASE l # k
      <4>1. cache'[n] = s[l] /\ Apart(s[l], readHead, sourceReadEnd)
        BY <1>7, <1>17, <3>1, <3>3
      <4>2. s[l].start \in Nat /\ s[l].end \in Nat /\ s[l].start <= s[l].end
        BY <1>6, BlocksFacts DEF Ordered
      <4>3. Apart(s[l], readHead', sourceReadEnd)
        BY <1>5, <1>22, <4>1, <4>2 DEF Apart
      <4>4. s[l].start # block'
        BY <1>3, <1>5, <1>22, <4>1, <4>2 DEF Apart, None
      <4> QED
        BY <1>1, <4>1, <4>3, <4>4
    <3> QED
      BY <3>2, <3>3
  <2> QED
    BY <2>1, <2>2 DEF Active
<1>25. Reading'
  <2> SUFFICES ASSUME pc' = "read" PROVE Reading'
    BY DEF Reading
  <2>1. pending' = Append(waiting, x)
    BY <1>1
  <2>2. UnreadMessages(unread') \cup MessagesOf(pending')
          = MessagesIn(cachedTopics', lastTime', sourceReadEnd')
    BY <1>1, <1>20, <2>1
  <2>3. \A j \in MessagesOf(pending') : Source[j].time = lastTime'
    BY <1>14, <1>16, <1>20, <2>1 DEF t
  <2>4. \A j \in unread' : /\ Source[j].time \in lastTime'..sourceReadEnd'
                           /\ Matches(j)'
    BY <1>1, <1>3, <1>15 DEF Matches
  <2>5. lastTime' <= sourceReadEnd'
    BY <1>1, <1>12
  <2> QED
    BY <1>22, <2>2, <2>3, <2>4, <2>5 DEF Reading
<1> QED
  BY <1>1, <1>19, <1>21, <1>23, <1>24, <1>25 DEF IInv

LEMMA NextIInv == IInv /\ [Next]_vars => IInv'
<1> SUFFICES ASSUME IInv, [Next]_vars PROVE IInv'
  OBVIOUS
<1>1. ASSUME NEW start \in Starts, NEW end \in Ends, NEW topics \in TopicSets,
             Open(start, end, topics)
      PROVE  IInv'
  BY <1>1, OpenIInv
<1>2. CASE Exhausted
  BY <1>2, ExhaustedIInv
<1>3. CASE DropUnfinished
  BY <1>3, DropUnfinishedIInv
<1>4. CASE EnterBlock
  BY <1>4, EnterBlockIInv
<1>5. CASE OpenSource
  BY <1>5, OpenSourceIInv
<1>6. CASE YieldCached
  BY <1>6, YieldCachedIInv
<1>7. CASE CachedPastEnd
  BY <1>7, CachedPastEndIInv
<1>8. CASE BlockRead
  BY <1>8, BlockReadIInv
<1>9. CASE ReadResult
  BY <1>9, ReadResultIInv
<1>10. CASE SourceEnds
  BY <1>10, SourceEndsIInv
<1>11. CASE Return
  BY <1>11, ReturnIInv
<1>12. ASSUME NEW t \in 0..End, SetCurrentReadHead(t) PROVE IInv'
  BY <1>12, SetCurrentReadHeadIInv
<1>13. CASE Terminate
  BY <1>13, TerminateIInv
<1>14. CASE UNCHANGED vars
  <2>1. /\ UNCHANGED <<cachedTopics, cache, totalSize, currentReadHead>>
        /\ UNCHANGED <<candidates, pc, readHead, maxEnd, block, item>>
        /\ UNCHANGED <<unread, sourceReadEnd, lastTime, pending, at>>
    BY <1>14 DEF vars, store, eviction, reading, history
  <2>2. Sorts' /\ Sized(cache)' /\ Ordered(cache)'
    BY <2>1 DEF IInv, Sorts, Sized, Ordered
  <2>3. Whole(cache, cachedTopics)' /\ Active' /\ Reading'
    BY <2>1 DEF IInv, Whole, Active, Reading, Matches
  <2>4. (totalSize >= SizeOf(pending) + Total(cache))'
    BY <2>1 DEF IInv
  <2> QED
    BY <2>2, <2>3, <2>4 DEF IInv
<1> QED
  BY <1>1, <1>2, <1>3, <1>4, <1>5, <1>6, <1>7, <1>8, <1>9, <1>10, <1>11,
     <1>12, <1>13, <1>14 DEF Next, Iterate

-----------------------------------------------------------------------------
(* The theorems.                                                            *)

LEMMA Inductive == Spec => []IInv
<1> QED
  BY InitIInv, NextIInv, PTL DEF Spec

LEMMA IInvTypes == IInv => TypeOK
<1> SUFFICES ASSUME IInv PROVE TypeOK
  OBVIOUS
<1>1. ASSUME NEW k \in 1..Len(cache)
      PROVE  /\ cache[k].start \in 0..End /\ cache[k].end \in 0..End
             /\ cache[k].size = SizeOf(cache[k].items)
  <2>1. cache \in Seq(Block) /\ Sized(cache)
    BY DEF IInv, Sorts
  <2>2. cache[k] \in Block
    BY <2>1
  <2> QED
    BY <2>1, <2>2 DEF Sized, Block
<1>2. \A k \in 1..Len(candidates) : candidates[k] \in 0..End
  <2> DEFINE T == 0..End
  <2>1. candidates \in Seq(T)
    BY DEF IInv, Sorts
  <2> HIDE DEF T
  <2>2. \A k \in 1..Len(candidates) : candidates[k] \in T
    BY <2>1, ElementOfSeq
  <2> QED
    BY <2>2 DEF T
<1> QED
  BY <1>1, <1>2 DEF IInv, Sorts, TypeOK

(* The variables keep their types, and every block carries its size.        *)
THEOREM TypeCorrect == Spec => []TypeOK
<1> QED
  BY Inductive, IInvTypes, PTL

LEMMA IInvRight == IInv => CacheIsRight
<1> SUFFICES ASSUME IInv PROVE CacheIsRight
  OBVIOUS
<1>1. Ordered(cache) /\ Whole(cache, cachedTopics) /\ cache \in Seq(Block)
  BY DEF IInv, Sorts
<1>2. BlocksDisjoint
  <2>1. ASSUME NEW k \in 1..Len(cache), k > 1
        PROVE  cache[k - 1].end < cache[k].start
    <3>1. k - 1 \in 1..Len(cache) /\ k - 1 < k
      BY <1>1, <2>1
    <3> QED
      BY <1>1, <3>1 DEF Ordered
  <2> QED
    BY <1>1, <2>1 DEF BlocksDisjoint, Ordered
<1>3. BlocksComplete
  <2>1. ASSUME NEW from, NEW to
        PROVE  MessagesIn(cachedTopics, from, to)
                 = {i \in SourceResults(from, to) :
                      Source[i].type = "message-event"}
    BY DEF MessagesIn, SourceResults, Matches
  <2> QED
    BY <1>1, <2>1 DEF BlocksComplete, Whole
<1> QED
  BY <1>2, <1>3 DEF CacheIsRight

(* The blocks are in the order of time, apart, and each holds every message *)
(* of its time that the topics select: what messageIterator and             *)
(* getBackfillMessages take for granted when they answer from #cache alone. *)
THEOREM CacheRight == Spec => []CacheIsRight
<1> QED
  BY Inductive, IInvRight, PTL

(* #totalSizeBytes is at least what the blocks and the items that wait to   *)
(* be written hold, however iterators are abandoned and blocks evicted.     *)
THEOREM SizeCounted == Spec => []SizeIsCounted
<1>1. IInv => SizeIsCounted
  BY DEF IInv, SizeIsCounted, Held, Total
<1> QED
  BY <1>1, Inductive, PTL

(* Blocks without a gap from block k to block m cover the times between.    *)
LEMMA ChainCovers ==
  ASSUME cache \in Seq(Block), NEW m \in 1..Len(cache), NEW k \in 1..m,
         ChainEnd(cache, k) >= m,
         NEW time \in Int, cache[k].start <= time, time <= cache[m].end
  PROVE  \E n \in k..m : Covers(cache[n], time) /\ ChainEnd(cache, n) >= m
<1> DEFINE S == {n \in k..m : cache[n].start <= time}
<1>1. k \in 1..Len(cache) /\ k \in Nat /\ m \in Nat /\ Len(cache) \in Nat
  OBVIOUS
<1>2. ChainEnd(cache, k) \in k..Len(cache)
  BY <1>1, ChainEndFacts
<1>3. \A n \in k..(ChainEnd(cache, k) - 1) : Adjacent(cache[n], cache[n + 1])
  BY <1>1, ChainEndFacts
<1>4. PICK n \in S : \A l \in S : l <= n
  <2>1. S \in SUBSET (0..m) /\ S # {}
    BY <1>1
  <2> HIDE DEF S
  <2> QED
    BY <1>1, <2>1, GreatestExists
<1>5. n \in k..m /\ n \in 1..Len(cache) /\ cache[n].start <= time
  BY <1>1
<1>6. time <= cache[n].end
  <2>1. CASE n = m
    BY <2>1
  <2>2. CASE n # m
    <3>1. n + 1 \in k..m /\ n \in k..(ChainEnd(cache, k) - 1)
      BY <1>1, <1>2, <1>5, <2>2
    <3>2. ~(cache[n + 1].start <= time)
      BY <1>4, <1>5, <3>1
    <3>3. cache[n].end + 1 = cache[n + 1].start
      BY <1>3, <3>1 DEF Adjacent
    <3>4. cache[n].end \in Nat
      BY <1>5, BlocksFacts
    <3> QED
      BY <3>2, <3>3, <3>4
  <2> QED
    BY <2>1, <2>2
<1>7. ChainEnd(cache, n) >= m
  <2> DEFINE c == ChainEnd(cache, n)
  <2>1. c \in n..Len(cache)
    BY <1>5, ChainEndFacts
  <2>2. c = Len(cache) \/ ~Adjacent(cache[c], cache[c + 1])
    BY <1>5, ChainEndFacts
  <2> HIDE DEF c
  <2>3. SUFFICES ASSUME c < m PROVE FALSE
    BY <1>1, <1>5, <2>1 DEF c
  <2>4. c \in k..(ChainEnd(cache, k) - 1)
    BY <1>1, <1>2, <1>5, <2>1, <2>3
  <2>5. c # Len(cache)
    BY <1>1, <2>3
  <2> QED
    BY <1>3, <2>2, <2>4, <2>5
<1> QED
  BY <1>5, <1>6, <1>7 DEF Covers

LEMMA BackfillFacts ==
  ASSUME IInv, \A k \in 1..Len(cache) : ~Unfinished(cache[k]),
         NEW topic, NEW t \in 0..End
  PROVE  CacheBackfill(topic, t) \in {0, LastMessage(topic, t)}
<1> DEFINE m == BlockAt(t)
           found == UNION { {x.index : x \in {cache[k].items[n] :
                                                n \in 1..Len(cache[k].items)}} :
                             k \in BackfillBlocks(t) }
           wanted == {i \in found : /\ Source[i].type = "message-event"
                                    /\ Source[i].topic = topic
                                    /\ Source[i].time <= t}
           before == {i \in 1..Len(Source) : /\ Source[i].type = "message-event"
                                             /\ Source[i].topic = topic
                                             /\ Source[i].time <= t}
<1>1. /\ CacheBackfill(topic, t)
           = IF wanted = {} THEN 0
             ELSE CHOOSE i \in wanted : \A j \in wanted : j <= i
      /\ LastMessage(topic, t)
           = IF before = {} THEN 0
             ELSE CHOOSE i \in before : \A j \in before : j <= i
  BY DEF CacheBackfill, LastMessage
<1>2. cache \in Seq(Block) /\ Whole(cache, cachedTopics)
  BY DEF IInv, Sorts
<1>3. SUFFICES ASSUME wanted # {}
               PROVE  /\ before # {}
                      /\ (CHOOSE i \in wanted : \A j \in wanted : j <= i)
                           = CHOOSE i \in before : \A j \in before : j <= i
  BY <1>1
(* An index that a block holds, with the time the block stands for. *)
<1>4. ASSUME NEW k \in 1..Len(cache), NEW i \in 1..Len(Source),
             Source[i].type = "message-event"
      PROVE  (\E n \in 1..Len(cache[k].items) : cache[k].items[n].index = i)
               <=> i \in MessagesIn(cachedTopics, cache[k].start, cache[k].end)
  <2>1. MessagesOf(cache[k].items)
          = MessagesIn(cachedTopics, cache[k].start, cache[k].end)
    BY <1>2 DEF Whole
  <2>2. i \in MessagesOf(cache[k].items)
          <=> \E n \in 1..Len(cache[k].items) : cache[k].items[n].index = i
    BY <1>4 DEF MessagesOf
  <2> QED
    BY <2>1, <2>2
<1>5. ASSUME NEW i \in wanted
      PROVE  /\ i \in before
             /\ \E k \in BackfillBlocks(t) :
                  i \in MessagesIn(cachedTopics, cache[k].start, cache[k].end)
  <2>1. PICK k \in BackfillBlocks(t) :
          \E n \in 1..Len(cache[k].items) : cache[k].items[n].index = i
    BY <1>5
  <2>2. k \in 1..Len(cache)
    BY <1>2, BlockAtFacts DEF BackfillBlocks
  <2>3. i \in 1..Len(Source)
    <3>1. PICK n \in 1..Len(cache[k].items) : cache[k].items[n].index = i
      BY <2>1
    <3>2. cache[k].items[n] \in Item
      BY <1>2, <2>2, BlocksFacts
    <3> QED
      BY <3>1, <3>2 DEF Item
  <2> QED
    BY <1>4, <1>5, <2>1, <2>2, <2>3
<1>6. PICK x \in wanted : TRUE
  BY <1>3
<1>7. before \in SUBSET (0..Len(Source)) /\ before # {} /\ Len(Source) \in Nat
  BY <1>5, <1>6, ConstantFacts
<1>8. PICK y \in before : \A j \in before : j <= y
  <2> HIDE DEF before
  <2> QED
    BY <1>7, GreatestExists
<1>9. PICK k \in BackfillBlocks(t) :
        x \in MessagesIn(cachedTopics, cache[k].start, cache[k].end)
  BY <1>5, <1>6
<1>10. /\ m \in 1..Len(cache) /\ k \in 1..m /\ ChainEnd(cache, k) >= m
       /\ cache[m].start <= t /\ t <= cache[m].end
  BY <1>2, <1>9, BlockAtFacts DEF BackfillBlocks, Covers
<1>11. /\ x \in 1..Len(Source) /\ y \in 1..Len(Source) /\ x <= y
       /\ Source[y].type = "message-event" /\ Source[y].topic = topic
       /\ Source[x].topic = topic /\ Source[y].time <= t
       /\ Source[x].time \in Nat /\ Source[y].time \in Nat
  BY <1>5, <1>6, <1>8, SourceFacts, ConstantFacts
<1>12. Source[x].time <= Source[y].time
  <2>1. CASE x = y
    BY <1>11, <2>1
  <2>2. CASE x # y
    <3>1. x < y
      BY <1>11, <2>2
    <3>2. \A i, j \in 1..Len(Source) :
            i < j => Source[i].time <= Source[j].time
      BY CachingAssumption
    <3> QED
      BY <1>11, <3>1, <3>2
  <2> QED
    BY <2>1, <2>2
<1>13. /\ cache[k].start <= Source[y].time /\ topic \in cachedTopics
       /\ Source[y].time <= cache[m].end
  <2>1. k \in 1..Len(cache)
    BY <1>10
  <2>2. cache[k].start \in Nat /\ cache[k].end \in Nat /\ cache[m].end \in Nat
    BY <1>2, <1>10, <2>1, BlocksFacts
  <2>3. x \in MessagesIn(cachedTopics, cache[k].start, cache[k].end)
    BY <1>9
  <2>4. Source[x].topic \in cachedTopics /\ cache[k].start <= Source[x].time
    BY <2>2, <2>3 DEF MessagesIn
  <2>5. t \in Nat
    BY ConstantFacts
  <2>6. topic \in cachedTopics
    BY <1>11, <2>4
  <2>7. cache[k].start <= Source[y].time
    BY <1>11, <1>12, <2>2, <2>4
  <2>8. Source[y].time <= t /\ t <= cache[m].end
    BY <1>10, <1>11
  <2>9. Source[y].time <= cache[m].end
    <3> HIDE DEF m
    <3> QED
      BY <1>11, <2>2, <2>5, <2>8
  <2> QED
    BY <2>6, <2>7, <2>9
<1>14. PICK n \in k..m : /\ Covers(cache[n], Source[y].time)
                         /\ ChainEnd(cache, n) >= m
  <2>1. Source[y].time \in Int
    BY <1>11
  <2> HIDE DEF m
  <2> QED
    BY <1>2, <1>10, <1>13, <2>1, ChainCovers
<1>15. n \in 1..Len(cache) /\ n \in BackfillBlocks(t)
  BY <1>2, <1>10, <1>14 DEF BackfillBlocks
<1>16. y \in MessagesIn(cachedTopics, cache[n].start, cache[n].end)
  <2>1. cache[n].start \in Nat /\ cache[n].end \in Nat
    BY <1>2, <1>15, BlocksFacts
  <2> QED
    BY <1>11, <1>13, <1>14, <2>1 DEF MessagesIn, Covers
<1>17. y \in wanted
  <2>1. PICK l \in 1..Len(cache[n].items) : cache[n].items[l].index = y
    BY <1>4, <1>11, <1>15, <1>16
  <2>2. y \in found
    BY <1>15, <2>1
  <2> HIDE DEF found
  <2> QED
    BY <1>11, <2>2
<1> HIDE DEF wanted, before, found
<1>18. wanted \subseteq before /\ before \subseteq Nat
  BY <1>5, <1>7
<1>19. \A i \in before : (\A j \in before : j <= i) => i = y
  BY <1>8, <1>18
<1>20. \A i \in wanted : (\A j \in wanted : j <= i) => i = y
  BY <1>8, <1>17, <1>18
<1>21. y \in wanted /\ \A j \in wanted : j <= y
  BY <1>8, <1>17, <1>18
<1>22. (CHOOSE i \in wanted : \A j \in wanted : j <= i) = y
  BY <1>20, <1>21
<1>23. (CHOOSE i \in before : \A j \in before : j <= i) = y
  BY <1>8, <1>19
<1> QED
  BY <1>7, <1>22, <1>23

(* getBackfillMessages: while no block is unfinished, the message the cache *)
(* answers with for a topic and a time is the last one the source has.      *)
THEOREM BackfillRight == Spec => []BackfillOfFinishedIsLast
<1>1. IInv => BackfillOfFinishedIsLast
  BY BackfillFacts DEF BackfillOfFinishedIsLast, BackfillIsLast
<1> QED
  BY <1>1, Inductive, PTL

-----------------------------------------------------------------------------
(***************************************************************************)
(* Proof that CachingSource implements the safety part of MessageStream.   *)
(*                                                                         *)
(* The blocks hold results in the order of the source, each with the time  *)
(* that was reached when it was read (Tidy), and what is given follows     *)
(* what was given before (Position), whether it comes from a block or from *)
(* the source.                                                             *)
(***************************************************************************)

(* The time of an item: that of a message, and all the messages before it   *)
(* have come by then.                                                       *)
Stamped(x, topics) ==
  /\ x.time <= Source[x.index].time
  /\ Source[x.index].type = "message-event" => x.time = Source[x.index].time
  /\ \A j \in 1..Len(Source) :
       /\ Source[j].type = "message-event" /\ Source[j].topic \in topics
       /\ j < x.index
       => Source[j].time <= x.time

Before(a, b) ==
  \A m \in 1..Len(a), n \in 1..Len(b) :
    a[m].index < b[n].index /\ a[m].time <= b[n].time

Tidy(items, topics, end) ==
  /\ \A m, n \in 1..Len(items) : m < n =>
       items[m].index < items[n].index /\ items[m].time <= items[n].time
  /\ \A n \in 1..Len(items) :
       items[n].time <= end /\ Stamped(items[n], topics)

BeforeAll(items, set) ==
  \A n \in 1..Len(items), u \in set : items[n].index < u

(* What is in the block being filled, what waits to be written to it and    *)
(* what is unread follow each other.                                        *)
InOrder(s, active, waiting, set, topics, time) ==
  /\ Tidy(waiting, topics, time)
  /\ BeforeAll(waiting, set)
  /\ \A k \in 1..Len(s) :
       s[k].start = active =>
         Before(s[k].items, waiting) /\ BeforeAll(s[k].items, set)

AllTidy(s, topics) == \A k \in 1..Len(s) : Tidy(s[k].items, topics, s[k].end)

TidyInv ==
  /\ AllTidy(cache, cachedTopics)
  /\ pc = "read" =>
       InOrder(cache, block, pending, unread, cachedTopics, lastTime)

LEMMA ItemFacts ==
  ASSUME NEW items \in Seq(Item), NEW n \in 1..Len(items)
  PROVE  /\ items[n].time \in Nat /\ items[n].index \in 1..Len(Source)
         /\ items[n].index \in Nat
<1>1. items[n] \in Item
  OBVIOUS
<1>2. items[n].time \in 0..End /\ items[n].index \in 1..Len(Source)
  BY <1>1 DEF Item
<1> QED
  BY <1>2, ConstantFacts

LEMMA NoneTidy ==
  /\ \A topics, end : Tidy(<<>>, topics, end)
  /\ \A a : Before(<<>>, a) /\ Before(a, <<>>) /\ BeforeAll(<<>>, a)
<1>1. Len(<<>>) = 0
  BY EmptySeq
<1> QED
  BY <1>1 DEF Tidy, Before, BeforeAll

(* Items may be known to be earlier than later times.                       *)
LEMMA TidyLater ==
  ASSUME NEW items \in Seq(Item), NEW topics, NEW end \in Int, NEW time \in Int,
         Tidy(items, topics, end), end <= time
  PROVE  Tidy(items, topics, time)
<1>1. \A n \in 1..Len(items) : items[n].time \in Nat
  BY ItemFacts
<1> QED
  BY <1>1 DEF Tidy

(* Tidy items followed by tidy items are tidy.                              *)
LEMMA TidyBoth ==
  ASSUME NEW a \in Seq(Item), NEW b \in Seq(Item), NEW topics,
         NEW end \in Int, NEW time \in Int, end <= time,
         Tidy(a, topics, end), Tidy(b, topics, time), Before(a, b)
  PROVE  Tidy(a \o b, topics, time)
<1> DEFINE c == a \o b
<1>1. /\ Len(a) \in Nat /\ Len(b) \in Nat /\ Len(c) = Len(a) + Len(b)
      /\ \A n \in 1..Len(a) : c[n] = a[n]
      /\ \A n \in 1..Len(b) : c[Len(a) + n] = b[n]
  OBVIOUS
<1>2. Tidy(a, topics, time)
  BY TidyLater
<1> HIDE DEF c
<1>3. ASSUME NEW n \in 1..Len(c)
      PROVE  \/ n \in 1..Len(a) /\ c[n] = a[n]
             \/ /\ n - Len(a) \in 1..Len(b) /\ c[n] = b[n - Len(a)]
                /\ n > Len(a)
  <2>1. n \in 1..Len(a) \/ (n - Len(a) \in 1..Len(b) /\ n > Len(a))
    BY <1>1
  <2>2. n = Len(a) + (n - Len(a))
    BY <1>1
  <2> QED
    BY <1>1, <2>1, <2>2
<1>4. ASSUME NEW n \in 1..Len(c)
      PROVE  c[n].time <= time /\ Stamped(c[n], topics)
  BY <1>2, <1>3 DEF Tidy
<1>5. ASSUME NEW m \in 1..Len(c), NEW n \in 1..Len(c), m < n
      PROVE  c[m].index < c[n].index /\ c[m].time <= c[n].time
  <2>1. CASE n \in 1..Len(a) /\ c[n] = a[n]
    <3>1. m \in 1..Len(a) /\ c[m] = a[m]
      BY <1>1, <1>5, <2>1
    <3> QED
      BY <1>5, <2>1, <3>1 DEF Tidy
  <2>2. CASE /\ n - Len(a) \in 1..Len(b) /\ c[n] = b[n - Len(a)]
    <3>1. CASE m \in 1..Len(a) /\ c[m] = a[m]
      BY <2>2, <3>1 DEF Before
    <3>2. CASE m - Len(a) \in 1..Len(b) /\ c[m] = b[m - Len(a)]
      <4>1. m - Len(a) < n - Len(a)
        BY <1>1, <1>5
      <4> QED
        BY <2>2, <3>2, <4>1 DEF Tidy
    <3> QED
      BY <1>3, <3>1, <3>2
  <2> QED
    BY <1>3, <2>1, <2>2
<1> QED
  BY <1>4, <1>5 DEF Tidy, c

LEMMA BeforeBoth ==
  ASSUME NEW a \in Seq(Item), NEW b \in Seq(Item), NEW set,
         BeforeAll(a, set), BeforeAll(b, set)
  PROVE  BeforeAll(a \o b, set)
<1> DEFINE c == a \o b
<1>1. /\ Len(a) \in Nat /\ Len(b) \in Nat /\ Len(c) = Len(a) + Len(b)
      /\ \A n \in 1..Len(a) : c[n] = a[n]
      /\ \A n \in 1..Len(b) : c[Len(a) + n] = b[n]
  OBVIOUS
<1> HIDE DEF c
<1>2. ASSUME NEW n \in 1..Len(c)
      PROVE  \/ n \in 1..Len(a) /\ c[n] = a[n]
             \/ n - Len(a) \in 1..Len(b) /\ c[n] = b[n - Len(a)]
  <2>1. n \in 1..Len(a) \/ n - Len(a) \in 1..Len(b)
    BY <1>1
  <2>2. n = Len(a) + (n - Len(a))
    BY <1>1
  <2> QED
    BY <1>1, <2>1, <2>2
<1> QED
  BY <1>2 DEF BeforeAll, c

LEMMA BeforeMore ==
  ASSUME NEW a \in Seq(Item), NEW v \in Seq(Item), NEW w \in Seq(Item),
         Before(a, v), Before(a, w)
  PROVE  Before(a, v \o w)
<1> DEFINE c == v \o w
<1>1. /\ Len(v) \in Nat /\ Len(w) \in Nat /\ Len(c) = Len(v) + Len(w)
      /\ \A n \in 1..Len(v) : c[n] = v[n]
      /\ \A n \in 1..Len(w) : c[Len(v) + n] = w[n]
  OBVIOUS
<1> HIDE DEF c
<1>2. ASSUME NEW n \in 1..Len(c)
      PROVE  \/ n \in 1..Len(v) /\ c[n] = v[n]
             \/ n - Len(v) \in 1..Len(w) /\ c[n] = w[n - Len(v)]
  <2>1. n \in 1..Len(v) \/ n - Len(v) \in 1..Len(w)
    BY <1>1
  <2>2. n = Len(v) + (n - Len(v))
    BY <1>1
  <2> QED
    BY <1>1, <2>1, <2>2
<1> QED
  BY <1>2 DEF Before, c

(* One item.                                                                *)
LEMMA TidyOne ==
  ASSUME NEW x \in Item, NEW topics, NEW time, x.time <= time,
         Stamped(x, topics)
  PROVE  <<x>> \in Seq(Item) /\ Tidy(<<x>>, topics, time)
<1>1. <<x>> \in Seq(Item) /\ Len(<<x>>) = 1 /\ <<x>>[1] = x
  OBVIOUS
<1> QED
  BY <1>1 DEF Tidy

-----------------------------------------------------------------------------
(* Where the blocks of a changed cache come from.                           *)

LEMMA InsertedFrom ==
  ASSUME NEW s \in Seq(Block), NEW b \in Block
  PROVE  \A k \in 1..Len(Inserted(s, b)) :
           \/ Inserted(s, b)[k] = b
           \/ \E l \in 1..Len(s) : Inserted(s, b)[k] = s[l]
<1>1. PICK i \in 1..(Len(s) + 1) : Inserted(s, b) = InsertAt(s, i, b)
  BY InsertedIs
<1> DEFINE r == Inserted(s, b)
<1>2. /\ Len(r) = Len(s) + 1
      /\ \A k \in 1..(Len(s) + 1) :
           r[k] = IF k < i THEN s[k] ELSE IF k = i THEN b ELSE s[k - 1]
  BY <1>1, InsertFacts
<1> HIDE DEF r
<1>3. ASSUME NEW k \in 1..Len(r)
      PROVE  r[k] = b \/ \E l \in 1..Len(s) : r[k] = s[l]
  <2>1. CASE k < i
    BY <1>2, <2>1
  <2>2. CASE k = i
    BY <1>2, <2>2
  <2>3. CASE k > i
    <3>1. k - 1 \in 1..Len(s) /\ r[k] = s[k - 1]
      BY <1>2, <2>3
    <3> QED
      BY <3>1
  <2> QED
    BY <2>1, <2>2, <2>3
<1> QED
  BY <1>3 DEF r

LEMMA RemovedFrom ==
  ASSUME NEW s \in Seq(Block), NEW i \in 1..Len(s)
  PROVE  \A k \in 1..Len(RemoveAt(s, i)) :
           \E l \in 1..Len(s) : RemoveAt(s, i)[k] = s[l]
<1> DEFINE r == RemoveAt(s, i)
<1>1. /\ Len(r) = Len(s) - 1
      /\ \A k \in 1..(Len(s) - 1) : r[k] = IF k < i THEN s[k] ELSE s[k + 1]
  BY RemoveFacts
<1> HIDE DEF r
<1>2. ASSUME NEW k \in 1..Len(r) PROVE \E l \in 1..Len(s) : r[k] = s[l]
  <2>1. k \in 1..Len(s) /\ k + 1 \in 1..Len(s)
    BY <1>1
  <2> QED
    BY <1>1, <2>1
<1> QED
  BY <1>2 DEF r

LEMMA PurgedFrom ==
  ASSUME NEW s \in Seq(Block), NEW active, NEW size,
         MaybePurge(s, active, size)
  PROVE  /\ pc' \in {"read", "failed"}
         /\ \A k \in 1..Len(cache') : \E l \in 1..Len(s) : cache'[k] = s[l]
<1>1. CASE totalSize + size <= MaxTotalSize
  BY <1>1 DEF MaybePurge
<1>2. CASE ~(totalSize + size <= MaxTotalSize)
  <2>1. PICK list \in EvictableLists(s, currentReadHead, active) :
          IF list = <<>>
          THEN cache' = s /\ pc' = "read"
          ELSE LET k == IndexOf(s, Head(list)) IN
               IF s[k].start = active
               THEN pc' = "failed" /\ cache' = s
               ELSE pc' = "read" /\ cache' = RemoveAt(s, k)
    BY <1>2 DEF MaybePurge
  <2>2. CASE list = <<>>
    BY <2>1, <2>2
  <2>3. CASE list # <<>>
    <3> DEFINE k == IndexOf(s, Head(list))
    <3>1. k \in 1..Len(s)
      BY <2>3, EvictFacts
    <3>2. IF s[k].start = active
          THEN pc' = "failed" /\ cache' = s
          ELSE pc' = "read" /\ cache' = RemoveAt(s, k)
      BY <2>1, <2>3
    <3> HIDE DEF k
    <3> QED
      BY <3>1, <3>2, RemovedFrom
  <2> QED
    BY <2>2, <2>3
<1> QED
  BY <1>1, <1>2

(* The block that the next result belongs to ends before what waits.        *)
LEMMA OpenedTidy ==
  ASSUME IInv, TidyInv, pc = "read"
  PROVE  LET b == OpenedCache[OpenedIndex]
         IN /\ AllTidy(OpenedCache, cachedTopics)
            /\ Before(b.items, pending) /\ BeforeAll(b.items, unread)
            /\ b.end <= lastTime
<1> DEFINE s == OpenedCache  k == OpenedIndex
<1>1. /\ s \in Seq(Block) /\ k \in 1..Len(s) /\ s[k].start = readHead
      /\ Filling(s[k], cachedTopics, lastTime, sourceReadEnd)
  BY OpenedFacts
<1>2. /\ cache \in Seq(Block) /\ Ordered(cache)
      /\ lastTime \in 0..End /\ sourceReadEnd \in 0..End
      /\ readHead \in 0..(End + 1)
  BY DEF IInv, Sorts
<1>3. /\ readHead <= lastTime /\ lastTime <= sourceReadEnd
      /\ block \in {None, readHead}
  BY DEF IInv, Reading
<1>4. /\ AllTidy(cache, cachedTopics)
      /\ InOrder(cache, block, pending, unread, cachedTopics, lastTime)
  BY DEF TidyInv
<1>5. s[k].end <= lastTime
  <2>1. s[k].start \in Nat /\ s[k].end \in Nat /\ lastTime \in Nat
    BY <1>1, <1>2, BlocksFacts, ConstantFacts
  <2> QED
    BY <1>1, <2>1 DEF Filling, Unfinished
<1>6. CASE block # None
  <2>1. s = cache /\ block = readHead
    BY <1>3, <1>6 DEF OpenedCache
  <2> HIDE DEF s, k
  <2>2. Before(s[k].items, pending) /\ BeforeAll(s[k].items, unread)
    BY <1>1, <1>4, <2>1 DEF InOrder
  <2> QED
    BY <1>4, <1>5, <2>1, <2>2 DEF s, k
<1>7. CASE block = None
  <2> DEFINE new == NewBlock(readHead, readHead, <<>>, 0)
  <2>1. new \in Block /\ new.items = <<>>
    <3>1. readHead \in 0..End
      BY <1>2, <1>3, ConstantFacts
    <3> QED
      BY <3>1, NoItems DEF NewBlock, Block
  <2>2. s = Inserted(cache, new)
    BY <1>7 DEF OpenedCache
  <2> HIDE DEF s, k, new
  <2>3. \A l \in 1..Len(s) : s[l] = new \/ \E m \in 1..Len(cache) : s[l] = cache[m]
    BY <1>2, <2>1, <2>2, InsertedFrom
  <2>4. AllTidy(s, cachedTopics)
    BY <1>4, <2>1, <2>3, NoneTidy DEF AllTidy
  <2>5. s[k] = new
    <3>1. ASSUME NEW m \in 1..Len(cache) PROVE cache[m].start # readHead
      <4>1. /\ cache[m].start \in Nat /\ cache[m].end \in Nat
            /\ cache[m].start <= cache[m].end
        BY <1>2, BlocksFacts DEF Ordered
      <4>2. cache[m].start # None
        BY <4>1 DEF None
      <4>3. Apart(cache[m], readHead, sourceReadEnd)
        BY <1>7, <4>2 DEF IInv, Active
      <4> QED
        BY <1>2, <1>3, <4>1, <4>3, ConstantFacts DEF Apart
    <3> QED
      BY <1>1, <2>3, <3>1
  <2>6. Before(s[k].items, pending) /\ BeforeAll(s[k].items, unread)
    BY <2>1, <2>5, NoneTidy
  <2> QED
    BY <1>5, <2>4, <2>6 DEF s, k
<1> QED
  BY <1>6, <1>7

(* What is written to it.                                                   *)
LEMMA FlushedTidy ==
  ASSUME IInv, TidyInv, pc = "read", NEW b \in Block,
         Tidy(b.items, cachedTopics, b.end), b.end <= lastTime,
         Before(b.items, pending), BeforeAll(b.items, unread),
         NEW t \in Int, lastTime < t, t - 1 <= sourceReadEnd
  PROVE  LET f == Flushed(b, t)
         IN /\ f \in Block /\ f.start = b.start /\ f.end = t - 1
            /\ f.items = b.items \o pending /\ f.items \in Seq(Item)
            /\ Tidy(f.items, cachedTopics, f.end) /\ BeforeAll(f.items, unread)
<1> DEFINE f == Flushed(b, t)
<1>1. f.start = b.start /\ f.end = t - 1 /\ f.items = b.items \o pending
  BY DEF Flushed, NewBlock
<1>2. /\ pending \in Seq(Item) /\ lastTime \in Int
      /\ b.items \in Seq(Item) /\ b.end \in Int
  BY BlockFacts, ConstantFacts DEF IInv, Sorts
<1>3. Tidy(pending, cachedTopics, lastTime) /\ BeforeAll(pending, unread)
  BY DEF TidyInv, InOrder
<1> HIDE DEF f
<1>4. t - 1 \in Int /\ lastTime <= t - 1 /\ b.end <= t - 1
  BY <1>2
<1>5. Tidy(pending, cachedTopics, t - 1)
  BY <1>2, <1>3, <1>4, TidyLater
<1>6. Tidy(b.items \o pending, cachedTopics, t - 1)
  BY <1>2, <1>4, <1>5, TidyBoth
<1>7. BeforeAll(b.items \o pending, unread)
  BY <1>2, <1>3, BeforeBoth
<1>8. b.items \o pending \in Seq(Item)
  BY <1>2
<1>9. f \in Block
  <2>1. t - 1 \in 0..End
    <3>1. lastTime \in 0..End /\ sourceReadEnd \in 0..End
      BY DEF IInv, Sorts
    <3> QED
      BY <1>4, <3>1, ConstantFacts
  <2>2. b.start \in 0..End /\ b.size \in Nat /\ SizeOf(pending) \in Nat
    BY <1>2, BlockFacts, SizesNat
  <2> QED
    BY <1>8, <2>1, <2>2 DEF f, Flushed, NewBlock, Block
<1> QED
  BY <1>1, <1>6, <1>7, <1>8, <1>9 DEF f

(* The time that a result is kept with.                                     *)
LEMMA NextStamped ==
  ASSUME IInv, pc = "read", unread # {}, NEW time, NEW x,
         time = IF /\ Source[Least(unread)].type # "problem"
                   /\ Source[Least(unread)].time > lastTime
                THEN Source[Least(unread)].time ELSE lastTime,
         x = [time |-> time, index |-> Least(unread)]
  PROVE  x \in Item /\ Stamped(x, cachedTopics) /\ lastTime <= time
<1> DEFINE i == Least(unread)
<1>1. /\ i \in unread /\ i \in 1..Len(Source)
      /\ Source[i].time \in lastTime..sourceReadEnd
      /\ Source[i].time \in 0..End /\ lastTime \in 0..End
      /\ sourceReadEnd \in 0..End
      /\ \A j \in unread : Source[i].time <= Source[j].time
  BY NextUnread DEF IInv, Sorts
<1>2. unread \subseteq 1..Len(Source) /\ Len(Source) \in Nat
  BY ConstantFacts DEF IInv, Sorts
<1>3. \A j \in unread : i <= j
  BY <1>2, LeastFacts
<1>4. /\ UnreadMessages(unread) \cup MessagesOf(pending)
           = MessagesIn(cachedTopics, lastTime, sourceReadEnd)
      /\ \A j \in MessagesOf(pending) : Source[j].time = lastTime
  BY DEF IInv, Reading
<1>5. x.time = time /\ x.index = i
  OBVIOUS
<1> HIDE DEF i
<1>6. /\ lastTime \in Nat /\ sourceReadEnd \in Nat /\ Source[i].time \in Nat
      /\ lastTime <= Source[i].time /\ Source[i].time <= sourceReadEnd
  BY <1>1, ConstantFacts
<1>7. time \in 0..End /\ time <= Source[i].time /\ lastTime <= time
  BY <1>1, <1>6 DEF i
<1>8. Source[i].type = "message-event" => time = Source[i].time
  BY <1>6 DEF i
<1>9. ASSUME NEW j \in 1..Len(Source), Source[j].type = "message-event",
             Source[j].topic \in cachedTopics, j < i
      PROVE  Source[j].time <= time
  <2>1. Source[j].time \in Nat /\ Source[j].time <= Source[i].time
    <3>1. Source[j].time \in 0..End
      BY SourceFacts
    <3> QED
      BY <1>1, <1>9, <3>1, CachingAssumption, ConstantFacts
  <2>2. SUFFICES ASSUME Source[j].time > lastTime PROVE FALSE
    BY <1>6, <1>7, <2>1
  <2>3. j \in MessagesIn(cachedTopics, lastTime, sourceReadEnd)
    BY <1>6, <1>9, <2>1, <2>2 DEF MessagesIn
  <2>4. j \notin MessagesOf(pending)
    BY <1>4, <1>6, <2>2
  <2>5. j \in unread
    BY <1>4, <2>3, <2>4 DEF UnreadMessages
  <2> QED
    BY <1>1, <1>2, <1>3, <1>9, <2>5
<1>10. x \in Item
  BY <1>1, <1>7 DEF Item, i
<1> QED
  BY <1>5, <1>7, <1>8, <1>9, <1>10 DEF Stamped

-----------------------------------------------------------------------------
(* Each step keeps the blocks tidy.                                         *)

LEMMA InitTidy == Init => TidyInv
<1>1. Len(<<>>) = 0
  BY EmptySeq
<1> QED
  BY <1>1 DEF Init, TidyInv, AllTidy

LEMMA ReadTidy == IInv /\ TidyInv /\ ReadResult => TidyInv'
<1> SUFFICES ASSUME IInv, TidyInv, ReadResult PROVE TidyInv'
  OBVIOUS
<1> DEFINE i == Least(unread)
           t == Source[i].time
           moves == Source[i].type # "problem" /\ t > lastTime
           s == OpenedCache
           k == OpenedIndex
           b == IF moves THEN Flushed(s[k], t) ELSE s[k]
           full == b.size >= MaxBlockSize
           waiting == IF moves THEN <<>> ELSE pending
           r == [s EXCEPT ![k] = b]
           x == [time |-> lastTime', index |-> i]
<1>1. /\ pc = "read" /\ unread # {} /\ unread' = unread \ {i}
      /\ lastTime' = IF moves THEN t ELSE lastTime
      /\ block' = IF full THEN None ELSE b.start
      /\ MaybePurge(r, block', Source[i].size)
      /\ pc' # "failed" => pending' = Append(waiting, x)
      /\ cachedTopics' = cachedTopics
  BY DEF ReadResult, OpenedCache, OpenedIndex
<1>2. /\ unread \subseteq 1..Len(Source) /\ Len(Source) \in Nat
      /\ lastTime \in 0..End /\ pending \in Seq(Item)
  BY ConstantFacts DEF IInv, Sorts
<1>3. /\ s \in Seq(Block) /\ Ordered(s) /\ k \in 1..Len(s)
      /\ s[k].start = readHead
  BY <1>1, OpenedFacts
<1>4. /\ AllTidy(s, cachedTopics)
      /\ Before(s[k].items, pending) /\ BeforeAll(s[k].items, unread)
      /\ s[k].end <= lastTime
  BY <1>1, OpenedTidy
<1>5. /\ i \in unread /\ i \in 1..Len(Source) /\ t \in 0..End
      /\ \A j \in unread : i <= j
  BY <1>1, <1>2, NextUnread, LeastFacts
<1>6. x \in Item /\ Stamped(x, cachedTopics) /\ lastTime <= lastTime'
  BY <1>1, NextStamped
<1>7. x.time = lastTime' /\ x.index = i
  OBVIOUS
<1>8. Tidy(pending, cachedTopics, lastTime) /\ BeforeAll(pending, unread)
  BY <1>1 DEF TidyInv, InOrder
<1> HIDE DEF i, s, k, x
<1>9. s[k] \in Block /\ Tidy(s[k].items, cachedTopics, s[k].end)
  BY <1>3, <1>4 DEF AllTidy
<1>10. /\ b \in Block
       /\ Tidy(b.items, cachedTopics, b.end) /\ b.items \in Seq(Item)
       /\ BeforeAll(b.items, unread) /\ Before(b.items, waiting)
       /\ b.start = readHead
  <2>1. CASE moves
    <3>1. t \in Int /\ lastTime < t /\ t - 1 <= sourceReadEnd
      <4>1. t \in lastTime..sourceReadEnd /\ sourceReadEnd \in 0..End
        BY <1>1, NextUnread DEF i, IInv, Sorts
      <4> QED
        BY <1>2, <1>5, <2>1, <4>1, ConstantFacts
    <3>2. b = Flushed(s[k], t) /\ waiting = <<>>
      BY <2>1
    <3> HIDE DEF b, waiting, t, moves
    <3> QED
      BY <1>1, <1>3, <1>4, <1>9, <3>1, <3>2, FlushedTidy, NoneTidy
  <2>2. CASE ~moves
    <3>1. b = s[k] /\ waiting = pending
      BY <2>2
    <3> HIDE DEF b, waiting, t, moves
    <3> QED
      BY <1>3, <1>4, <1>9, <3>1, BlockFacts
  <2> QED
    BY <2>1, <2>2
<1>11. /\ Tidy(waiting, cachedTopics, lastTime') /\ waiting \in Seq(Item)
       /\ BeforeAll(waiting, unread) /\ \A n \in 1..Len(waiting) :
                                          waiting[n].time <= lastTime'
  <2>1. CASE moves
    BY <2>1, NoneTidy, NoItems DEF Tidy
  <2>2. CASE ~moves
    BY <1>1, <1>2, <1>8, <2>2 DEF Tidy
  <2> QED
    BY <2>1, <2>2
<1>12. \A n \in 1..Len(b.items) : b.items[n].time <= lastTime'
  <2>1. b.end <= lastTime'
    <3>1. CASE moves
      <4>1. b.end = t - 1 /\ lastTime' = t /\ t \in Int
        BY <1>1, <1>5, <3>1 DEF Flushed, NewBlock
      <4> QED
        BY <4>1
    <3>2. CASE ~moves
      BY <1>1, <1>4, <3>2
    <3> QED
      BY <3>1, <3>2
  <2>2. b.end \in Int /\ lastTime' \in Int
    <3>1. s[k].end \in Int
      BY <1>9, BlockFacts
    <3>2. b.end = t - 1 \/ b.end = s[k].end
      BY DEF Flushed, NewBlock
    <3> QED
      BY <1>1, <1>2, <1>5, <3>1, <3>2, ConstantFacts
  <2>3. \A n \in 1..Len(b.items) : b.items[n].time \in Nat
    BY <1>10, ItemFacts
  <2> HIDE DEF b
  <2> QED
    BY <1>10, <2>1, <2>2, <2>3 DEF Tidy
<1> HIDE DEF b, waiting, t, moves
<1>13. /\ Len(r) = Len(s)
       /\ \A l \in 1..Len(s) : r[l] = IF l = k THEN b ELSE s[l]
  BY <1>3
<1>14. /\ pc' \in {"read", "failed"}
       /\ \A n \in 1..Len(cache') : \E l \in 1..Len(s) :
            cache'[n] = IF l = k THEN b ELSE s[l]
  <2>1. r \in Seq(Block)
    BY <1>3, <1>10
  <2> HIDE DEF r
  <2> QED
    BY <1>1, <1>13, <2>1, PurgedFrom
<1> HIDE DEF r
<1>15. AllTidy(cache', cachedTopics')
  <2>1. ASSUME NEW n \in 1..Len(cache')
        PROVE  Tidy(cache'[n].items, cachedTopics, cache'[n].end)
    BY <1>4, <1>10, <1>14 DEF AllTidy
  <2> QED
    BY <1>1, <2>1 DEF AllTidy
<1>16. ASSUME pc' = "read"
       PROVE  InOrder(cache', block', pending', unread', cachedTopics',
                      lastTime')
  <2> DEFINE last == <<x>>
  <2>1. pending' = waiting \o last /\ last \in Seq(Item)
    BY <1>1, <1>6, <1>11, <1>16, AppendIs
  <2>2. /\ Len(last) = 1 /\ \A n \in 1..Len(last) : last[n] = x
    OBVIOUS
  <2>0. Tidy(last, cachedTopics, lastTime')
    <3>1. x.time <= lastTime'
      BY <1>6, <1>7, ConstantFacts DEF Item
    <3> QED
      BY <1>6, <3>1, TidyOne
  <2> HIDE DEF last
  <2>3. Before(waiting, last)
    BY <1>5, <1>7, <1>11, <2>2 DEF Before, BeforeAll
  <2>4. Before(b.items, last)
    BY <1>5, <1>7, <1>10, <1>12, <2>2 DEF Before, BeforeAll
  <2>5. lastTime' \in Int
    BY <1>6, <1>7, ConstantFacts DEF Item
  <2>6. Tidy(pending', cachedTopics, lastTime')
    BY <1>11, <2>0, <2>1, <2>3, <2>5, TidyBoth
  <2>7. BeforeAll(pending', unread')
    <3>1. BeforeAll(waiting, unread') /\ BeforeAll(last, unread')
      BY <1>1, <1>2, <1>5, <1>7, <1>11, <2>2 DEF BeforeAll
    <3> QED
      BY <1>11, <2>1, <3>1, BeforeBoth
  <2>8. ASSUME NEW n \in 1..Len(cache'), cache'[n].start = block'
        PROVE  /\ Before(cache'[n].items, pending')
               /\ BeforeAll(cache'[n].items, unread')
    <3>1. PICK l \in 1..Len(s) : cache'[n] = IF l = k THEN b ELSE s[l]
      BY <1>14
    <3>2. cache'[n].start \in Nat
      <4>1. s[l].start \in Nat /\ s[k].start \in Nat
        BY <1>3, BlocksFacts
      <4> QED
        BY <1>3, <1>10, <3>1, <4>1
    <3>3. cache'[n].start = readHead
      BY <1>1, <1>10, <2>8, <3>2 DEF None
    <3>4. l = k
      BY <1>3, <3>1, <3>3, StartsDiffer
    <3>5. cache'[n].items = b.items
      BY <3>1, <3>4
    <3>6. Before(b.items, pending')
      BY <1>10, <1>11, <2>1, <2>4, BeforeMore
    <3>7. BeforeAll(b.items, unread')
      BY <1>1, <1>10 DEF BeforeAll
    <3> QED
      BY <3>5, <3>6, <3>7
  <2> QED
    BY <1>1, <2>6, <2>7, <2>8 DEF InOrder
<1> QED
  BY <1>15, <1>16 DEF TidyInv

LEMMA EndTidy == IInv /\ TidyInv /\ SourceEnds => TidyInv'
<1> SUFFICES ASSUME IInv, TidyInv, SourceEnds PROVE TidyInv'
  OBVIOUS
<1>1. pc = "read" /\ pc' = "loop" /\ cachedTopics' = cachedTopics
  BY DEF SourceEnds
<1>2. /\ cache \in Seq(Block) /\ pending \in Seq(Item)
      /\ sourceReadEnd \in 0..End /\ lastTime \in 0..End
      /\ readHead \in 0..(End + 1)
  BY DEF IInv, Sorts
<1>3. readHead <= lastTime /\ lastTime <= sourceReadEnd
  BY <1>1 DEF IInv, Reading
<1>4. /\ readHead \in 0..End /\ sourceReadEnd \in Int /\ lastTime \in Int
      /\ lastTime < sourceReadEnd + 1 /\ sourceReadEnd + 1 \in Int
      /\ (sourceReadEnd + 1) - 1 = sourceReadEnd
  BY <1>2, <1>3, ConstantFacts
<1>5. /\ AllTidy(cache, cachedTopics)
      /\ Tidy(pending, cachedTopics, lastTime)
  BY <1>1 DEF TidyInv, InOrder
<1>6. CASE block # None
  <2> DEFINE k == IndexOf(cache, block)
             f == Flushed(cache[k], sourceReadEnd + 1)
  <2>1. cache' = [cache EXCEPT ![k] = f]
    BY <1>6 DEF SourceEnds
  <2>2. OpenedCache = cache /\ OpenedIndex = k
    BY <1>6 DEF OpenedCache, OpenedIndex
  <2> HIDE DEF k
  <2>3. k \in 1..Len(cache) /\ cache[k] \in Block
    BY <1>1, <1>2, <2>2, OpenedFacts, BlocksFacts
  <2>4. /\ Before(cache[k].items, pending) /\ BeforeAll(cache[k].items, unread)
        /\ cache[k].end <= lastTime
    BY <1>1, <2>2, OpenedTidy
  <2>5. Tidy(cache[k].items, cachedTopics, cache[k].end)
    BY <1>5, <2>3 DEF AllTidy
  <2>6. Tidy(f.items, cachedTopics, f.end)
    BY <1>1, <1>4, <2>3, <2>4, <2>5, FlushedTidy
  <2> HIDE DEF f
  <2>7. /\ Len(cache') = Len(cache)
        /\ \A n \in 1..Len(cache) : cache'[n] = IF n = k THEN f ELSE cache[n]
    BY <1>2, <2>1
  <2>8. AllTidy(cache', cachedTopics')
    BY <1>1, <1>5, <2>6, <2>7 DEF AllTidy
  <2> QED
    BY <1>1, <2>8 DEF TidyInv
<1>7. CASE block = None
  <2> DEFINE new == NewBlock(readHead, sourceReadEnd, pending, SizeOf(pending))
  <2>1. cache' = Inserted(cache, new)
    BY <1>7 DEF SourceEnds
  <2>2. new \in Block /\ new.items = pending /\ new.end = sourceReadEnd
    BY <1>2, <1>4, SizesNat DEF NewBlock, Block
  <2>3. Tidy(pending, cachedTopics, sourceReadEnd)
    BY <1>2, <1>3, <1>4, <1>5, TidyLater
  <2> HIDE DEF new
  <2>4. \A n \in 1..Len(cache') :
          cache'[n] = new \/ \E l \in 1..Len(cache) : cache'[n] = cache[l]
    BY <1>2, <2>1, <2>2, InsertedFrom
  <2>5. AllTidy(cache', cachedTopics')
    BY <1>1, <1>5, <2>2, <2>3, <2>4 DEF AllTidy
  <2> QED
    BY <1>1, <2>5 DEF TidyInv
<1> QED
  BY <1>6, <1>7

LEMMA OpenSourceTidy == IInv /\ TidyInv /\ OpenSource => TidyInv'
<1> SUFFICES ASSUME IInv, TidyInv, OpenSource PROVE TidyInv'
  OBVIOUS
<1>1. /\ cache' = cache /\ cachedTopics' = cachedTopics
      /\ block' = None /\ pending' = <<>>
  BY DEF OpenSource, store
<1>2. AllTidy(cache, cachedTopics)
  BY DEF TidyInv
<1>3. \A k \in 1..Len(cache) : cache[k].start # None
  <2>1. \A k \in 1..Len(cache) : cache[k].start \in Nat
    BY BlocksFacts DEF IInv, Sorts
  <2> QED
    BY <2>1 DEF None
<1>4. InOrder(cache', block', pending', unread', cachedTopics', lastTime')
  BY <1>1, <1>3, NoneTidy DEF InOrder
<1> QED
  BY <1>1, <1>2, <1>4 DEF TidyInv

LEMMA NextTidy == IInv /\ TidyInv /\ [Next]_vars => TidyInv'
<1> SUFFICES ASSUME IInv, TidyInv, [Next]_vars PROVE TidyInv'
  OBVIOUS
<1> USE DEF store, eviction, reading, history
<1>1. AllTidy(cache, cachedTopics)
  BY DEF TidyInv
<1>2. ASSUME UNCHANGED <<cache, cachedTopics>>, pc' # "read" PROVE TidyInv'
  BY <1>1, <1>2 DEF TidyInv
<1>3. ASSUME cache' = <<>>, pc' # "read" PROVE TidyInv'
  BY <1>3, EmptySeq DEF TidyInv, AllTidy
<1>4. ASSUME NEW start \in Starts, NEW end \in Ends, NEW topics \in TopicSets,
             Open(start, end, topics)
      PROVE  TidyInv'
  BY <1>2, <1>3, <1>4 DEF Open
<1>5. CASE Exhausted
  BY <1>2, <1>5 DEF Exhausted
<1>6. CASE DropUnfinished
  <2>1. cache \in Seq(Block)
    BY DEF IInv, Sorts
  <2>2. BlockAt(readHead) \in 1..Len(cache)
    BY <1>6, <2>1, BlockAtFacts DEF DropUnfinished
  <2>3. /\ cache' = RemoveAt(cache, BlockAt(readHead))
        /\ cachedTopics' = cachedTopics /\ pc' = "loop"
    BY <1>6 DEF DropUnfinished
  <2>4. \A k \in 1..Len(cache') : \E l \in 1..Len(cache) : cache'[k] = cache[l]
    BY <2>1, <2>2, <2>3, RemovedFrom
  <2>5. AllTidy(cache', cachedTopics')
    BY <1>1, <2>3, <2>4 DEF AllTidy
  <2> QED
    BY <2>3, <2>5 DEF TidyInv
<1>7. CASE EnterBlock
  BY <1>2, <1>7 DEF EnterBlock
<1>8. CASE OpenSource
  BY <1>8, OpenSourceTidy
<1>9. CASE YieldCached
  BY <1>2, <1>9 DEF YieldCached
<1>10. CASE CachedPastEnd
  BY <1>2, <1>10 DEF CachedPastEnd
<1>11. CASE BlockRead
  BY <1>2, <1>11 DEF BlockRead
<1>12. CASE ReadResult
  BY <1>12, ReadTidy
<1>13. CASE SourceEnds
  BY <1>13, EndTidy
<1>14. CASE Return
  BY <1>2, <1>14 DEF Return
<1>15. ASSUME NEW t \in 0..End, SetCurrentReadHead(t) PROVE TidyInv'
  BY <1>1, <1>15 DEF SetCurrentReadHead, TidyInv, InOrder
<1>16. CASE Terminate
  BY <1>3, <1>16 DEF Terminate
<1>17. CASE UNCHANGED vars
  BY <1>1, <1>17 DEF vars, TidyInv, InOrder
<1> QED
  BY <1>4, <1>5, <1>6, <1>7, <1>8, <1>9, <1>10, <1>11, <1>12, <1>13, <1>14,
     <1>15, <1>16, <1>17 DEF Next, Iterate

-----------------------------------------------------------------------------
(* What was given: of the messages that the iterator is for, those before   *)
(* the time of the loop, those the source does not have still to yield, and *)
(* those before the item of the block that comes next.                      *)
Wanted == MessagesFor(cachedTopics, maxEnd)

AtGap == pc = "loop" => \A j \in Wanted : j < at <=> Source[j].time < readHead

AtSource ==
  pc = "read" =>
    /\ \A j \in Wanted :
         j < at <=> Source[j].time <= sourceReadEnd /\ j \notin unread
    /\ \A j \in Wanted, u \in unread : j < at => j < u

InBlock(b, n) ==
  /\ \A j \in Wanted :
       j < at <=> /\ Source[j].time <= b.end
                  /\ \A m \in n..Len(b.items) : b.items[m].index # j
  /\ \A j \in Wanted, m \in n..Len(b.items) : j < at => j < b.items[m].index

AtItem == pc = "cached" => InBlock(cache[IndexOf(cache, block)], item)

Position ==
  /\ first \in 1..(Len(Source) + 1)
  /\ AtGap
  /\ AtSource
  /\ AtItem

LEMMA WantedFacts ==
  ASSUME IInv, NEW j \in Wanted
  PROVE  /\ j \in 1..Len(Source) /\ j \in Nat
         /\ Source[j].time \in Nat /\ Source[j].time <= maxEnd
         /\ Source[j].type = "message-event" /\ Source[j].topic \in cachedTopics
<1>1. /\ j \in 1..Len(Source) /\ Source[j].time <= maxEnd
      /\ Source[j].type = "message-event" /\ Source[j].topic \in cachedTopics
  BY DEF Wanted, MessagesFor
<1> QED
  BY <1>1, SourceFacts, ConstantFacts

(* Later times come later in the source.                                    *)
LEMMA LaterFacts ==
  ASSUME NEW i \in 1..Len(Source), NEW j \in 1..Len(Source)
  PROVE  /\ Source[i].time < Source[j].time => i < j
         /\ i <= j => Source[i].time <= Source[j].time
<1>1. /\ i \in Nat /\ j \in Nat
      /\ Source[i].time \in Nat /\ Source[j].time \in Nat
  BY SourceFacts, ConstantFacts
<1>2. /\ i < j => Source[i].time <= Source[j].time
      /\ j < i => Source[j].time <= Source[i].time
  BY CachingAssumption
<1>3. i = j => Source[i].time = Source[j].time
  OBVIOUS
<1> QED
  BY <1>1, <1>2, <1>3

(* The first result is the one that starts the time it was asked for.       *)
LEMMA FirstFromIs ==
  ASSUME NEW t \in Nat
  PROVE  \A j \in 1..Len(Source) : j < FirstFrom(t) <=> Source[j].time < t
<1> DEFINE S == {i \in 1..Len(Source) : Source[i].time < t}
<1>1. FirstFrom(t) = Cardinality(S) + 1
  BY DEF FirstFrom
<1>2. \A i \in S : i \in 1..Len(Source) /\ Source[i].time < t
  OBVIOUS
<1>3. CASE S = {}
  <2>1. Cardinality(S) = 0
    BY <1>3, FS_EmptySet
  <2>2. \A j \in 1..Len(Source) : ~(Source[j].time < t)
    BY <1>3
  <2> HIDE DEF S
  <2> QED
    BY <1>1, <2>1, <2>2
<1>4. CASE S # {}
  <2>1. S \in SUBSET (0..Len(Source)) /\ Len(Source) \in Nat
    BY ConstantFacts
  <2>2. PICK k \in S : \A j \in S : j <= k
    <3> HIDE DEF S
    <3> QED
      BY <1>4, <2>1, GreatestExists
  <2>3. S = 1..k
    <3>1. ASSUME NEW j \in 1..k PROVE j \in S
      <4>1. j \in 1..Len(Source) /\ k \in 1..Len(Source) /\ j <= k
        BY <1>2, <2>1
      <4>2. Source[j].time <= Source[k].time /\ Source[k].time < t
        BY <1>2, <4>1, LaterFacts
      <4>3. Source[j].time \in Nat /\ Source[k].time \in Nat
        BY <4>1, SourceFacts, ConstantFacts
      <4> QED
        BY <4>1, <4>2, <4>3
    <3>2. ASSUME NEW j \in S PROVE j \in 1..k
      BY <1>2, <2>1, <2>2
    <3> QED
      BY <3>1, <3>2
  <2>4. k \in 1..Len(Source) /\ k \in Nat
    BY <1>2, <2>1
  <2>5. Cardinality(1..k) = k
    <3>1. k \in Int /\ 1 \in Int /\ ~(1 > k)
      BY <2>4
    <3>2. Cardinality(1..k) = IF 1 > k THEN 0 ELSE k - 1 + 1
      BY <3>1, FS_Interval
    <3> QED
      BY <3>1, <3>2
  <2>6. FirstFrom(t) = k + 1
    BY <1>1, <2>3, <2>5
  <2>7. ASSUME NEW j \in 1..Len(Source)
        PROVE  j < k + 1 <=> Source[j].time < t
    <3>1. j \in S <=> Source[j].time < t
      OBVIOUS
    <3> HIDE DEF S
    <3>2. j \in S <=> j < k + 1
      BY <2>1, <2>3, <2>4
    <3> QED
      BY <3>1, <3>2
  <2> QED
    BY <2>6, <2>7
<1> QED
  BY <1>3, <1>4

(* Where a tidy block is entered.                                           *)
LEMMA StartItemIs ==
  ASSUME NEW b \in Block, NEW topics, Tidy(b.items, topics, b.end),
         readHead \in Nat
  PROVE  /\ FindStartItem(b) \in Nat \ {0}
         /\ \A n \in 1..Len(b.items) :
              n >= FindStartItem(b) <=> b.items[n].time >= readHead
<1> DEFINE found == {n \in 1..Len(b.items) : b.items[n].time >= readHead}
           s == FindStartItem(b)
<1>1. s = IF found = {} THEN Len(b.items) + 1 ELSE Least(found)
  <2>1. FirstIndex(b.items, LAMBDA x : x.time >= readHead)
          = IF found = {} THEN 0 ELSE Least(found)
    BY DEF FirstIndex, Least
  <2>2. found # {} => Least(found) \in 1..Len(b.items)
    <3>1. Len(b.items) \in Nat
      BY BlockFacts
    <3> QED
      BY <3>1, LeastFacts
  <2>3. 0 \notin 1..Len(b.items)
    OBVIOUS
  <2> HIDE DEF found
  <2> QED
    BY <2>1, <2>2, <2>3 DEF FindStartItem
<1>2. b.items \in Seq(Item) /\ Len(b.items) \in Nat
  BY BlockFacts
<1>3. found # {} => Least(found) \in found /\ \A n \in found : Least(found) <= n
  BY <1>2, LeastFacts
<1>4. \A n \in 1..Len(b.items) : b.items[n].time \in Nat
  BY <1>2, ItemFacts
<1>5. \A m, n \in 1..Len(b.items) : m < n => b.items[m].time <= b.items[n].time
  BY DEF Tidy
<1>6. \A n : n \in found <=> n \in 1..Len(b.items) /\ b.items[n].time >= readHead
  OBVIOUS
<1> HIDE DEF found, s
<1>7. s \in Nat \ {0}
  BY <1>1, <1>2, <1>3, <1>6
<1>8. ASSUME NEW n \in 1..Len(b.items)
      PROVE  n >= s <=> b.items[n].time >= readHead
  <2>1. CASE found = {}
    BY <1>1, <1>2, <1>6, <2>1
  <2>2. CASE found # {}
    <3>1. /\ s \in 1..Len(b.items) /\ b.items[s].time >= readHead
          /\ \A m \in found : s <= m
      BY <1>1, <1>3, <1>6, <2>2
    <3>2. n >= s => b.items[n].time >= readHead
      <4>1. n > s => b.items[s].time <= b.items[n].time
        BY <1>5, <3>1
      <4>2. b.items[s].time \in Nat /\ b.items[n].time \in Nat
        BY <1>4, <3>1
      <4> QED
        BY <3>1, <4>1, <4>2
    <3>3. b.items[n].time >= readHead => n >= s
      BY <1>6, <3>1
    <3> QED
      BY <3>2, <3>3
  <2> QED
    BY <2>1, <2>2
<1> QED
  BY <1>7, <1>8 DEF s

-----------------------------------------------------------------------------
(* Each step gives what comes next.                                         *)

LEMMA OpenPosition ==
  ASSUME IInv, NEW start \in Starts, NEW end \in Ends, NEW topics \in TopicSets,
         Open(start, end, topics)
  PROVE  Position'
<1>1. /\ pc' = "loop" /\ readHead' = start /\ first' = FirstFrom(start)
      /\ at' = first'
  BY DEF Open
<1>2. start \in Nat
  BY ConstantFacts
<1>3. first' \in 1..(Len(Source) + 1)
  BY <1>1, FirstFromFacts
<1>4. \A j \in 1..Len(Source) : j < at' <=> Source[j].time < readHead'
  BY <1>1, <1>2, FirstFromIs
<1>5. \A j \in Wanted' : j \in 1..Len(Source)
  BY DEF Wanted, MessagesFor
<1> QED
  BY <1>1, <1>3, <1>4, <1>5 DEF Position, AtGap, AtSource, AtItem

LEMMA EnterBlockPosition ==
  IInv /\ TidyInv /\ Position /\ EnterBlock => Position'
<1> SUFFICES ASSUME IInv, TidyInv, Position, EnterBlock PROVE Position'
  OBVIOUS
<1> DEFINE k == BlockAt(readHead)
           b == cache[k]
<1>1. cache \in Seq(Block) /\ Ordered(cache) /\ readHead \in 0..(End + 1)
  BY DEF IInv, Sorts
<1>2. readHead \in Nat
  BY <1>1, ConstantFacts
<1>3. /\ pc = "loop" /\ pc' = "cached" /\ ~Unfinished(b)
      /\ block' = b.start /\ item' = FindStartItem(b)
      /\ UNCHANGED <<cache, cachedTopics, maxEnd, at, first>>
  BY DEF EnterBlock, store, history
<1>4. k \in 1..Len(cache) /\ Covers(b, readHead)
  BY <1>1, BlockAtFacts DEF EnterBlock
<1>5. IndexOf(cache, block') = k
  <2> HIDE DEF k
  <2>1. IndexOf(cache, block') \in 1..Len(cache)
        /\ cache[IndexOf(cache, block')].start = cache[k].start
    BY <1>1, <1>3, <1>4, IndexOfFacts
  <2> QED
    BY <1>1, <1>4, <2>1, StartsDiffer
<1>6. /\ b \in Block /\ Tidy(b.items, cachedTopics, b.end)
      /\ MessagesOf(b.items) = MessagesIn(cachedTopics, b.start, b.end)
  <2>1. Whole(cache, cachedTopics) /\ AllTidy(cache, cachedTopics)
    BY DEF IInv, TidyInv
  <2> HIDE DEF k
  <2> QED
    BY <1>1, <1>3, <1>4, <2>1, BlocksFacts DEF Whole, AllTidy
<1> HIDE DEF k, b
<1>7. /\ b.items \in Seq(Item) /\ b.start \in Nat /\ b.end \in Nat
      /\ b.start <= readHead /\ readHead <= b.end
  BY <1>4, <1>6, BlockFacts DEF Covers
<1>8. /\ item' \in Nat \ {0}
      /\ \A n \in 1..Len(b.items) :
           n >= item' <=> b.items[n].time >= readHead
  BY <1>2, <1>3, <1>6, StartItemIs
<1>9. ASSUME NEW n \in item'..Len(b.items)
      PROVE  /\ n \in 1..Len(b.items)
             /\ b.items[n].time >= readHead /\ b.items[n].time \in Nat
             /\ b.items[n].index \in 1..Len(Source)
             /\ b.items[n].time <= Source[b.items[n].index].time
             /\ Source[b.items[n].index].time \in Nat
  <2>1. n \in 1..Len(b.items) /\ n >= item'
    BY <1>8
  <2>2. b.items[n].time \in Nat /\ b.items[n].index \in 1..Len(Source)
    BY <1>7, <2>1, ItemFacts
  <2>3. b.items[n].time <= Source[b.items[n].index].time
    BY <1>6, <2>1 DEF Tidy, Stamped
  <2> QED
    BY <1>8, <2>1, <2>2, <2>3, SourceFacts, ConstantFacts
<1>10. ASSUME NEW j \in Wanted, NEW n \in 1..Len(b.items),
              b.items[n].index = j
       PROVE  b.items[n].time = Source[j].time
  <2>1. Stamped(b.items[n], cachedTopics)
    BY <1>6 DEF Tidy
  <2> QED
    BY <1>10, <2>1, WantedFacts DEF Stamped
<1>11. \A j \in Wanted : j < at <=> Source[j].time < readHead
  BY <1>3 DEF Position, AtGap
<1>12. ASSUME NEW j \in Wanted
       PROVE  j < at <=> /\ Source[j].time <= b.end
                         /\ \A m \in item'..Len(b.items) : b.items[m].index # j
  <2>1. /\ j \in 1..Len(Source) /\ Source[j].time \in Nat
        /\ Source[j].type = "message-event" /\ Source[j].topic \in cachedTopics
    BY WantedFacts
  <2>2. ASSUME j < at, NEW m \in item'..Len(b.items), b.items[m].index = j
        PROVE  FALSE
    <3>1. b.items[m].time = Source[j].time /\ b.items[m].time >= readHead
      BY <1>9, <1>10, <2>2
    <3>2. Source[j].time < readHead
      BY <1>11, <2>2
    <3> QED
      BY <1>2, <2>1, <3>1, <3>2
  <2>3. ASSUME j < at PROVE Source[j].time <= b.end
    <3>1. Source[j].time < readHead
      BY <1>11, <2>3
    <3> QED
      BY <1>2, <1>7, <2>1, <3>1
  <2>4. ASSUME Source[j].time <= b.end,
               \A m \in item'..Len(b.items) : b.items[m].index # j,
               ~(j < at)
        PROVE  FALSE
    <3>1. Source[j].time >= readHead
      BY <1>2, <1>11, <2>1, <2>4
    <3>2. Source[j].time \in b.start..b.end
      BY <1>2, <1>7, <2>1, <2>4, <3>1
    <3>3. j \in MessagesOf(b.items)
      BY <1>6, <2>1, <3>2 DEF MessagesIn
    <3>4. PICK m \in 1..Len(b.items) : b.items[m].index = j
      BY <3>3 DEF MessagesOf
    <3>5. b.items[m].time >= readHead
      BY <1>10, <3>1, <3>4
    <3>6. m \in item'..Len(b.items)
      BY <1>7, <1>8, <3>5
    <3> QED
      BY <2>4, <3>4, <3>6
  <2> QED
    BY <2>2, <2>3, <2>4
<1>13. ASSUME NEW j \in Wanted, NEW m \in item'..Len(b.items), j < at
       PROVE  j < b.items[m].index
  <2>1. j \in 1..Len(Source) /\ Source[j].time \in Nat
    BY WantedFacts
  <2>2. Source[j].time < readHead
    BY <1>11, <1>13
  <2>3. Source[j].time < Source[b.items[m].index].time
    BY <1>2, <1>9, <2>1, <2>2
  <2> QED
    BY <1>9, <2>1, <2>3, LaterFacts
<1>14. Wanted' = Wanted
  BY <1>3 DEF Wanted, MessagesFor
<1>15. AtItem'
  <2>1. cache'[IndexOf(cache', block')] = b
    BY <1>3, <1>5 DEF b
  <2> QED
    BY <1>3, <1>12, <1>13, <1>14, <2>1 DEF AtItem, InBlock
<1> QED
  BY <1>3, <1>15 DEF Position, AtGap, AtSource

LEMMA OpenSourcePosition ==
  IInv /\ Position /\ OpenSource => Position'
<1> SUFFICES ASSUME IInv, Position, OpenSource PROVE Position'
  OBVIOUS
<1>1. /\ pc = "loop" /\ pc' = "read" /\ sourceReadEnd' = GapEnd
      /\ unread' = SourceResults(readHead, GapEnd)
      /\ UNCHANGED <<cache, cachedTopics, maxEnd, at, first>>
  BY DEF OpenSource, store, history
<1>2. GapEnd \in Nat /\ readHead \in Nat /\ readHead <= GapEnd
  BY GapFacts, ConstantFacts DEF OpenSource
<1>3. Wanted' = Wanted
  BY <1>1 DEF Wanted, MessagesFor
<1>4. ASSUME NEW u \in unread'
      PROVE  /\ u \in 1..Len(Source) /\ Source[u].time \in Nat
             /\ readHead <= Source[u].time /\ Source[u].time <= GapEnd
  <2>1. u \in 1..Len(Source) /\ Source[u].time \in readHead..GapEnd
    BY <1>1 DEF SourceResults
  <2> QED
    BY <1>2, <2>1
<1>5. \A j \in Wanted : j < at <=> Source[j].time < readHead
  BY <1>1 DEF Position, AtGap
<1>6. ASSUME NEW j \in Wanted
      PROVE  j < at <=> Source[j].time <= sourceReadEnd' /\ j \notin unread'
  <2>1. /\ j \in 1..Len(Source) /\ Source[j].time \in Nat
        /\ Source[j].topic \in cachedTopics
    BY WantedFacts
  <2>2. ASSUME j < at
        PROVE  Source[j].time <= sourceReadEnd' /\ j \notin unread'
    <3>1. Source[j].time < readHead
      BY <1>5, <2>2
    <3>2. j \notin unread'
      BY <1>2, <1>4, <2>1, <3>1
    <3> QED
      BY <1>1, <1>2, <2>1, <3>1, <3>2
  <2>3. ASSUME Source[j].time <= sourceReadEnd', j \notin unread', ~(j < at)
        PROVE  FALSE
    <3>1. Source[j].time \in readHead..GapEnd
      BY <1>1, <1>2, <1>5, <2>1, <2>3
    <3> QED
      BY <1>1, <2>1, <2>3, <3>1 DEF SourceResults, Matches
  <2> QED
    BY <2>2, <2>3
<1>7. ASSUME NEW j \in Wanted, NEW u \in unread', j < at PROVE j < u
  <2>1. /\ j \in 1..Len(Source) /\ Source[j].time \in Nat
        /\ Source[j].time < readHead
    BY <1>5, <1>7, WantedFacts
  <2>2. Source[j].time < Source[u].time
    BY <1>2, <1>4, <2>1
  <2> QED
    BY <1>4, <2>1, <2>2, LaterFacts
<1> QED
  BY <1>1, <1>3, <1>6, <1>7 DEF Position, AtGap, AtSource, AtItem

LEMMA YieldCachedPosition ==
  IInv /\ TidyInv /\ Position /\ YieldCached => Position'
<1> SUFFICES ASSUME IInv, TidyInv, Position, YieldCached PROVE Position'
  OBVIOUS
<1> DEFINE b == cache[IndexOf(cache, block)]
           i == b.items[item].index
<1>1. /\ pc = "cached" /\ item <= Len(b.items) /\ at' = i + 1
      /\ item' = item + 1
      /\ UNCHANGED <<pc, cache, block, cachedTopics, maxEnd, first>>
  BY DEF YieldCached, Yielded, store, reading
<1>2. /\ b \in Block /\ Tidy(b.items, cachedTopics, b.end)
      /\ item \in Nat /\ item >= 1
  <2>1. cache \in Seq(Block) /\ AllTidy(cache, cachedTopics)
    BY DEF IInv, Sorts, TidyInv
  <2>2. IndexOf(cache, block) \in 1..Len(cache)
    BY <1>1, InUse
  <2>3. item \in Nat /\ item >= 1
    BY <1>1 DEF IInv, Sorts, Active
  <2> QED
    BY <2>1, <2>2, <2>3, BlocksFacts DEF AllTidy
<1>3. InBlock(b, item)
  BY <1>1 DEF Position, AtItem
<1>4. Wanted' = Wanted
  BY <1>1 DEF Wanted, MessagesFor
<1>5. cache'[IndexOf(cache', block')] = b
  BY <1>1
<1> HIDE DEF b
<1>6. /\ b.items \in Seq(Item) /\ b.end \in Nat /\ Len(b.items) \in Nat
      /\ item \in 1..Len(b.items)
  BY <1>1, <1>2, BlockFacts
<1>7. \A n \in 1..Len(b.items) :
        b.items[n].index \in Nat /\ b.items[n].time \in Nat
  BY <1>6, ItemFacts
<1>8. /\ i \in Nat /\ b.items[item].time \in Nat
      /\ b.items[item].time <= b.end /\ Stamped(b.items[item], cachedTopics)
  BY <1>2, <1>6, <1>7 DEF Tidy
<1>9. \A n \in (item + 1)..Len(b.items) :
        n \in 1..Len(b.items) /\ b.items[n].index \in Nat /\ i < b.items[n].index
  <2>1. ASSUME NEW n \in (item + 1)..Len(b.items)
        PROVE  n \in 1..Len(b.items) /\ item < n
    BY <1>6
  <2> QED
    BY <1>2, <1>6, <1>7, <2>1 DEF Tidy
<1> HIDE DEF i
<1>10. ASSUME NEW j \in Wanted
       PROVE  j < at' <=>
                /\ Source[j].time <= b.end
                /\ \A m \in item'..Len(b.items) : b.items[m].index # j
  <2>1. /\ j \in 1..Len(Source) /\ j \in Nat /\ Source[j].time \in Nat
        /\ Source[j].type = "message-event" /\ Source[j].topic \in cachedTopics
    BY WantedFacts
  <2>2. j < at' <=> j <= i
    BY <1>1, <1>8, <2>1
  <2>3. ASSUME j <= i PROVE Source[j].time <= b.end
    <3>1. Source[j].time <= b.items[item].time
      <4>1. CASE j < i
        BY <1>8, <2>1, <4>1 DEF Stamped, i
      <4>2. CASE j = i
        <5>1. b.items[item].time = Source[j].time
          BY <1>8, <2>1, <4>2 DEF Stamped, i
        <5> QED
          BY <1>8, <5>1
      <4> QED
        BY <1>8, <2>1, <2>3, <4>1, <4>2
    <3> QED
      BY <1>6, <1>8, <2>1, <3>1
  <2>4. ASSUME j <= i
        PROVE  \A m \in (item + 1)..Len(b.items) : b.items[m].index # j
    BY <1>8, <1>9, <2>1, <2>4
  <2>5. ASSUME Source[j].time <= b.end,
               \A m \in (item + 1)..Len(b.items) : b.items[m].index # j
        PROVE  j <= i
    <3>1. CASE i = j
      BY <2>1, <3>1
    <3>2. CASE i # j
      <4>1. \A m \in item..Len(b.items) : b.items[m].index # j
        <5>1. \A m \in item..Len(b.items) :
                m = item \/ m \in (item + 1)..Len(b.items)
          BY <1>6
        <5> QED
          BY <2>5, <3>2, <5>1 DEF i
      <4>2. j < at
        BY <1>3, <2>5, <4>1 DEF InBlock
      <4>3. item \in item..Len(b.items)
        BY <1>6
      <4>4. j < i
        BY <1>3, <4>2, <4>3 DEF InBlock, i
      <4> QED
        BY <1>8, <2>1, <4>4
    <3> QED
      BY <3>1, <3>2
  <2> QED
    BY <1>1, <2>2, <2>3, <2>4, <2>5
<1>11. ASSUME NEW j \in Wanted, NEW m \in item'..Len(b.items), j < at'
       PROVE  j < b.items[m].index
  <2>1. j \in Nat /\ m \in (item + 1)..Len(b.items)
    BY <1>1, WantedFacts
  <2> QED
    BY <1>1, <1>8, <1>9, <1>11, <2>1
<1>12. AtItem'
  BY <1>4, <1>5, <1>10, <1>11 DEF AtItem, InBlock
<1> QED
  BY <1>1, <1>12 DEF Position, AtGap, AtSource

LEMMA ReadGoesOn == ReadResult => pc' \in {"read", "failed"}
<1> SUFFICES ASSUME ReadResult PROVE pc' \in {"read", "failed"}
  OBVIOUS
<1> DEFINE i == Least(unread)
           moves == Source[i].type # "problem" /\ Source[i].time > lastTime
           s == OpenedCache
           k == OpenedIndex
           b == IF moves THEN Flushed(s[k], Source[i].time) ELSE s[k]
           r == [s EXCEPT ![k] = b]
<1>1. MaybePurge(r, block', Source[i].size)
  BY DEF ReadResult, OpenedCache, OpenedIndex
<1> HIDE DEF r
<1> QED
  BY <1>1 DEF MaybePurge

LEMMA ReadPosition ==
  IInv /\ Position /\ ReadResult => Position'
<1> SUFFICES ASSUME IInv, Position, ReadResult PROVE Position'
  OBVIOUS
<1> DEFINE i == Least(unread)
<1>1. /\ pc = "read" /\ unread # {} /\ unread' = unread \ {i}
      /\ UNCHANGED <<cachedTopics, maxEnd, sourceReadEnd>>
      /\ pc' = "failed" => UNCHANGED history
      /\ pc' # "failed" => at' = i + 1 /\ first' = first
  BY DEF ReadResult, Yielded
<1>2. pc' \in {"read", "failed"}
  BY ReadGoesOn
<1>3. /\ unread \subseteq 1..Len(Source) /\ sourceReadEnd \in Nat
      /\ Len(Source) \in Nat
  BY ConstantFacts DEF IInv, Sorts
<1>4. /\ i \in unread /\ i \in 1..Len(Source) /\ i \in Nat
      /\ \A u \in unread : i <= u
      /\ Source[i].time \in Nat /\ Source[i].time <= sourceReadEnd
  <2>1. /\ i \in unread /\ \A u \in unread : i <= u
    BY <1>1, <1>3, LeastFacts
  <2>2. i \in 1..Len(Source) /\ Source[i].time \in lastTime..sourceReadEnd
    BY <1>1, NextUnread
  <2>3. lastTime \in Nat
    BY ConstantFacts DEF IInv, Sorts
  <2> HIDE DEF i
  <2> QED
    BY <1>3, <2>1, <2>2, <2>3
<1> HIDE DEF i
<1>5. /\ \A j \in Wanted :
           j < at <=> Source[j].time <= sourceReadEnd /\ j \notin unread
      /\ \A j \in Wanted, u \in unread : j < at => j < u
      /\ first \in 1..(Len(Source) + 1)
  BY <1>1 DEF Position, AtSource
<1>6. Wanted' = Wanted
  BY <1>1 DEF Wanted, MessagesFor
<1>7. CASE pc' = "failed"
  BY <1>1, <1>5, <1>7 DEF Position, AtGap, AtSource, AtItem, history
<1>8. CASE pc' = "read"
  <2>1. at' = i + 1 /\ first' = first
    BY <1>1, <1>8
  <2>2. \A u \in unread \ {i} : u \in Nat /\ i < u
    BY <1>3, <1>4
  <2>3. ASSUME NEW j \in Wanted
        PROVE  j < at' <=> Source[j].time <= sourceReadEnd' /\ j \notin unread'
    <3>1. j \in 1..Len(Source) /\ j \in Nat /\ Source[j].time \in Nat
      BY WantedFacts
    <3>2. j < at' <=> j <= i
      BY <1>4, <2>1, <3>1
    <3>3. ASSUME j <= i
          PROVE  Source[j].time <= sourceReadEnd /\ j \notin unread \ {i}
      <4>1. Source[j].time <= Source[i].time
        BY <1>4, <3>1, <3>3, LaterFacts
      <4>2. Source[j].time <= sourceReadEnd
        BY <1>3, <1>4, <3>1, <4>1
      <4> QED
        BY <1>4, <2>2, <3>1, <3>3, <4>2
    <3>4. ASSUME Source[j].time <= sourceReadEnd, j \notin unread \ {i}
          PROVE  j <= i
      <4>1. CASE j = i
        BY <1>4, <4>1
      <4>2. CASE j # i
        <5>1. j < at
          BY <1>5, <3>4, <4>2
        <5> QED
          BY <1>4, <1>5, <3>1, <5>1
      <4> QED
        BY <4>1, <4>2
    <3> QED
      BY <1>1, <3>2, <3>3, <3>4
  <2>4. ASSUME NEW j \in Wanted, NEW u \in unread', j < at' PROVE j < u
    <3>1. j \in Nat /\ u \in Nat /\ i < u
      BY <1>1, <2>2, WantedFacts
    <3> QED
      BY <1>4, <2>1, <2>4, <3>1
  <2>5. AtSource'
    BY <1>6, <2>3, <2>4 DEF AtSource
  <2> QED
    BY <1>5, <1>8, <2>1, <2>5 DEF Position, AtGap, AtItem
<1> QED
  BY <1>2, <1>7, <1>8

LEMMA NextPosition ==
  IInv /\ TidyInv /\ Position /\ [Next]_vars => Position'
<1> SUFFICES ASSUME IInv, TidyInv, Position, [Next]_vars PROVE Position'
  OBVIOUS
<1> USE DEF store, eviction, reading, history
<1>1. first \in 1..(Len(Source) + 1)
  BY DEF Position
<1>2. ASSUME UNCHANGED first, pc' \notin {"loop", "read", "cached"}
      PROVE  Position'
  BY <1>1, <1>2 DEF Position, AtGap, AtSource, AtItem
<1>3. ASSUME UNCHANGED <<cachedTopics, cache, pc, readHead, maxEnd, item, block,
                         unread, sourceReadEnd, first, at>>
      PROVE  Position'
  BY <1>3 DEF Position, AtGap, AtSource, AtItem, InBlock, Wanted, MessagesFor
<1>4. ASSUME NEW start \in Starts, NEW end \in Ends, NEW topics \in TopicSets,
             Open(start, end, topics)
      PROVE  Position'
  BY <1>4, OpenPosition
<1>5. CASE Exhausted
  BY <1>2, <1>5 DEF Exhausted
<1>6. CASE DropUnfinished
  BY <1>6 DEF DropUnfinished, Position, AtGap, AtSource, AtItem, Wanted,
              MessagesFor
<1>7. CASE EnterBlock
  BY <1>7, EnterBlockPosition
<1>8. CASE OpenSource
  BY <1>8, OpenSourcePosition
<1>9. CASE YieldCached
  BY <1>9, YieldCachedPosition
<1>10. CASE CachedPastEnd
  BY <1>2, <1>10 DEF CachedPastEnd
<1>11. CASE BlockRead
  <2> DEFINE b == cache[IndexOf(cache, block)]
  <2>1. /\ pc = "cached" /\ pc' = "loop" /\ item > Len(b.items)
        /\ readHead' = b.end + 1
        /\ UNCHANGED <<cachedTopics, maxEnd, first, at>>
    BY <1>11 DEF BlockRead, AfterBlock
  <2>2. b \in Block
    <3>1. cache \in Seq(Block)
      BY DEF IInv, Sorts
    <3> QED
      BY <2>1, <3>1, InUse, BlocksFacts
  <2>3. InBlock(b, item)
    BY <2>1 DEF Position, AtItem
  <2> HIDE DEF b
  <2>4. b.end \in Nat /\ Len(b.items) \in Nat /\ item \in Nat
    BY <2>2, BlockFacts DEF IInv, Sorts
  <2>5. item..Len(b.items) = {}
    BY <2>1, <2>4
  <2>6. ASSUME NEW j \in Wanted PROVE j < at <=> Source[j].time < readHead'
    <3>1. j < at <=> Source[j].time <= b.end
      BY <2>3, <2>5 DEF InBlock
    <3>2. Source[j].time \in Nat
      BY WantedFacts
    <3> QED
      BY <2>1, <2>4, <3>1, <3>2
  <2>7. Wanted' = Wanted
    BY <2>1 DEF Wanted, MessagesFor
  <2> QED
    BY <1>1, <2>1, <2>6, <2>7 DEF Position, AtGap, AtSource, AtItem
<1>12. CASE ReadResult
  BY <1>12, ReadPosition
<1>13. CASE SourceEnds
  <2>1. /\ pc = "read" /\ pc' = "loop" /\ unread = {}
        /\ readHead' = sourceReadEnd + 1
        /\ UNCHANGED <<cachedTopics, maxEnd, first, at>>
    BY <1>13 DEF SourceEnds
  <2>2. sourceReadEnd \in Nat
    BY ConstantFacts DEF IInv, Sorts
  <2>3. ASSUME NEW j \in Wanted PROVE j < at <=> Source[j].time < readHead'
    <3>1. j < at <=> Source[j].time <= sourceReadEnd
      BY <2>1 DEF Position, AtSource
    <3>2. Source[j].time \in Nat
      BY WantedFacts
    <3> QED
      BY <2>1, <2>2, <3>1, <3>2
  <2>4. Wanted' = Wanted
    BY <2>1 DEF Wanted, MessagesFor
  <2> QED
    BY <1>1, <2>1, <2>3, <2>4 DEF Position, AtGap, AtSource, AtItem
<1>14. CASE Return
  BY <1>2, <1>14 DEF Return
<1>15. ASSUME NEW t \in 0..End, SetCurrentReadHead(t) PROVE Position'
  BY <1>3, <1>15 DEF SetCurrentReadHead
<1>16. CASE Terminate
  BY <1>2, <1>16 DEF Terminate
<1>17. CASE UNCHANGED vars
  BY <1>3, <1>17 DEF vars
<1> QED
  BY <1>4, <1>5, <1>6, <1>7, <1>8, <1>9, <1>10, <1>11, <1>12, <1>13, <1>14,
     <1>15, <1>16, <1>17 DEF Next, Iterate

-----------------------------------------------------------------------------
(* What comes next of the messages that are wanted.                         *)
Upcoming(W, i) == Least({j \in W \cup {Len(Source) + 1} : j >= i})

LEMMA UpcomingFacts ==
  ASSUME NEW W \in SUBSET (1..Len(Source)), NEW i \in 1..(Len(Source) + 1)
  PROVE  /\ Upcoming(W, i) \in W \cup {Len(Source) + 1}
         /\ Upcoming(W, i) >= i
         /\ \A j \in W : j >= i => Upcoming(W, i) <= j
<1> DEFINE n == Len(Source)
           later == {j \in W \cup {n + 1} : j >= i}
<1>1. n \in Nat
  BY ConstantFacts
<1>2. later \in SUBSET (1..(n + 1)) /\ n + 1 \in later
  <2>1. W \in SUBSET (1..n) /\ i \in 1..(n + 1)
    OBVIOUS
  <2> HIDE DEF n
  <2>2. \A j \in W \cup {n + 1} : j \in 1..(n + 1)
    BY <1>1, <2>1
  <2>3. n + 1 >= i
    BY <1>1, <2>1
  <2> QED
    BY <2>2, <2>3
<1>3. Least(later) \in later /\ \A j \in later : Least(later) <= j
  <2>1. n + 1 \in Nat /\ later # {}
    BY <1>1, <1>2
  <2> HIDE DEF later
  <2> QED
    BY <1>2, <2>1, LeastFacts
<1>4. Upcoming(W, i) = Least(later)
  BY DEF Upcoming
<1>5. \A j : j \in later <=> j \in W \cup {n + 1} /\ j >= i
  OBVIOUS
<1> HIDE DEF later
<1> QED
  BY <1>3, <1>4, <1>5

LEMMA UpcomingIs ==
  ASSUME NEW W \in SUBSET (1..Len(Source)), NEW i \in 1..(Len(Source) + 1),
         NEW k \in W \cup {Len(Source) + 1}, k >= i,
         \A j \in W : j < k => j < i
  PROVE  Upcoming(W, i) = k
<1> DEFINE u == Upcoming(W, i)
<1>1. /\ u \in W \cup {Len(Source) + 1} /\ u >= i
      /\ \A j \in W : j >= i => u <= j
  BY UpcomingFacts
<1> HIDE DEF u
<1>2. Len(Source) \in Nat
  BY ConstantFacts
<1>3. u \in 1..(Len(Source) + 1) /\ k \in 1..(Len(Source) + 1)
  BY <1>1, <1>2
<1>4. u <= k
  BY <1>1, <1>2, <1>3
<1>5. k <= u
  BY <1>1, <1>2, <1>3
<1>6. u = k
  BY <1>3, <1>4, <1>5
<1> QED
  BY <1>6 DEF u

LEMMA UpcomingSame ==
  ASSUME NEW W \in SUBSET (1..Len(Source)), NEW i \in 1..(Len(Source) + 1),
         NEW k \in 1..(Len(Source) + 1), \A j \in W : j < i <=> j < k
  PROVE  Upcoming(W, i) = Upcoming(W, k)
<1> DEFINE u == Upcoming(W, i)
<1>1. /\ u \in W \cup {Len(Source) + 1} /\ u >= i
      /\ \A j \in W : j >= i => u <= j
  BY UpcomingFacts
<1> HIDE DEF u
<1>2. Len(Source) \in Nat
  BY ConstantFacts
<1>3. u >= k
  BY <1>1, <1>2
<1>4. \A j \in W : j < u => j < k
  BY <1>1, <1>2
<1>5. Upcoming(W, k) = u
  BY <1>1, <1>3, <1>4, UpcomingIs
<1> QED
  BY <1>5 DEF u

LEMMA UpcomingNone ==
  ASSUME NEW i \in 1..(Len(Source) + 1)
  PROVE  Upcoming({}, i) = Len(Source) + 1
<1>1. {} \in SUBSET (1..Len(Source)) /\ Len(Source) \in Nat
  BY ConstantFacts
<1>2. Len(Source) + 1 >= i
  BY <1>1
<1> QED
  BY <1>1, <1>2, UpcomingIs

-----------------------------------------------------------------------------
(* What the steps show of the stream.                                       *)

LEMMA Shown ==
  /\ Stream!vars = <<OpenedFor, Upcoming(OpenedFor, first),
                     Upcoming(OpenedFor, at), Phase, FALSE>>
  /\ \A i : NextOf(i) = Upcoming(OpenedFor, i)
  /\ \A W, i : Stream!Following(W, i) = Upcoming(W, i)
  BY DEF Stream!vars, NextOf, Upcoming, Stream!Following, Least

LEMMA ShownNext ==
  Stream!vars' = <<OpenedFor', Upcoming(OpenedFor', first'),
                   Upcoming(OpenedFor', at'), Phase', FALSE>>
  BY DEF Stream!vars, NextOf, Upcoming

(* Steps that only look for what comes next do not show.                    *)
LEMMA LooksOnly ==
  ASSUME UNCHANGED <<cachedTopics, maxEnd, first, at>>,
         pc \in {"loop", "cached", "read"}, pc' \in {"loop", "cached", "read"}
  PROVE  UNCHANGED Stream!vars
<1>1. Phase = "open" /\ Phase' = "open"
  BY DEF Phase
<1>2. OpenedFor' = OpenedFor
  BY DEF OpenedFor, MessagesFor
<1> QED
  BY <1>1, <1>2, Shown, ShownNext

LEMMA OpenOpens ==
  ASSUME NEW start \in Starts, NEW end \in Ends, NEW topics \in TopicSets,
         Open(start, end, topics)
  PROVE  Stream!Next
<1> DEFINE W == MessagesFor(topics, end)
<1>1. /\ pc = "none" /\ pc' = "loop" /\ cachedTopics' = topics
      /\ maxEnd' = end /\ first' = FirstFrom(start) /\ at' = first'
  BY DEF Open, store
<1>2. OpenedFor' = W
  BY <1>1 DEF OpenedFor, MessagesFor
<1>3. first' \in 1..(Len(Source) + 1)
  BY <1>1, FirstFromFacts
<1>4. Stream!StartsAt(first', start)
  <2>1. start \in Nat
    BY ConstantFacts
  <2> QED
    BY <1>1, <2>1, FirstFromIs DEF Stream!StartsAt
<1>5. Phase = "closed" /\ Phase' = "open"
  BY <1>1 DEF Phase
<1>6. /\ NextOf(first)' = Stream!Following(W, first')
      /\ NextOf(at)' = NextOf(first)'
  BY <1>1, <1>2, Shown DEF NextOf, Upcoming
<1> HIDE DEF W
<1>7. Stream!Open(start, W)
  BY <1>2, <1>3, <1>4, <1>5, <1>6 DEF Stream!Open
<1> QED
  BY <1>7 DEF Stream!Next, W

(* The result that is next, of the messages at least, is yielded: a message *)
(* that is wanted, or something that does not show.                         *)
LEMMA YieldShows ==
  ASSUME IInv, NEW i \in 1..Len(Source), at' = i + 1,
         \A j \in Wanted : j < at <=> j < i,
         UNCHANGED <<cachedTopics, maxEnd, first>>,
         pc \in {"cached", "read"}, pc' \in {"cached", "read"}
  PROVE  [Stream!Next]_(Stream!vars)
<1>1. Phase = "open" /\ Phase' = "open"
  BY DEF Phase
<1>2. OpenedFor = Wanted /\ OpenedFor' = Wanted
  BY DEF OpenedFor, Wanted, MessagesFor
<1>3. /\ Wanted \in SUBSET (1..Len(Source)) /\ Len(Source) \in Nat
      /\ at \in 1..(Len(Source) + 1)
  BY ConstantFacts DEF Wanted, MessagesFor, IInv, Sorts
<1>4. CASE i \in Wanted
  <2>1. i >= at
    BY <1>3, <1>4
  <2>2. Upcoming(Wanted, at) = i
    BY <1>3, <1>4, <2>1, UpcomingIs
  <2>3. NextOf(at) = i
    BY <1>2, <2>2, Shown
  <2>4. NextOf(at)' = Stream!Following(OpenedFor, i + 1)
    BY <1>2, Shown DEF NextOf, Upcoming
  <2>5. NextOf(first)' = NextOf(first)
    BY <1>2 DEF NextOf
  <2>6. Stream!Yield
    BY <1>1, <1>2, <1>3, <2>3, <2>4, <2>5 DEF Stream!Yield
  <2> QED
    BY <2>6 DEF Stream!Next, Stream!Answer
<1>5. CASE i \notin Wanted
  <2>1. \A j \in Wanted : j < at <=> j < i + 1
    BY <1>3, <1>5
  <2>2. i + 1 \in 1..(Len(Source) + 1)
    BY <1>3
  <2>3. Upcoming(Wanted, at) = Upcoming(Wanted, i + 1)
    BY <1>3, <2>1, <2>2, UpcomingSame
  <2> QED
    BY <1>1, <1>2, <2>3, Shown, ShownNext
<1> QED
  BY <1>4, <1>5

LEMMA YieldCachedShows ==
  ASSUME IInv, TidyInv, Position, YieldCached
  PROVE  [Stream!Next]_(Stream!vars)
<1> DEFINE b == cache[IndexOf(cache, block)]
           i == b.items[item].index
<1>1. /\ pc = "cached" /\ pc' = pc /\ item <= Len(b.items) /\ at' = i + 1
      /\ UNCHANGED <<cachedTopics, maxEnd, first>>
  BY DEF YieldCached, Yielded, store
<1>2. /\ b \in Block /\ Tidy(b.items, cachedTopics, b.end)
      /\ item \in Nat /\ item >= 1
  <2>1. cache \in Seq(Block) /\ AllTidy(cache, cachedTopics)
    BY DEF IInv, Sorts, TidyInv
  <2>2. IndexOf(cache, block) \in 1..Len(cache)
    BY <1>1, InUse
  <2>3. item \in Nat /\ item >= 1
    BY <1>1 DEF IInv, Sorts, Active
  <2> QED
    BY <2>1, <2>2, <2>3, BlocksFacts DEF AllTidy
<1>3. InBlock(b, item)
  BY <1>1 DEF Position, AtItem
<1> HIDE DEF b
<1>4. /\ b.items \in Seq(Item) /\ b.end \in Nat
      /\ item \in 1..Len(b.items) /\ Len(b.items) \in Nat
  BY <1>1, <1>2, BlockFacts
<1>5. \A n \in 1..Len(b.items) : b.items[n].index \in 1..Len(Source)
  BY <1>4, ItemFacts
<1>6. b.items[item].time \in Nat
  BY <1>4, ItemFacts
<1>7. ASSUME NEW j \in Wanted PROVE j < at <=> j < i
  <2>1. /\ j \in 1..Len(Source) /\ j \in Nat /\ Source[j].time \in Nat
        /\ Source[j].type = "message-event" /\ Source[j].topic \in cachedTopics
    BY WantedFacts
  <2>2. item \in item..Len(b.items)
    BY <1>4
  <2>3. j < at => j < i
    BY <1>3, <2>2 DEF InBlock
  <2>4. ASSUME j < i PROVE j < at
    <3>1. Source[j].time <= b.end
      <4>1. /\ b.items[item].time <= b.end
            /\ Stamped(b.items[item], cachedTopics)
        BY <1>2, <1>4 DEF Tidy
      <4>2. Source[j].time <= b.items[item].time
        BY <2>1, <2>4, <4>1 DEF Stamped
      <4> QED
        BY <1>4, <1>6, <2>1, <4>1, <4>2
    <3>2. ASSUME NEW m \in item..Len(b.items) PROVE b.items[m].index # j
      <4>1. m \in 1..Len(b.items) /\ (m = item \/ item < m)
        BY <1>4
      <4>2. b.items[m].index = i \/ i < b.items[m].index
        BY <1>2, <1>4, <4>1 DEF Tidy
      <4>3. b.items[m].index \in Nat /\ i \in Nat
        BY <1>4, <4>1, ItemFacts
      <4> HIDE DEF i
      <4> QED
        BY <2>1, <2>4, <4>2, <4>3
    <3> QED
      BY <1>3, <3>1, <3>2 DEF InBlock
  <2> QED
    BY <2>3, <2>4
<1>8. i \in 1..Len(Source)
  BY <1>4, <1>5
<1> HIDE DEF i
<1> QED
  BY <1>1, <1>7, <1>8, YieldShows

LEMMA ReadShows ==
  ASSUME IInv, Position, ReadResult
  PROVE  [Stream!Next]_(Stream!vars)
<1> DEFINE i == Least(unread)
<1>1. /\ pc = "read" /\ unread # {}
      /\ UNCHANGED <<cachedTopics, maxEnd>>
      /\ pc' = "failed" => UNCHANGED history
      /\ pc' # "failed" => at' = i + 1 /\ first' = first
  BY DEF ReadResult, Yielded
<1>2. pc' \in {"read", "failed"}
  BY ReadGoesOn
<1>3. CASE pc' = "failed"
  <2>1. UNCHANGED <<first, at>>
    BY <1>1, <1>3 DEF history
  <2>2. OpenedFor' = OpenedFor
    BY <1>1, <1>3 DEF OpenedFor, MessagesFor
  <2>3. NextOf(first)' = NextOf(first) /\ NextOf(at)' = NextOf(at)
    BY <2>1, <2>2 DEF NextOf
  <2>4. Phase = "open" /\ Phase' = "failed"
    BY <1>1, <1>3 DEF Phase
  <2>5. Stream!Fail
    BY <2>2, <2>3, <2>4 DEF Stream!Fail
  <2> QED
    BY <2>5 DEF Stream!Next, Stream!Answer
<1>4. CASE pc' = "read"
  <2>1. unread \subseteq 1..Len(Source) /\ Len(Source) \in Nat
    BY ConstantFacts DEF IInv, Sorts
  <2>2. i \in unread /\ \A u \in unread : i <= u
    BY <1>1, <2>1, LeastFacts
  <2>3. /\ i \in 1..Len(Source)
        /\ Source[i].time \in lastTime..sourceReadEnd
    BY <1>1, NextUnread
  <2>4. lastTime \in Nat /\ sourceReadEnd \in Nat
    BY ConstantFacts DEF IInv, Sorts
  <2> HIDE DEF i
  <2>5. /\ \A j \in Wanted :
             j < at <=> Source[j].time <= sourceReadEnd /\ j \notin unread
        /\ \A j \in Wanted, u \in unread : j < at => j < u
    BY <1>1 DEF Position, AtSource
  <2>6. ASSUME NEW j \in Wanted PROVE j < at <=> j < i
    <3>1. j \in 1..Len(Source) /\ Source[j].time \in Nat
      BY WantedFacts
    <3>2. j < at => j < i
      BY <2>2, <2>5
    <3>3. ASSUME j < i PROVE j < at
      <4>1. Source[j].time <= Source[i].time
        BY <2>3, <3>1, <3>3, LaterFacts
      <4>2. Source[j].time <= sourceReadEnd
        BY <2>3, <2>4, <3>1, <4>1
      <4>3. j \notin unread
        BY <2>1, <2>2, <2>3, <3>1, <3>3
      <4> QED
        BY <2>5, <4>2, <4>3
    <3> QED
      BY <3>2, <3>3
  <2>7. at' = i + 1 /\ first' = first
    BY <1>1, <1>4 DEF i
  <2> QED
    BY <1>1, <1>4, <2>3, <2>6, <2>7, YieldShows
<1> QED
  BY <1>2, <1>3, <1>4

(* The iterator ends when nothing wanted is left.                           *)
LEMMA EndShows ==
  ASSUME IInv, \A j \in Wanted : j < at,
         UNCHANGED <<cachedTopics, maxEnd, first, at>>,
         pc \in {"loop", "cached"}, pc' = "done"
  PROVE  Stream!Next
<1>1. Phase = "open" /\ Phase' = "ended"
  BY DEF Phase
<1>2. OpenedFor = Wanted /\ OpenedFor' = Wanted
  BY DEF OpenedFor, Wanted, MessagesFor
<1>3. /\ Wanted \in SUBSET (1..Len(Source)) /\ Len(Source) \in Nat
      /\ at \in 1..(Len(Source) + 1)
  BY ConstantFacts DEF Wanted, MessagesFor, IInv, Sorts
<1>4. Upcoming(Wanted, at) = Len(Source) + 1
  <2>1. Len(Source) + 1 >= at
    BY <1>3
  <2> QED
    BY <1>3, <2>1, UpcomingIs
<1>5. NextOf(at) = Len(Source) + 1
  BY <1>2, <1>4, Shown
<1>6. NextOf(first)' = NextOf(first) /\ NextOf(at)' = NextOf(at)
  BY <1>2 DEF NextOf
<1>7. Stream!Finish
  BY <1>1, <1>2, <1>3, <1>5, <1>6 DEF Stream!Finish
<1> QED
  BY <1>7 DEF Stream!Next, Stream!Answer

LEMMA ExhaustedShows ==
  ASSUME IInv, Position, Exhausted
  PROVE  Stream!Next
<1>1. /\ pc = "loop" /\ pc' = "done" /\ readHead > maxEnd
      /\ UNCHANGED <<cachedTopics, maxEnd, first, at>>
  BY DEF Exhausted, store, history
<1>2. readHead \in Nat /\ maxEnd \in Nat
  <2>1. readHead \in 0..(End + 1) /\ maxEnd \in 0..End
    BY ConstantFacts DEF IInv, Sorts
  <2> QED
    BY <2>1, ConstantFacts
<1>3. ASSUME NEW j \in Wanted PROVE j < at
  <2>1. Source[j].time \in Nat /\ Source[j].time <= maxEnd
    BY WantedFacts
  <2>2. Source[j].time < readHead
    BY <1>1, <1>2, <2>1
  <2> QED
    BY <1>1, <2>2 DEF Position, AtGap
<1> QED
  BY <1>1, <1>3, EndShows

LEMMA CachedPastEndShows ==
  ASSUME IInv, TidyInv, Position, CachedPastEnd
  PROVE  Stream!Next
<1> DEFINE b == cache[IndexOf(cache, block)]
<1>1. /\ pc = "cached" /\ pc' = "done" /\ item <= Len(b.items)
      /\ b.items[item].time > maxEnd
      /\ UNCHANGED <<cachedTopics, maxEnd, first, at>>
  BY DEF CachedPastEnd, store, history
<1>2. /\ b \in Block /\ Tidy(b.items, cachedTopics, b.end)
      /\ item \in Nat /\ item >= 1
  <2>1. cache \in Seq(Block) /\ AllTidy(cache, cachedTopics)
    BY DEF IInv, Sorts, TidyInv
  <2>2. IndexOf(cache, block) \in 1..Len(cache)
    BY <1>1, InUse
  <2>3. item \in Nat /\ item >= 1
    BY <1>1 DEF IInv, Sorts, Active
  <2> QED
    BY <2>1, <2>2, <2>3, BlocksFacts DEF AllTidy
<1>3. InBlock(b, item)
  BY <1>1 DEF Position, AtItem
<1> HIDE DEF b
<1>4. /\ b.items \in Seq(Item) /\ b.end \in Nat
      /\ item \in 1..Len(b.items) /\ Len(b.items) \in Nat
  BY <1>1, <1>2, BlockFacts
<1>5. maxEnd \in Nat
  <2>1. maxEnd \in 0..End
    BY ConstantFacts DEF IInv, Sorts
  <2> QED
    BY <2>1, ConstantFacts
<1>6. ASSUME NEW j \in Wanted PROVE j < at
  <2>1. /\ j \in 1..Len(Source) /\ Source[j].time \in Nat
        /\ Source[j].time <= maxEnd /\ Source[j].type = "message-event"
    BY WantedFacts
  <2>2. Source[j].time <= b.end
    <3>1. b.items[item].time <= b.end /\ b.items[item].time \in Nat
      BY <1>2, <1>4, ItemFacts DEF Tidy
    <3> QED
      BY <1>1, <1>4, <1>5, <2>1, <3>1
  <2>3. ASSUME NEW m \in item..Len(b.items), b.items[m].index = j
        PROVE  FALSE
    <3>1. m \in 1..Len(b.items) /\ (m = item \/ item < m)
      BY <1>4
    <3>2. b.items[item].time <= b.items[m].time \/ m = item
      BY <1>2, <1>4, <3>1 DEF Tidy
    <3>3. b.items[item].time \in Nat /\ b.items[m].time \in Nat
      BY <1>4, <3>1, ItemFacts
    <3>4. b.items[m].time = Source[j].time
      <4>1. Stamped(b.items[m], cachedTopics)
        BY <1>2, <3>1 DEF Tidy
      <4> QED
        BY <2>1, <2>3, <4>1 DEF Stamped
    <3> QED
      BY <1>1, <1>5, <2>1, <3>2, <3>3, <3>4
  <2> QED
    BY <1>3, <2>2, <2>3 DEF InBlock
<1> QED
  BY <1>1, <1>6, EndShows

LEMMA ReturnCloses ==
  ASSUME IInv, Position, Return
  PROVE  Stream!Next
<1>1. /\ pc \in {"cached", "read", "done", "failed"} /\ pc' = "none"
      /\ UNCHANGED <<first, at>>
  BY DEF Return, history
<1>2. Phase # "closed" /\ Phase' = "closed"
  BY <1>1 DEF Phase
<1>3. OpenedFor' = {}
  BY <1>1 DEF OpenedFor
<1>4. first \in 1..(Len(Source) + 1) /\ at \in 1..(Len(Source) + 1)
  BY DEF Position, IInv, Sorts
<1>5. /\ NextOf(first)' = Upcoming({}, first)
      /\ NextOf(at)' = Upcoming({}, at)
  BY <1>1, <1>3 DEF NextOf, Upcoming
<1>6. Stream!Close
  BY <1>2, <1>3, <1>4, <1>5, UpcomingNone DEF Stream!Close
<1> QED
  BY <1>6 DEF Stream!Next

LEMMA InitShows == Init => Stream!Init
<1> SUFFICES ASSUME Init PROVE Stream!Init
  OBVIOUS
<1>1. pc = "none" /\ first = 1 /\ at = 1
  BY DEF Init
<1>2. OpenedFor = {} /\ Phase = "closed"
  BY <1>1 DEF OpenedFor, Phase
<1>3. 1 \in 1..(Len(Source) + 1)
  BY ConstantFacts
<1>4. NextOf(1) = Len(Source) + 1
  BY <1>2, <1>3, Shown, UpcomingNone
<1> QED
  BY <1>1, <1>2, <1>4 DEF Stream!Init

LEMMA StepShows ==
  ASSUME IInv, TidyInv, Position, [Next]_vars
  PROVE  [Stream!Next]_(Stream!vars)
<1>1. ASSUME NEW start \in Starts, NEW end \in Ends, NEW topics \in TopicSets,
             Open(start, end, topics)
      PROVE  Stream!Next
  BY <1>1, OpenOpens
<1>2. CASE Exhausted
  BY <1>2, ExhaustedShows
<1>3. CASE DropUnfinished \/ EnterBlock \/ OpenSource \/ BlockRead \/ SourceEnds
  <2>1. /\ UNCHANGED <<cachedTopics, maxEnd, first, at>>
        /\ pc \in {"loop", "cached", "read"} /\ pc' \in {"loop", "cached", "read"}
    BY <1>3
    DEF DropUnfinished, EnterBlock, OpenSource, BlockRead, SourceEnds, store,
        history
  <2> QED
    BY <2>1, LooksOnly
<1>4. CASE YieldCached
  BY <1>4, YieldCachedShows
<1>5. CASE CachedPastEnd
  BY <1>5, CachedPastEndShows
<1>6. CASE ReadResult
  BY <1>6, ReadShows
<1>7. CASE Return
  BY <1>7, ReturnCloses
<1>8. ASSUME NEW t \in 0..End, SetCurrentReadHead(t)
      PROVE  UNCHANGED Stream!vars
  <2>1. /\ UNCHANGED <<cachedTopics, maxEnd, first, at, pc>>
        /\ pc \in {"cached", "read"}
    BY <1>8 DEF SetCurrentReadHead, store, history
  <2> QED
    BY <2>1, LooksOnly
<1>9. CASE Terminate
  <2>1. pc = "none" /\ pc' = "terminated" /\ UNCHANGED <<first, at>>
    BY <1>9 DEF Terminate, history
  <2>2. /\ OpenedFor = {} /\ OpenedFor' = {}
        /\ Phase = "closed" /\ Phase' = "closed"
    BY <2>1 DEF OpenedFor, Phase
  <2> QED
    BY <2>1, <2>2, Shown, ShownNext
<1>10. CASE UNCHANGED vars
  <2>1. UNCHANGED <<cachedTopics, maxEnd, first, at, pc>>
    BY <1>10 DEF vars, store, history
  <2>2. OpenedFor' = OpenedFor /\ Phase' = Phase
    BY <2>1 DEF OpenedFor, MessagesFor, Phase
  <2> QED
    BY <2>1, <2>2, Shown, ShownNext
<1> QED
  BY <1>1, <1>2, <1>3, <1>4, <1>5, <1>6, <1>7, <1>8, <1>9, <1>10
  DEF Next, Iterate

LEMMA InitPosition == Init => Position
  BY ConstantFacts DEF Init, Position, AtGap, AtSource, AtItem

(* An iterator yields the messages of its topics from its start to its end, *)
(* in the order of the source and each once, and ends only when none is     *)
(* left or evicting throws: which of them come from which blocks, which     *)
(* from the source and what was evicted meanwhile does not show.            *)
THEOREM ImplementsPromise == Spec => ImplementsStream
<1>1. Spec => [](TidyInv /\ Position)
  <2>1. Init => TidyInv /\ Position
    BY InitTidy, InitPosition
  <2>2. IInv /\ TidyInv /\ Position /\ [Next]_vars => TidyInv' /\ Position'
    BY NextTidy, NextPosition
  <2> QED
    BY <2>1, <2>2, Inductive, PTL DEF Spec
<1>2. IInv /\ TidyInv /\ Position /\ [Next]_vars => [Stream!Next]_(Stream!vars)
  BY StepShows
<1> QED
  BY <1>1, <1>2, InitShows, Inductive, PTL
  DEF Spec, ImplementsStream, Stream!Promise

=============================================================================
