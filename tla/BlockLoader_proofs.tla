------------------------- MODULE BlockLoader_proofs -------------------------
(***************************************************************************)
(* Proofs about BlockLoader, for any number of blocks, selections, sizes   *)
(* and calls: a loader that waits has nothing left to load, a block has    *)
(* the messages of a topic of one subscription only, and the cache stays   *)
(* within its size by accounts that are right.                             *)
(*                                                                         *)
(* What was asked for is not what is wanted when it comes, so that the     *)
(* invariant says for each stretch of blocks what is known of it while no  *)
(* new selection was made: the blocks behind the loader are finished, and  *)
(* those of the range being read lack at most what is being fetched.  A    *)
(* second invariant says that every block is as big as its messages and    *)
(* that the loader's total is that of the blocks while it reads.           *)
(***************************************************************************)
EXTENDS BlockLoader, FiniteSetTheorems, WellFoundedInduction, TLAPS

-----------------------------------------------------------------------------
(* Least and greatest numbers of sets of natural numbers.  That there is a *)
(* least one is also how facts about numbers are proved by induction:      *)
(* there is no least number they fail for.                                 *)

NatLess == OpToRel(<, Nat)

(* A set of natural numbers has a least element.                           *)
LEMMA LeastExists ==
  ASSUME NEW S \in SUBSET Nat, S # {}
  PROVE  \E i \in S : \A j \in S : i <= j
<1>1. IsWellFoundedOn(NatLess, Nat)
  BY NatLessThanWellFounded DEF NatLess
<1>2. PICK i \in S : \A j \in S : <<j, i>> \notin NatLess
  BY <1>1, WFMin, Zenon
<1>3. ASSUME NEW j \in S PROVE i <= j
  <2>1. <<j, i>> \notin NatLess
    BY <1>2
  <2> QED
    BY <2>1 DEF NatLess, OpToRel
<1> QED
  BY <1>3

(* A bounded set of natural numbers has a greatest one.                    *)
LEMMA GreatestExists ==
  ASSUME NEW n \in Nat, NEW S \in SUBSET (0..n), S # {}
  PROVE  \E i \in S : \A j \in S : j <= i
<1> DEFINE T == {k \in 0..n : n - k \in S}
<1>1. T \in SUBSET Nat
  OBVIOUS
<1>2. T # {}
  <2>1. PICK i \in S : TRUE
    OBVIOUS
  <2> QED
    BY <2>1, n - i \in T
<1>3. PICK k \in T : \A l \in T : k <= l
  <2> HIDE DEF T
  <2> QED
    BY <1>1, <1>2, LeastExists
<1>4. ASSUME NEW j \in S PROVE j <= n - k
  BY <1>3, n - j \in T
<1> QED
  BY <1>3, <1>4

-----------------------------------------------------------------------------
(* Sums of w[x] for the x of a finite set.                                 *)

Pick(s) == CHOOSE x \in s : TRUE

IsSetSum(g, w, S) ==
  g = [s \in SUBSET S |->
         IF s = {} THEN 0 ELSE w[Pick(s)] + g[s \ {Pick(s)}]]

SetSum(w, S) == (CHOOSE g : IsSetSum(g, w, S))[S]

(* What is picked of a set is in it.                                       *)
LEMMA PickFacts == \A s : s # {} => Pick(s) \in s
  BY DEF Pick

(* A collection of finite sets that is not empty has a least one.          *)
LEMMA LeastSet ==
  ASSUME NEW S, IsFiniteSet(S), NEW C \in SUBSET (SUBSET S), C # {}
  PROVE  \E s \in C : \A x \in s : s \ {x} \notin C
<1> DEFINE Counts == {Cardinality(s) : s \in C}
<1>1. ASSUME NEW s \in C
      PROVE  IsFiniteSet(s) /\ Cardinality(s) \in Nat
  BY FS_Subset, FS_CardinalityType
<1>2. PICK n \in Counts : \A m \in Counts : n <= m
  <2>1. Counts \in SUBSET Nat /\ Counts # {}
    BY <1>1
  <2> HIDE DEF Counts
  <2> QED
    BY <2>1, LeastExists
<1>3. PICK s \in C : Cardinality(s) = n
  BY <1>2
<1>4. ASSUME NEW x \in s, s \ {x} \in C PROVE FALSE
  <2>1. Cardinality(s \ {x}) = Cardinality(s) - 1
    BY <1>1, FS_RemoveElement
  <2>2. n <= Cardinality(s \ {x})
    BY <1>2, <1>4
  <2> QED
    BY <1>1, <1>3, <2>1, <2>2
<1> QED
  BY <1>4

(* There is a function that sums up over the subsets of a finite set.      *)
LEMMA SetSumExists ==
  ASSUME NEW S, IsFiniteSet(S), NEW w
  PROVE  \E g : IsSetSum(g, w, S)
<1> DEFINE n == Cardinality(S)
           Steps(g, s) ==
             g[s] = IF s = {} THEN 0 ELSE w[Pick(s)] + g[s \ {Pick(s)}]
           Upto(k) == \E g : \A s \in SUBSET S : Cardinality(s) <= k => Steps(g, s)
           Bad == {k \in 0..n : ~Upto(k)}
<1>1. n \in Nat
  BY FS_CardinalityType
<1>2. ASSUME NEW s \in SUBSET S
      PROVE  /\ IsFiniteSet(s) /\ Cardinality(s) \in 0..n
             /\ Cardinality(s) = 0 <=> s = {}
             /\ \A x \in s : Cardinality(s \ {x}) = Cardinality(s) - 1
  BY <1>1, FS_Subset, FS_CardinalityType, FS_EmptySet, FS_RemoveElement
<1>3. Bad = {}
  <2> SUFFICES ASSUME Bad # {} PROVE FALSE
    OBVIOUS
  <2>1. PICK k \in Bad : \A j \in Bad : k <= j
    <3>1. Bad \in SUBSET Nat
      OBVIOUS
    <3> HIDE DEF Bad
    <3> QED
      BY <3>1, LeastExists
  <2>2. CASE k = 0
    <3> DEFINE g == [s \in SUBSET S |-> 0]
    <3>1. ASSUME NEW s \in SUBSET S, Cardinality(s) <= k PROVE Steps(g, s)
      BY <1>2, <2>2, <3>1
    <3> QED
      BY <2>1, <3>1
  <2>3. CASE k > 0
    <3>1. k - 1 \in 0..n /\ k - 1 \notin Bad
      <4> HIDE DEF Upto, n
      <4> QED
        BY <1>1, <2>1, <2>3
    <3>2. PICK g : \A s \in SUBSET S : Cardinality(s) <= k - 1 => Steps(g, s)
      BY <3>1
    <3> DEFINE h == [s \in SUBSET S |->
                       IF Cardinality(s) <= k - 1 THEN g[s]
                       ELSE w[Pick(s)] + g[s \ {Pick(s)}]]
    <3>3. ASSUME NEW s \in SUBSET S, Cardinality(s) <= k PROVE Steps(h, s)
      <4>1. CASE s = {}
        <5>1. Cardinality(s) <= k - 1
          BY <1>2, <2>3, <4>1
        <5> QED
          BY <3>2, <4>1, <5>1
      <4>2. CASE s # {}
        <5> DEFINE x == Pick(s)
        <5>1. x \in s
          BY <4>2, PickFacts
        <5>2. Cardinality(s \ {x}) <= k - 1 /\ s \ {x} \in SUBSET S
          BY <1>2, <2>1, <3>3, <5>1
        <5>3. h[s \ {x}] = g[s \ {x}]
          BY <5>2
        <5>4. h[s] = w[x] + g[s \ {x}]
          <6>1. CASE Cardinality(s) <= k - 1
            BY <3>2, <4>2, <6>1
          <6>2. CASE ~(Cardinality(s) <= k - 1)
            BY <6>2
          <6> QED
            BY <6>1, <6>2
        <5> QED
          BY <4>2, <5>3, <5>4
      <4> QED
        BY <4>1, <4>2
    <3> HIDE DEF h, Steps
    <3> QED
      BY <2>1, <3>3
  <2> QED
    BY <1>1, <2>1, <2>2, <2>3
<1>4. PICK g : \A s \in SUBSET S : Steps(g, s)
  <2>1. Upto(n)
    BY <1>1, <1>3
  <2> HIDE DEF Steps
  <2> QED
    BY <1>2, <2>1
<1> DEFINE h == [s \in SUBSET S |-> g[s]]
<1>5. ASSUME NEW s \in SUBSET S
      PROVE  h[s] = IF s = {} THEN 0 ELSE w[Pick(s)] + h[s \ {Pick(s)}]
  BY <1>4
<1>6. IsSetSum(h, w, S)
  <2>1. h = [s \in SUBSET S |-> h[s]]
    OBVIOUS
  <2> HIDE DEF h
  <2> QED
    BY <1>5, <2>1 DEF IsSetSum
<1> QED
  BY <1>6

(* It adds what is picked to the sum of the others.                        *)
LEMMA SetSumStep ==
  ASSUME NEW S, NEW g, NEW w, IsSetSum(g, w, S), NEW s \in SUBSET S
  PROVE  g[s] = IF s = {} THEN 0 ELSE w[Pick(s)] + g[s \ {Pick(s)}]
<1>1. g = [t \in SUBSET S |->
             IF t = {} THEN 0 ELSE w[Pick(t)] + g[t \ {Pick(t)}]]
  BY DEF IsSetSum
<1> QED
  BY <1>1

(* Sums of what agrees on a set agree on it.                               *)
LEMMA SetSumsAgree ==
  ASSUME NEW S, IsFiniteSet(S), NEW R, NEW g, NEW h, NEW v, NEW w,
         IsSetSum(g, v, S), IsSetSum(h, w, R), NEW T \in SUBSET S,
         T \subseteq R, \A x \in T : v[x] = w[x]
  PROVE  g[T] = h[T]
<1> DEFINE C == {s \in SUBSET T : g[s] # h[s]}
<1> SUFFICES ASSUME C # {} PROVE FALSE
  OBVIOUS
<1>1. PICK s \in C : \A x \in s : s \ {x} \notin C
  <2>1. IsFiniteSet(T) /\ C \in SUBSET (SUBSET T)
    BY FS_Subset
  <2> HIDE DEF C
  <2> QED
    BY <2>1, LeastSet
<1>2. /\ g[s] = IF s = {} THEN 0 ELSE v[Pick(s)] + g[s \ {Pick(s)}]
      /\ h[s] = IF s = {} THEN 0 ELSE w[Pick(s)] + h[s \ {Pick(s)}]
  BY SetSumStep
<1>3. CASE s = {}
  BY <1>2, <1>3
<1>4. CASE s # {}
  <2>1. Pick(s) \in s
    BY <1>4, PickFacts
  <2>2. s \ {Pick(s)} \in SUBSET T /\ s \ {Pick(s)} \notin C
    BY <1>1, <2>1
  <2>3. v[Pick(s)] = w[Pick(s)]
    BY <2>1
  <2> QED
    BY <1>2, <1>4, <2>2, <2>3
<1> QED
  BY <1>3, <1>4

(* Every such function gives the sums.                                     *)
LEMMA SetSumIs ==
  ASSUME NEW S, IsFiniteSet(S), NEW g, NEW w, IsSetSum(g, w, S)
  PROVE  \A T \in SUBSET S : SetSum(w, T) = g[T]
<1> SUFFICES ASSUME NEW T \in SUBSET S PROVE SetSum(w, T) = g[T]
  OBVIOUS
<1> DEFINE h == CHOOSE h : IsSetSum(h, w, T)
<1>1. IsFiniteSet(T)
  BY FS_Subset
<1>2. IsSetSum(h, w, T)
  BY <1>1, SetSumExists
<1>3. SetSum(w, T) = h[T]
  BY DEF SetSum
<1> HIDE DEF h
<1> QED
  BY <1>2, <1>3, SetSumsAgree

(* Nothing adds up to zero.                                                *)
LEMMA SetSumNone ==
  ASSUME NEW w
  PROVE  SetSum(w, {}) = 0
<1>1. IsFiniteSet({}) /\ {} \in SUBSET {}
  BY FS_EmptySet
<1>2. PICK g : IsSetSum(g, w, {})
  BY <1>1, SetSumExists
<1>3. g[{}] = 0
  BY <1>1, <1>2, SetSumStep
<1> QED
  BY <1>1, <1>2, <1>3, SetSumIs

(* A sum is that of what is picked and of the others.                      *)
LEMMA SetSumPick ==
  ASSUME NEW S, IsFiniteSet(S), NEW w, S # {}
  PROVE  SetSum(w, S) = w[Pick(S)] + SetSum(w, S \ {Pick(S)})
<1>1. PICK g : IsSetSum(g, w, S)
  BY SetSumExists
<1>2. S \in SUBSET S /\ S \ {Pick(S)} \in SUBSET S
  OBVIOUS
<1>3. g[S] = w[Pick(S)] + g[S \ {Pick(S)}]
  BY <1>1, <1>2, SetSumStep
<1> QED
  BY <1>1, <1>2, <1>3, SetSumIs

(* A sum of natural numbers is one.                                        *)
LEMMA SetSumNat ==
  ASSUME NEW S, IsFiniteSet(S), NEW w, \A x \in S : w[x] \in Nat
  PROVE  SetSum(w, S) \in Nat
<1> DEFINE C == {s \in SUBSET S : SetSum(w, s) \notin Nat}
<1> SUFFICES ASSUME C # {} PROVE FALSE
  OBVIOUS
<1>1. PICK s \in C : \A x \in s : s \ {x} \notin C
  <2>1. C \in SUBSET (SUBSET S)
    OBVIOUS
  <2> HIDE DEF C
  <2> QED
    BY <2>1, LeastSet
<1>2. IsFiniteSet(s)
  BY FS_Subset
<1>3. CASE s = {}
  BY <1>1, <1>3, SetSumNone
<1>4. CASE s # {}
  <2>1. Pick(s) \in s
    BY <1>4, PickFacts
  <2>2. SetSum(w, s \ {Pick(s)}) \in Nat /\ w[Pick(s)] \in Nat
    BY <1>1, <2>1
  <2>3. SetSum(w, s) = w[Pick(s)] + SetSum(w, s \ {Pick(s)})
    BY <1>2, <1>4, SetSumPick
  <2> QED
    BY <1>1, <2>2, <2>3
<1> QED
  BY <1>3, <1>4

(* Any element may be taken out first.                                     *)
LEMMA SetSumTake ==
  ASSUME NEW S, IsFiniteSet(S), NEW w, \A x \in S : w[x] \in Nat, NEW x \in S
  PROVE  SetSum(w, S) = w[x] + SetSum(w, S \ {x})
<1> DEFINE Takes(s) == \A y \in s : SetSum(w, s) = w[y] + SetSum(w, s \ {y})
           C == {s \in SUBSET S : ~Takes(s)}
<1> SUFFICES ASSUME C # {} PROVE FALSE
  OBVIOUS
<1>1. PICK s \in C : \A y \in s : s \ {y} \notin C
  <2>1. C \in SUBSET (SUBSET S)
    OBVIOUS
  <2> HIDE DEF C
  <2> QED
    BY <2>1, LeastSet
<1>2. s \in SUBSET S /\ ~Takes(s)
  BY <1>1
<1>3. PICK y \in s : SetSum(w, s) # w[y] + SetSum(w, s \ {y})
  BY <1>2
<1> DEFINE z == Pick(s)
<1>4. z \in s /\ y # z
  <2>1. s # {}
    BY <1>3
  <2>2. SetSum(w, s) = w[z] + SetSum(w, s \ {z})
    BY <1>2, <2>1, FS_Subset, SetSumPick
  <2> QED
    BY <1>3, <2>1, <2>2, PickFacts
<1>5. SetSum(w, s) = w[z] + SetSum(w, s \ {z})
  BY <1>2, <1>4, FS_Subset, SetSumPick
<1> HIDE DEF z
<1>6. Takes(s \ {y}) /\ Takes(s \ {z})
  BY <1>1, <1>2, <1>3, <1>4
<1>7. SetSum(w, s \ {z}) = w[y] + SetSum(w, (s \ {z}) \ {y})
  BY <1>3, <1>4, <1>6
<1>8. SetSum(w, s \ {y}) = w[z] + SetSum(w, (s \ {y}) \ {z})
  BY <1>3, <1>4, <1>6
<1>9. (s \ {z}) \ {y} = (s \ {y}) \ {z}
  OBVIOUS
<1>10. /\ w[y] \in Nat /\ w[z] \in Nat
       /\ SetSum(w, (s \ {y}) \ {z}) \in Nat
  <2>1. (s \ {y}) \ {z} \in SUBSET S
    BY <1>2
  <2> HIDE DEF Takes, C
  <2> QED
    BY <1>2, <1>3, <1>4, <2>1, FS_Subset, SetSumNat
<1> DEFINE rest == SetSum(w, (s \ {y}) \ {z})
           sy == SetSum(w, s \ {y})
           sz == SetSum(w, s \ {z})
<1>11. /\ SetSum(w, s) # w[y] + sy /\ SetSum(w, s) = w[z] + sz
       /\ sy = w[z] + rest
  BY <1>3, <1>5, <1>8
<1>12. sz = w[y] + rest
  BY <1>7, <1>9, Zenon
<1>13. w[y] \in Nat /\ w[z] \in Nat /\ rest \in Nat
  BY <1>10
<1> HIDE DEF rest, sy, sz
<1> QED
  BY <1>11, <1>12, <1>13

(* A sum is that of a part and of the rest.                                *)
LEMMA SetSumSplit ==
  ASSUME NEW S, IsFiniteSet(S), NEW w, \A x \in S : w[x] \in Nat,
         NEW T \in SUBSET S
  PROVE  SetSum(w, S) = SetSum(w, T) + SetSum(w, S \ T)
<1> DEFINE C == {s \in SUBSET T :
                   SetSum(w, S) # SetSum(w, s) + SetSum(w, S \ s)}
<1> SUFFICES ASSUME C # {} PROVE FALSE
  OBVIOUS
<1>1. PICK s \in C : \A x \in s : s \ {x} \notin C
  <2>1. IsFiniteSet(T) /\ C \in SUBSET (SUBSET T)
    BY FS_Subset
  <2> HIDE DEF C
  <2> QED
    BY <2>1, LeastSet
<1>2. /\ s \in SUBSET T /\ s \in SUBSET S
      /\ SetSum(w, S) # SetSum(w, s) + SetSum(w, S \ s)
  BY <1>1
<1>3. CASE s = {}
  <2>1. SetSum(w, S \ s) = SetSum(w, S) /\ SetSum(w, s) = 0
    <3>1. S \ s = S
      BY <1>3
    <3> QED
      BY <1>3, <3>1, SetSumNone
  <2>2. SetSum(w, S) \in Nat
    BY SetSumNat
  <2> DEFINE rest == SetSum(w, S \ s)
  <2>3. rest = SetSum(w, S) /\ SetSum(w, S) # SetSum(w, s) + rest
    BY <1>2, <2>1
  <2> HIDE DEF rest, C
  <2> QED
    BY <2>1, <2>2, <2>3
<1>4. CASE s # {}
  <2>1. PICK x \in s : TRUE
    BY <1>4
  <2> DEFINE r == s \ {x}
  <2>2. r \in SUBSET T /\ r \notin C
    BY <1>1, <1>2, <2>1
  <2>3. SetSum(w, S) = SetSum(w, r) + SetSum(w, S \ r)
    BY <2>2
  <2>4. SetSum(w, s) = w[x] + SetSum(w, r)
    BY <1>2, <2>1, FS_Subset, SetSumTake
  <2>5. SetSum(w, S \ r) = w[x] + SetSum(w, (S \ r) \ {x})
    <3>1. x \in S \ r /\ S \ r \in SUBSET S
      BY <1>2, <2>1
    <3> HIDE DEF r, C
    <3> QED
      BY <3>1, FS_Subset, SetSumTake
  <2>6. (S \ r) \ {x} = S \ s
    BY <2>1
  <2>7. /\ w[x] \in Nat /\ SetSum(w, r) \in Nat /\ SetSum(w, S \ s) \in Nat
    <3>1. x \in S /\ r \in SUBSET S /\ S \ s \in SUBSET S
      BY <1>2, <2>1
    <3> HIDE DEF r, C
    <3> QED
      BY <3>1, FS_Subset, SetSumNat
  <2> DEFINE a == SetSum(w, S \ r)
             b == SetSum(w, S \ s)
             c == SetSum(w, r)
  <2>8. SetSum(w, S) = c + a /\ SetSum(w, s) = w[x] + c
    BY <2>3, <2>4
  <2>9. a = w[x] + b
    BY <2>5, <2>6, Zenon
  <2>10. w[x] \in Nat /\ b \in Nat /\ c \in Nat
    BY <2>7
  <2>11. SetSum(w, S) # SetSum(w, s) + b
    BY <1>2
  <2> HIDE DEF a, b, c, r, C
  <2> QED
    BY <2>8, <2>9, <2>10, <2>11
<1> QED
  BY <1>3, <1>4

(* The same terms have the same sum.                                       *)
LEMMA SetSumSame ==
  ASSUME NEW S, IsFiniteSet(S), NEW v, NEW w, \A x \in S : v[x] = w[x]
  PROVE  SetSum(v, S) = SetSum(w, S)
<1>1. PICK g : IsSetSum(g, v, S)
  BY SetSumExists
<1>2. PICK h : IsSetSum(h, w, S)
  BY SetSumExists
<1>3. S \in SUBSET S
  OBVIOUS
<1>4. g[S] = h[S]
  BY <1>1, <1>2, <1>3, SetSumsAgree
<1> QED
  BY <1>1, <1>2, <1>3, <1>4, SetSumIs

(* Smaller terms have a smaller sum.                                       *)
LEMMA SetSumLess ==
  ASSUME NEW S, IsFiniteSet(S), NEW v, NEW w,
         \A x \in S : v[x] \in Nat /\ w[x] \in Nat /\ v[x] <= w[x]
  PROVE  SetSum(v, S) <= SetSum(w, S)
<1> DEFINE C == {s \in SUBSET S : ~(SetSum(v, s) <= SetSum(w, s))}
<1> SUFFICES ASSUME C # {} PROVE FALSE
  OBVIOUS
<1>1. PICK s \in C : \A x \in s : s \ {x} \notin C
  <2>1. C \in SUBSET (SUBSET S)
    OBVIOUS
  <2> HIDE DEF C
  <2> QED
    BY <2>1, LeastSet
<1>2. s \in SUBSET S /\ IsFiniteSet(s) /\ ~(SetSum(v, s) <= SetSum(w, s))
  BY <1>1, FS_Subset
<1>3. CASE s = {}
  BY <1>2, <1>3, SetSumNone
<1>4. CASE s # {}
  <2> DEFINE x == Pick(s)
  <2>1. x \in s
    BY <1>4, PickFacts
  <2>2. SetSum(v, s \ {x}) <= SetSum(w, s \ {x})
    BY <1>1, <1>2, <2>1
  <2>3. /\ SetSum(v, s) = v[x] + SetSum(v, s \ {x})
        /\ SetSum(w, s) = w[x] + SetSum(w, s \ {x})
    BY <1>2, <1>4, SetSumPick
  <2>4. SetSum(v, s \ {x}) \in Nat /\ SetSum(w, s \ {x}) \in Nat
    <3>1. s \ {x} \in SUBSET S
      BY <1>2
    <3> HIDE DEF x, C
    <3> QED
      BY <3>1, FS_Subset, SetSumNat
  <2>5. v[x] \in Nat /\ w[x] \in Nat /\ v[x] <= w[x]
    BY <1>2, <2>1
  <2> HIDE DEF x
  <2> QED
    BY <1>2, <2>2, <2>3, <2>4, <2>5
<1> QED
  BY <1>3, <1>4

-----------------------------------------------------------------------------
USE LoaderAssumption

(* At most one subscription for a topic.                                    *)
Single(sel) == \A p, q \in sel : p[1] = q[1] => p = q

IsBlock(b) == b = [need |-> b.need, has |-> b.has, size |-> b.size]

Types ==
  /\ blocks = [k \in Blocks |-> blocks[k]]
  /\ \A k \in Blocks : IsBlock(blocks[k])
  /\ {stopped, cacheFull, changed, outdated} \subseteq BOOLEAN
  /\ current \in 0..BlockCount /\ endBlock \in 0..BlockCount

Singles ==
  /\ Single(topics) /\ Single(loadTopics) /\ Single(fetch)
  /\ \A k \in Blocks : Single(blocks[k].need) /\ Single(blocks[k].has)

(* Has the selection been left alone since the loop took it?                *)
Steady == ~changed /\ ~outdated

Has(k) == TopicsOf(blocks[k].has)

(* A block needs what it does not have.                                     *)
Known(k) ==
  Exists(blocks[k]) =>
    TopicsOf(topics) \subseteq TopicsOf(blocks[k].need) \cup Has(k)

Finished(k) == blocks[k].need = {} /\ TopicsOf(topics) \subseteq Has(k)

(* The range that is read lacks at most what is fetched.                    *)
Fetched(k) ==
  /\ blocks[k].need \subseteq fetch
  /\ TopicsOf(topics) \subseteq TopicsOf(fetch) \cup Has(k)

Control ==
  /\ ~changed => topics = loadTopics
  /\ aborted => changed \/ stopped
  /\ pc = "endAborted" => changed \/ stopped
  /\ pc = "wait" => ~changed /\ ~stopped
  /\ pc = "read" => current \in 1..endBlock
  /\ pc = "endRange" => current = endBlock

Reading ==
  pc \in {"read", "endRange"} /\ Steady =>
    /\ pc = "read" => \A k \in current..endBlock : Fetched(k)
    /\ \A k \in Blocks :
         k < current \/ (pc = "endRange" /\ k <= endBlock) => Finished(k)

Rested ==
  pc \in {"loaded", "wait"} /\ Steady /\ ~stopped /\ ~cacheFull => AllLoaded

IInv ==
  /\ Types /\ Singles /\ Control
  /\ ~outdated => \A k \in Blocks : Known(k)
  /\ Reading /\ Rested

-----------------------------------------------------------------------------
(* A block keeps its needs, and loses only what they name or nobody wants.  *)
LEMMA TrimFacts ==
  ASSUME Types, NEW k \in Blocks
  PROVE  LET t == TrimmedBlocks[k] IN
         /\ IsBlock(t)
         /\ t.need = blocks[k].need /\ t.has \subseteq blocks[k].has
         /\ Exists(t) => Exists(blocks[k])
         /\ \A p \in blocks[k].has :
              p \in t.has \/ p[1] \notin TopicsOf(topics)
                \/ p[1] \in TopicsOf(blocks[k].need)
<1> DEFINE b == blocks[k]
           t == Trimmed(b, k)
<1>1. IsBlock(b) /\ TrimmedBlocks[k] = t
  BY DEF Types, TrimmedBlocks
<1>2. CASE t = b
  BY <1>1, <1>2
<1>3. CASE t # b
  <2>1. /\ Exists(b)
        /\ t = [b EXCEPT !.has = @ \ Unused(b),
                         !.size = @ - SizeOf(Unused(b), k)]
    BY <1>3 DEF Trimmed
  <2>2. /\ IsBlock(t) /\ t.need = b.need /\ t.has = b.has \ Unused(b)
    BY <1>1, <2>1 DEF IsBlock
  <2> QED
    BY <1>1, <2>1, <2>2 DEF Unused
<1> QED
  BY <1>2, <1>3

(* It is the first block from there on that needs loading.                  *)
LEMMA TodoFacts ==
  ASSUME NEW from \in Nat, NEW sel,
         {k \in Blocks : k >= from /\ Loads(k, sel)} # {}
  PROVE  LET todo == {k \in Blocks : k >= from /\ Loads(k, sel)} IN
         /\ Min(todo) \in Blocks /\ Min(todo) >= from
         /\ Loads(Min(todo), sel)
         /\ \A k \in Blocks : from <= k /\ k < Min(todo) => ~Loads(k, sel)
<1> DEFINE todo == {k \in Blocks : k >= from /\ Loads(k, sel)}
<1>1. todo \in SUBSET Nat /\ todo \subseteq Blocks /\ todo # {}
  BY DEF Blocks
<1>2. Min(todo) \in todo /\ \A k \in todo : Min(todo) <= k
  <2>1. \E i \in todo : \A j \in todo : i <= j
    <3> HIDE DEF todo
    <3> QED
      BY <1>1, LeastExists
  <2> QED
    BY <2>1 DEF Min
<1>3. \A k \in Blocks : from <= k /\ k < Min(todo) => ~Loads(k, sel)
  BY <1>1, <1>2 DEF Blocks
<1> QED
  BY <1>2, <1>3

(* The range goes on as long as the blocks want the same.                   *)
LEMMA RangeFacts ==
  ASSUME NEW k \in Blocks, NEW sel
  PROVE  /\ RangeEnd(k, sel) \in k..BlockCount
         /\ \A n \in k..RangeEnd(k, sel) : Wanted(n, sel) = Wanted(k, sel)
<1> DEFINE S == {l \in k..BlockCount :
                   \A n \in k..l : Wanted(n, sel) = Wanted(k, sel)}
<1>1. S \in SUBSET (0..BlockCount) /\ BlockCount \in Nat
  BY DEF Blocks
<1>2. k \in S
  BY DEF Blocks
<1>3. \E i \in S : \A j \in S : j <= i
  <2> HIDE DEF S
  <2> QED
    BY <1>1, <1>2, GreatestExists
<1>4. Max(S) \in S
  <2>1. \E i \in S : \A j \in S : i >= j
    BY <1>1, <1>3
  <2> QED
    BY <2>1 DEF Max
<1> QED
  BY <1>4 DEF RangeEnd

(* A load that starts at a block.                                           *)
LEMMA LoadKeeps ==
  ASSUME Types, Singles, NEW from \in Nat, LoadFrom(from, loadTopics'),
         loadTopics' = topics \/ loadTopics' = loadTopics,
         UNCHANGED <<blocks, topics, stopped, cacheFull, outdated>>,
         changed' = FALSE \/ changed' = changed, changed \in BOOLEAN,
         ~changed' => topics = loadTopics',
         aborted' => changed' \/ stopped,
         ~outdated => \A k \in Blocks : Known(k),
         ~changed' /\ ~outdated =>
           \A k \in Blocks : k < from => Finished(k)
  PROVE  IInv'
<1> DEFINE sel == loadTopics'
           todo == {k \in Blocks : k >= from /\ Loads(k, sel)}
           quiet == ~changed' /\ ~outdated
<1>1. (~outdated => \A k \in Blocks : Known(k))'
  BY DEF Known, Has, TopicsOf
<1>2. ASSUME quiet, NEW k \in Blocks, ~Loads(k, sel)
      PROVE  Finished(k)
  BY <1>2 DEF Loads, Known, Finished, TopicsOf
<1>3. CASE sel = {} \/ todo = {}
  <2>1. pc' = "loaded" /\ UNCHANGED <<fetch, current, endBlock>>
    BY <1>3 DEF LoadFrom
  <2>2. Types' /\ Singles'
    BY <2>1 DEF Types, Singles, IsBlock
  <2>3. Control' /\ Reading'
    BY <2>1 DEF Control, Reading
  <2>4. quiet => AllLoaded'
    <3> SUFFICES ASSUME quiet, NEW k \in Blocks
                 PROVE  TopicsOf(topics) \subseteq Has(k)
      BY DEF AllLoaded, Has, TopicsOf
    <3>1. CASE sel = {}
      BY <3>1 DEF TopicsOf
    <3>2. CASE todo = {}
      <4>1. CASE k < from
        BY <4>1 DEF Finished
      <4>2. CASE ~(k < from)
        <5>1. ~Loads(k, sel)
          BY <3>2, <4>2 DEF Blocks
        <5> QED
          BY <1>2, <5>1 DEF Finished
      <4> QED
        BY <4>1, <4>2
    <3> QED
      BY <1>3, <3>1, <3>2
  <2>5. Rested'
    BY <2>4 DEF Rested, Steady
  <2> QED
    BY <1>1, <2>2, <2>3, <2>5 DEF IInv
<1>4. CASE sel # {} /\ todo # {}
  <2> DEFINE m == Min(todo)
  <2>1. /\ fetch' = Wanted(m, sel) /\ current' = m
        /\ endBlock' = RangeEnd(m, sel) /\ pc' = "read"
    BY <1>4 DEF LoadFrom
  <2>2. /\ m \in Blocks /\ m >= from
        /\ \A k \in Blocks : from <= k /\ k < m => ~Loads(k, sel)
    <3> HIDE DEF m
    <3> QED
      BY <1>4, TodoFacts DEF m
  <2>3. /\ endBlock' \in m..BlockCount
        /\ \A n \in m..endBlock' : Wanted(n, sel) = fetch'
    <3> HIDE DEF m
    <3> QED
      BY <2>1, <2>2, RangeFacts
  <2> HIDE DEF m
  <2>4. Types'
    <3>1. current' \in 0..BlockCount /\ endBlock' \in 0..BlockCount
      BY <2>1, <2>2, <2>3 DEF Blocks
    <3> QED
      BY <3>1 DEF Types, IsBlock
  <2>5. Singles'
    BY <2>1, <2>2 DEF Singles, Wanted, Single
  <2>6. Control'
    BY <2>1, <2>2, <2>3 DEF Control, Blocks
  <2>7. ASSUME quiet, NEW k \in current'..endBlock' PROVE Fetched(k)'
    <3>1. k \in Blocks /\ Wanted(k, sel) = fetch'
      BY <2>1, <2>2, <2>3, <2>7 DEF Blocks
    <3>2. CASE Exists(blocks[k])
      BY <2>7, <3>1, <3>2 DEF Wanted, Known, Fetched, Has, TopicsOf
    <3>3. CASE ~Exists(blocks[k])
      <4>1. blocks[k].need = {}
        BY <3>3 DEF Exists, NoBlock
      <4> QED
        BY <2>7, <3>1, <3>3, <4>1 DEF Wanted, Fetched, Has, TopicsOf
    <3> QED
      BY <3>2, <3>3
  <2>8. ASSUME quiet, NEW k \in Blocks, k < current' PROVE Finished(k)'
    <3>1. Finished(k)
      BY <1>2, <2>1, <2>2, <2>8 DEF Blocks
    <3> QED
      BY <3>1 DEF Finished, Has, TopicsOf
  <2>9. Reading' /\ Rested'
    BY <2>1, <2>7, <2>8 DEF Reading, Rested, Steady
  <2> QED
    BY <1>1, <2>4, <2>5, <2>6, <2>9 DEF IInv
<1> QED
  BY <1>3, <1>4

-----------------------------------------------------------------------------
(* The steps.                                                               *)

LEMMA InitIInv == Init => IInv
<1> SUFFICES ASSUME Init PROVE IInv
  OBVIOUS
<1>1. \A k \in Blocks : blocks[k] = NoBlock
  BY DEF Init
<1>2. Types
  <2>1. IsBlock(NoBlock)
    BY DEF IsBlock, NoBlock
  <2>2. blocks = [k \in Blocks |-> blocks[k]]
    BY DEF Init
  <2>3. {stopped, cacheFull, changed, outdated} \subseteq BOOLEAN
    BY DEF Init
  <2>4. current \in 0..BlockCount /\ endBlock \in 0..BlockCount
    BY DEF Init
  <2>5. \A k \in Blocks : IsBlock(blocks[k])
    BY <1>1, <2>1
  <2> QED
    BY <2>2, <2>3, <2>4, <2>5 DEF Types
<1>3. Singles
  BY <1>1 DEF Init, Singles, Single, NoBlock
<1> QED
  BY <1>1, <1>2, <1>3 DEF Init, IInv, Control, Known, Exists, Reading, Rested

(* A new selection: each block needs what it does not have of it.           *)
LEMMA SetTopicsKeeps ==
  ASSUME IInv, NEW sel \in Selections, SetTopics(sel)
  PROVE  IInv'
<1>1. ASSUME NEW k \in Blocks
      PROVE  /\ IsBlock(blocks'[k]) /\ blocks'[k].has = blocks[k].has
             /\ blocks'[k].need \subseteq sel
             /\ Exists(blocks'[k]) =>
                  blocks'[k].need = NeedTopics(blocks[k], sel)
  <2>1. CASE Exists(blocks[k])
    <3>1. blocks'[k] = [blocks[k] EXCEPT !.need = NeedTopics(blocks[k], sel)]
      BY <2>1 DEF SetTopics
    <3>2. IsBlock(blocks[k])
      BY DEF IInv, Types
    <3>3. /\ IsBlock(blocks'[k]) /\ blocks'[k].has = blocks[k].has
          /\ blocks'[k].need = NeedTopics(blocks[k], sel)
      BY <3>1, <3>2 DEF IsBlock
    <3> QED
      BY <3>3 DEF NeedTopics
  <2>2. CASE ~Exists(blocks[k])
    BY <2>2 DEF SetTopics, Exists, NoBlock, IsBlock
  <2> QED
    BY <2>1, <2>2
<1>2. topics' = sel /\ changed' = TRUE /\ outdated' = FALSE
      /\ UNCHANGED <<stopped, cacheFull, load>>
  BY DEF SetTopics
<1>3. Types'
  <2>1. blocks' = [k \in Blocks |-> blocks'[k]]
    BY DEF SetTopics
  <2> QED
    BY <1>1, <1>2, <2>1 DEF IInv, Types, load
<1>4. Singles'
  BY <1>1, <1>2, LoaderAssumption DEF IInv, Singles, Single, load
<1>5. Control'
  <2>1. pc' = Notified
    BY DEF SetTopics
  <2> QED
    BY <1>2, <2>1 DEF IInv, Control, Notified, load
<1>6. \A k \in Blocks : Known(k)'
  BY <1>1, <1>2 DEF Known, Has, TopicsOf, NeedTopics
<1>7. Reading' /\ Rested'
  BY <1>2 DEF Reading, Rested, Steady
<1> QED
  BY <1>3, <1>4, <1>5, <1>6, <1>7 DEF IInv

(* The blocks, the selection and what is read of them stay as they are.     *)
LEMMA StandsStill ==
  ASSUME IInv,
         UNCHANGED <<blocks, topics, cacheFull, changed, load, outdated>>,
         stopped' \in BOOLEAN, stopped => stopped',
         aborted' => changed \/ stopped',
         \/ pc' = pc /\ UNCHANGED stopped
         \/ /\ pc' # pc
            /\ pc' \in {"read", "endRange", "loaded", "wait"} =>
                 changed \/ stopped' \/ (pc = "loaded" /\ pc' = "wait")
            /\ pc' \notin {"read", "endRange"}
            /\ pc' = "endAborted" => changed \/ stopped'
            /\ pc' = "wait" => ~changed /\ ~stopped'
         \/ pc' = pc /\ pc # "wait"
  PROVE  IInv'
<1>1. Types' /\ Singles'
  BY DEF IInv, Types, Singles, load
<1>2. Control'
  BY DEF IInv, Control, load
<1>3. (~outdated => \A k \in Blocks : Known(k))'
  BY DEF IInv, Known, Has, TopicsOf
<1>4. Reading'
  <2>1. CASE pc' \in {"read", "endRange"} /\ Steady'
    <3>1. pc' = pc /\ Steady
      BY <2>1 DEF Steady
    <3> QED
      BY <2>1, <3>1 DEF IInv, Reading, Fetched, Finished, Has, TopicsOf, load
  <2> QED
    BY <2>1 DEF Reading
<1>5. Rested'
  BY DEF IInv, Types, Rested, Steady, AllLoaded, TopicsOf
<1> QED
  BY <1>1, <1>2, <1>3, <1>4, <1>5 DEF IInv

(* Unused topics are removed: the blocks lack what they need, no more.      *)
LEMMA TrimKeeps ==
  ASSUME IInv, NEW k \in Blocks
  PROVE  LET t == TrimmedBlocks[k] IN
         /\ Single(t.need) /\ Single(t.has)
         /\ ~outdated /\ Exists(t) =>
              TopicsOf(topics) \subseteq TopicsOf(t.need) \cup TopicsOf(t.has)
         /\ Finished(k) =>
              t.need = {} /\ TopicsOf(topics) \subseteq TopicsOf(t.has)
         /\ Fetched(k) =>
              /\ t.need \subseteq fetch
              /\ TopicsOf(topics) \subseteq TopicsOf(fetch) \cup TopicsOf(t.has)
<1> DEFINE t == TrimmedBlocks[k]
<1>1. /\ t.need = blocks[k].need /\ t.has \subseteq blocks[k].has
      /\ Exists(t) => Exists(blocks[k])
      /\ \A p \in blocks[k].has :
           p \in t.has \/ p[1] \notin TopicsOf(topics)
             \/ p[1] \in TopicsOf(blocks[k].need)
  BY TrimFacts DEF IInv
<1> HIDE DEF t
<1>2. Single(t.need) /\ Single(t.has)
  BY <1>1 DEF IInv, Singles, Single
<1>3. \A x \in TopicsOf(topics) :
        x \in Has(k) => x \in TopicsOf(t.has) \cup TopicsOf(t.need)
  BY <1>1 DEF Has, TopicsOf
<1>4. ~outdated /\ Exists(t) =>
        TopicsOf(topics) \subseteq TopicsOf(t.need) \cup TopicsOf(t.has)
  BY <1>1, <1>3 DEF IInv, Known
<1>5. Finished(k) =>
        t.need = {} /\ TopicsOf(topics) \subseteq TopicsOf(t.has)
  BY <1>1, <1>3 DEF Finished, TopicsOf
<1>6. Fetched(k) =>
        /\ t.need \subseteq fetch
        /\ TopicsOf(topics) \subseteq TopicsOf(fetch) \cup TopicsOf(t.has)
  <2>1. t.need \subseteq fetch => TopicsOf(t.need) \subseteq TopicsOf(fetch)
    BY DEF TopicsOf
  <2> QED
    BY <1>1, <1>3, <2>1 DEF Fetched
<1> QED
  BY <1>2, <1>4, <1>5, <1>6 DEF t

(* The cache is full: nothing more is known of the blocks than before.      *)
LEMMA ReadFullKeeps ==
  ASSUME IInv, ReadFull
  PROVE  IInv'
<1>1. /\ blocks' = TrimmedBlocks /\ cacheFull' = TRUE /\ pc' = "loaded"
      /\ UNCHANGED <<topics, stopped, aborted, changed, load, outdated>>
  BY DEF ReadFull, count
<1>2. Types'
  <2>1. \A k \in Blocks : IsBlock(TrimmedBlocks[k])
    BY TrimFacts DEF IInv
  <2>2. TrimmedBlocks = [k \in Blocks |-> TrimmedBlocks[k]]
    BY DEF TrimmedBlocks
  <2> QED
    BY <1>1, <2>1, <2>2 DEF IInv, Types, load
<1>3. Singles'
  BY <1>1, TrimKeeps DEF IInv, Singles, load
<1>4. (~outdated => \A k \in Blocks : Known(k))'
  BY <1>1, TrimKeeps DEF Known, Has
<1>5. Control' /\ Reading' /\ Rested'
  BY <1>1 DEF IInv, Control, Reading, Rested, load
<1> QED
  BY <1>2, <1>3, <1>4, <1>5 DEF IInv

(* The results of a block are stored: it is finished, as it lacked at most  *)
(* what was fetched, if the selection was left alone.                       *)
LEMMA ReadResultsKeeps ==
  ASSUME IInv, ReadResults
  PROVE  IInv'
<1> DEFINE base == IF Crosses THEN TrimmedBlocks ELSE blocks
           b == base[current]
           kept == {p \in b.has : p[1] \notin TopicsOf(fetch)}
<1>1. /\ pc = "read" /\ topics = loadTopics
      /\ blocks' = [base EXCEPT ![current] = Loaded(@, current)]
      /\ outdated' = (outdated \/ changed)
      /\ UNCHANGED <<topics, stopped, aborted, changed, loadTopics, fetch,
                     endBlock>>
      /\ cacheFull' \in {cacheFull, TRUE, FALSE}
  BY DEF ReadResults
<1>2. \/ current < endBlock /\ current' = current + 1 /\ pc' = "read"
      \/ current = endBlock /\ current' = current /\ pc' = "endRange"
  BY DEF ReadResults, IInv, Control, Types
<1>3. /\ current \in Blocks /\ current \in Nat /\ endBlock \in Nat
      /\ endBlock <= BlockCount
  BY <1>1 DEF IInv, Control, Types, Blocks
<1>4. /\ base = [k \in Blocks |-> base[k]]
      /\ \A k \in Blocks :
           /\ IsBlock(base[k])
           /\ Single(base[k].need) /\ Single(base[k].has)
           /\ ~outdated /\ Exists(base[k]) =>
                TopicsOf(topics)
                  \subseteq TopicsOf(base[k].need) \cup TopicsOf(base[k].has)
           /\ Finished(k) =>
                base[k].need = {}
                  /\ TopicsOf(topics) \subseteq TopicsOf(base[k].has)
           /\ Fetched(k) =>
                /\ base[k].need \subseteq fetch
                /\ TopicsOf(topics)
                     \subseteq TopicsOf(fetch) \cup TopicsOf(base[k].has)
  <2>1. CASE Crosses
    <3>1. base = TrimmedBlocks
      BY <2>1
    <3>2. TrimmedBlocks = [k \in Blocks |-> TrimmedBlocks[k]]
      BY DEF TrimmedBlocks
    <3>3. \A k \in Blocks : IsBlock(TrimmedBlocks[k])
      BY TrimFacts DEF IInv
    <3> HIDE DEF base
    <3> QED
      BY <3>1, <3>2, <3>3, TrimKeeps
  <2>2. CASE ~Crosses
    <3>1. base = blocks
      BY <2>2
    <3> HIDE DEF base
    <3> QED
      BY <3>1 DEF IInv, Types, Singles, Known, Finished, Fetched, Has
  <2> QED
    BY <2>1, <2>2
<1> HIDE DEF base
<1>5. /\ blocks' = [k \in Blocks |-> IF k = current THEN Loaded(b, current)
                                     ELSE base[k]]
      /\ \A k \in Blocks : k # current => blocks'[k] = base[k]
      /\ blocks'[current] = Loaded(b, current)
  BY <1>1, <1>3, <1>4
<1>6. /\ IsBlock(blocks'[current]) /\ blocks'[current].need = {}
      /\ \/ blocks'[current].has = kept \cup fetch
         \/ blocks'[current].has = fetch /\ b = NoBlock
  <2>1. CASE Exists(b)
    <3>1. Loaded(b, current) =
            [need |-> {}, has |-> kept \cup fetch,
             size |-> (b.size - Overridden(b, current))
                        + SizeOf(fetch, current)]
      BY <2>1 DEF Loaded
    <3> HIDE DEF kept
    <3>2. /\ Loaded(b, current).need = {}
          /\ Loaded(b, current).has = kept \cup fetch
      BY <3>1
    <3>3. IsBlock(Loaded(b, current))
      BY <3>1 DEF IsBlock
    <3> QED
      BY <1>5, <3>2, <3>3
  <2>2. CASE ~Exists(b)
    <3> DEFINE none == {p \in {} : p[1] \notin TopicsOf(fetch)}
    <3>1. Loaded(b, current) =
            [need |-> {}, has |-> none \cup fetch,
             size |-> (0 - Overridden(b, current))
                        + SizeOf(fetch, current)]
      BY <2>2 DEF Loaded
    <3>2. none \cup fetch = fetch
      OBVIOUS
    <3> HIDE DEF none, kept
    <3>3. Loaded(b, current).need = {} /\ Loaded(b, current).has = fetch
      BY <3>1, <3>2
    <3>4. IsBlock(Loaded(b, current))
      BY <3>1 DEF IsBlock
    <3> QED
      BY <1>5, <2>2, <3>3, <3>4 DEF Exists
  <2> QED
    BY <2>1, <2>2
<1>7. TopicsOf(blocks'[current].has)
        = TopicsOf(fetch) \cup TopicsOf(b.has)
  <2>1. TopicsOf(kept \cup fetch) = TopicsOf(fetch) \cup TopicsOf(b.has)
    BY DEF TopicsOf
  <2>2. b = NoBlock => TopicsOf(b.has) = {}
    BY DEF NoBlock, TopicsOf
  <2> QED
    BY <1>6, <2>1, <2>2
<1>8. Single(blocks'[current].has)
  <2>1. Single(fetch) /\ Single(b.has)
    BY <1>3, <1>4 DEF IInv, Singles
  <2>2. Single(kept \cup fetch)
    BY <2>1 DEF Single, TopicsOf
  <2> QED
    BY <1>6, <2>1, <2>2
<1> HIDE DEF b, kept
<1>9. Types'
  <2>1. blocks' = [k \in Blocks |-> blocks'[k]]
    BY <1>5
  <2>2. \A k \in Blocks : IsBlock(blocks'[k])
    BY <1>4, <1>5, <1>6
  <2>3. current' \in 0..BlockCount
    BY <1>2, <1>3
  <2> QED
    BY <1>1, <2>1, <2>2, <2>3 DEF IInv, Types
<1>10. Singles'
  <2>1. \A k \in Blocks : Single(blocks'[k].need) /\ Single(blocks'[k].has)
    <3>1. Single({})
      BY DEF Single
    <3> QED
      BY <1>4, <1>5, <1>6, <1>8, <3>1
  <2> QED
    BY <1>1, <2>1 DEF IInv, Singles
<1>11. Control'
  BY <1>1, <1>2, <1>3 DEF IInv, Control
<1>12. ASSUME Steady', NEW k \in Blocks, k = current PROVE Finished(k)'
  <2>1. Fetched(k)
    <3>1. k \in current..endBlock
      BY <1>1, <1>3, <1>12 DEF IInv, Control
    <3> QED
      BY <1>1, <1>12, <3>1 DEF IInv, Reading, Steady
  <2>2. TopicsOf(topics) \subseteq TopicsOf(blocks'[k].has)
    BY <1>4, <1>7, <1>12, <2>1 DEF b
  <2> QED
    BY <1>1, <1>6, <1>12, <2>2 DEF Finished, Has, TopicsOf
<1>13. (~outdated => \A k \in Blocks : Known(k))'
  <2> SUFFICES ASSUME ~outdated', NEW k \in Blocks PROVE Known(k)'
    OBVIOUS
  <2>1. ~outdated /\ Steady'
    BY <1>1 DEF Steady
  <2>2. CASE k = current
    BY <1>12, <2>1, <2>2 DEF Known, Finished, Has, TopicsOf
  <2>3. CASE k # current
    BY <1>1, <1>4, <1>5, <2>1, <2>3 DEF Known, Has
  <2> QED
    BY <2>2, <2>3
<1>14. Reading'
  <2> SUFFICES ASSUME Steady'
               PROVE  /\ pc' = "read" =>
                            \A k \in current'..endBlock' : Fetched(k)'
                      /\ \A k \in Blocks :
                           k < current'
                             \/ (pc' = "endRange" /\ k <= endBlock')
                           => Finished(k)'
    BY DEF Reading
  <2>1. Steady
    BY <1>1 DEF Steady
  <2>2. ASSUME pc' = "read", NEW k \in current'..endBlock'
        PROVE  Fetched(k)'
    <3>1. k \in Blocks /\ k # current /\ k \in current..endBlock
      BY <1>1, <1>2, <1>3, <2>2 DEF Blocks
    <3>2. Fetched(k)
      BY <1>1, <2>1, <3>1 DEF IInv, Reading
    <3> QED
      BY <1>1, <1>4, <1>5, <3>1, <3>2 DEF Fetched, Has
  <2>3. ASSUME NEW k \in Blocks,
               k < current' \/ (pc' = "endRange" /\ k <= endBlock')
        PROVE  Finished(k)'
    <3>1. CASE k = current
      BY <1>12, <3>1
    <3>2. CASE k # current
      <4>1. k < current
        BY <1>1, <1>2, <1>3, <2>3, <3>2 DEF Blocks
      <4>2. Finished(k)
        BY <1>1, <2>1, <4>1 DEF IInv, Reading
      <4> QED
        BY <1>1, <1>4, <1>5, <3>2, <4>2 DEF Finished, Has
    <3> QED
      BY <3>1, <3>2
  <2> QED
    BY <2>2, <2>3
<1>15. Rested'
  BY <1>2 DEF Rested
<1> QED
  BY <1>9, <1>10, <1>11, <1>13, <1>14, <1>15 DEF IInv

(* One case for each action.                                                *)
LEMMA NextIInv == IInv /\ [Next]_vars => IInv'
<1> SUFFICES ASSUME IInv, [Next]_vars PROVE IInv'
  OBVIOUS
<1>1. ASSUME NEW sel \in Selections, SetTopics(sel) PROVE IInv'
  BY <1>1, SetTopicsKeeps
<1>2. CASE StopLoading
  BY <1>2, StandsStill DEF StopLoading, IInv, Control, Notified, load, count
<1>3. CASE StartLoading \/ LoopAgain
  <2>1. /\ LoopTop
        /\ UNCHANGED <<blocks, topics, stopped, cacheFull, outdated>>
    BY <1>3 DEF StartLoading, LoopAgain, count
  <2>2. /\ LoadFrom(1, loadTopics') /\ loadTopics' = topics
        /\ aborted' = FALSE /\ changed' = FALSE
    BY <2>1 DEF LoopTop
  <2>3. \A k \in Blocks : k < 1 => Finished(k)
    BY DEF Blocks
  <2>4. Types /\ Singles /\ changed \in BOOLEAN /\ 1 \in Nat
        /\ (~outdated => \A k \in Blocks : Known(k))
    BY DEF IInv, Types
  <2> QED
    BY <2>1, <2>2, <2>3, <2>4, LoadKeeps
<1>4. CASE LoopWaits \/ LoopStops
  BY <1>4, StandsStill DEF LoopWaits, LoopStops, IInv, Control, Types, count
<1>5. CASE ReadAborted \/ ReadOutdated \/ LoadFails
  BY <1>5, StandsStill
  DEF ReadAborted, ReadOutdated, LoadFails, IInv, Control, Types, count
<1>6. CASE ReadResults
  BY <1>6, ReadResultsKeeps
<1>7. CASE ReadFull
  BY <1>7, ReadFullKeeps
<1>8. CASE CursorEnded /\ pc = "endRange"
  <2>1. /\ LoadFrom(endBlock + 1, loadTopics')
        /\ UNCHANGED <<blocks, topics, stopped, aborted, cacheFull, changed,
                       loadTopics, outdated>>
    BY <1>8 DEF CursorEnded, count
  <2>2. endBlock + 1 \in Nat
    BY DEF IInv, Types
  <2>3. ~changed /\ ~outdated =>
          \A k \in Blocks : k < endBlock + 1 => Finished(k)
    BY <1>8 DEF IInv, Types, Reading, Steady, Blocks
  <2> QED
    BY <2>1, <2>2, <2>3, LoadKeeps DEF IInv, Control, Types
<1>9. CASE CursorEnded /\ pc = "endAborted"
  BY <1>9, StandsStill DEF CursorEnded, IInv, Control, Types, load, count
<1>10. CASE UNCHANGED vars
  BY <1>10, StandsStill DEF vars, load, count, IInv, Control, Types
<1> QED
  BY <1>1, <1>2, <1>3, <1>4, <1>5, <1>6, <1>7, <1>8, <1>9, <1>10
  DEF Next, LoaderStep, CursorEnded

-----------------------------------------------------------------------------
(* The accounts.                                                            *)

(* The sizes of the messages of a block.                                    *)
Weights(k) == [p \in Subscriptions |-> Sizes[p[1]][k]]

BlockSizes(bs) == [k \in Blocks |-> IF Exists(bs[k]) THEN bs[k].size ELSE 0]

(* The size of a set of subscriptions is the sum of theirs.                 *)
LEMMA SizeIsSum ==
  ASSUME NEW sel \in SUBSET Subscriptions, IsFiniteSet(sel), NEW k \in Blocks
  PROVE  /\ SizeOf(sel, k) = SetSum(Weights(k), sel)
         /\ \A p \in sel : Weights(k)[p] \in Nat
<1> DEFINE Adds(g) == g = [s \in SUBSET sel |->
                             IF s = {} THEN 0
                             ELSE Sizes[(CHOOSE x \in s : TRUE)[1]][k]
                                    + g[s \ {CHOOSE x \in s : TRUE}]]
           h == CHOOSE h : Adds(h)
<1>1. SizeOf(sel, k) = h[sel]
  BY DEF SizeOf, MapThenSumSet, MapThenFoldSet
<1>2. ASSUME NEW g PROVE IsSetSum(g, Weights(k), sel) <=> Adds(g)
  <2>1. ASSUME NEW s \in SUBSET sel, s # {}
        PROVE  Weights(k)[Pick(s)] = Sizes[(CHOOSE x \in s : TRUE)[1]][k]
    <3>1. Pick(s) \in Subscriptions
      BY <2>1, PickFacts
    <3> QED
      BY <3>1 DEF Weights, Pick
  <2> QED
    BY <2>1 DEF IsSetSum, Pick
<1>3. IsSetSum(h, Weights(k), sel)
  <2>1. \E g : Adds(g)
    <3> HIDE DEF Adds
    <3> QED
      BY <1>2, SetSumExists
  <2> HIDE DEF Adds
  <2>2. Adds(h)
    BY <2>1
  <2> HIDE DEF h
  <2> QED
    BY <1>2, <2>2
<1> HIDE DEF h
<1>4. SizeOf(sel, k) = SetSum(Weights(k), sel)
  BY <1>1, <1>3, SetSumIs
<1>5. \A p \in sel : Weights(k)[p] \in Nat
  BY LoaderAssumption DEF Weights, Subscriptions
<1> QED
  BY <1>4, <1>5

(* The size of the cache is the sum of its blocks'.                         *)
LEMMA CacheIsSum ==
  ASSUME NEW bs
  PROVE  /\ CacheSize(bs) = SetSum(BlockSizes(bs), Blocks)
         /\ IsFiniteSet(Blocks)
<1> DEFINE Adds(g) == g = [s \in SUBSET Blocks |->
                             IF s = {} THEN 0
                             ELSE (IF Exists(bs[CHOOSE x \in s : TRUE])
                                   THEN bs[CHOOSE x \in s : TRUE].size ELSE 0)
                                    + g[s \ {CHOOSE x \in s : TRUE}]]
           h == CHOOSE h : Adds(h)
<1>1. CacheSize(bs) = h[Blocks]
  BY DEF CacheSize, MapThenSumSet, MapThenFoldSet
<1>2. ASSUME NEW g PROVE IsSetSum(g, BlockSizes(bs), Blocks) <=> Adds(g)
  <2>1. ASSUME NEW s \in SUBSET Blocks, s # {}
        PROVE  BlockSizes(bs)[Pick(s)] =
                 IF Exists(bs[CHOOSE x \in s : TRUE])
                 THEN bs[CHOOSE x \in s : TRUE].size ELSE 0
    <3>1. Pick(s) \in Blocks
      BY <2>1, PickFacts
    <3> QED
      BY <3>1 DEF BlockSizes, Pick
  <2> QED
    BY <2>1 DEF IsSetSum, Pick
<1>3. IsFiniteSet(Blocks)
  BY FS_Interval DEF Blocks
<1>4. IsSetSum(h, BlockSizes(bs), Blocks)
  <2>1. \E g : Adds(g)
    <3> HIDE DEF Adds
    <3> QED
      BY <1>2, <1>3, SetSumExists
  <2> HIDE DEF Adds
  <2>2. Adds(h)
    BY <2>1
  <2> HIDE DEF h
  <2> QED
    BY <1>2, <2>2
<1> HIDE DEF h
<1>5. CacheSize(bs) = SetSum(BlockSizes(bs), Blocks)
  BY <1>1, <1>3, <1>4, SetSumIs
<1> QED
  BY <1>3, <1>5

(* What a set of subscriptions is split into has its size together.         *)
LEMMA SizeSplits ==
  ASSUME NEW sel \in SUBSET Subscriptions, IsFiniteSet(sel), NEW k \in Blocks,
         NEW part \in SUBSET sel
  PROVE  /\ SizeOf(sel, k) = SizeOf(part, k) + SizeOf(sel \ part, k)
         /\ SizeOf(sel, k) \in Nat /\ SizeOf(part, k) \in Nat
         /\ SizeOf(sel \ part, k) \in Nat
<1> DEFINE w == Weights(k)
           rest == sel \ part
<1>1. /\ IsFiniteSet(part) /\ IsFiniteSet(rest)
      /\ part \in SUBSET Subscriptions /\ rest \in SUBSET Subscriptions
  BY FS_Subset
<1>2. /\ SizeOf(sel, k) = SetSum(w, sel) /\ SizeOf(part, k) = SetSum(w, part)
      /\ \A p \in sel : w[p] \in Nat
  BY <1>1, SizeIsSum
<1>3. SizeOf(rest, k) = SetSum(w, rest)
  <2> HIDE DEF rest
  <2> QED
    BY <1>1, SizeIsSum
<1>4. /\ SetSum(w, sel) \in Nat /\ SetSum(w, part) \in Nat
      /\ SetSum(w, rest) \in Nat
  BY <1>1, <1>2, SetSumNat
<1>5. SetSum(w, sel) = SetSum(w, part) + SetSum(w, rest)
  BY <1>2, SetSumSplit
<1> HIDE DEF w, rest
<1>6. /\ SizeOf(sel, k) = SizeOf(part, k) + SizeOf(rest, k)
      /\ SizeOf(sel, k) \in Nat /\ SizeOf(part, k) \in Nat
      /\ SizeOf(rest, k) \in Nat
  BY <1>2, <1>3, <1>4, <1>5
<1> QED
  BY <1>6 DEF rest

(* A block that holds something holds as much as its messages take.         *)
Sound(b, k) ==
  Exists(b) =>
    /\ b.has \in SUBSET Subscriptions /\ IsFiniteSet(b.has)
    /\ b.need \in SUBSET Subscriptions /\ IsFiniteSet(b.need)
    /\ b.size = SizeOf(b.has, k)

(* The size of a sound block is a natural number.                           *)
LEMMA BlockSizeNat ==
  ASSUME NEW bs, NEW k \in Blocks, Sound(bs[k], k)
  PROVE  BlockSizes(bs)[k] \in Nat
<1> DEFINE b == bs[k]
<1>1. BlockSizes(bs)[k] = IF Exists(b) THEN b.size ELSE 0
  BY DEF BlockSizes
<1>2. CASE Exists(b)
  <2>1. SizeOf(b.has, k) \in Nat
    <3>1. b.has \in SUBSET Subscriptions /\ IsFiniteSet(b.has)
      BY <1>2 DEF Sound
    <3> HIDE DEF b
    <3> QED
      BY <3>1, SizeSplits
  <2>2. b.size = SizeOf(b.has, k)
    BY <1>2 DEF Sound
  <2> QED
    BY <1>1, <1>2, <2>1, <2>2
<1> QED
  BY <1>1, <1>2

(* And so is the cache's.                                                   *)
LEMMA CacheSizeNat ==
  ASSUME NEW bs, \A k \in Blocks : Sound(bs[k], k)
  PROVE  CacheSize(bs) \in Nat
<1>1. \A k \in Blocks : BlockSizes(bs)[k] \in Nat
  BY BlockSizeNat
<1> QED
  BY <1>1, CacheIsSum, SetSumNat

(* Another block in the place of one.                                       *)
LEMMA CacheReplaced ==
  ASSUME NEW bs, NEW cs, NEW k \in Blocks,
         \A n \in Blocks : Sound(bs[n], n) /\ Sound(cs[n], n),
         \A n \in Blocks : n # k => cs[n] = bs[n]
  PROVE  CacheSize(bs) + BlockSizes(cs)[k] = CacheSize(cs) + BlockSizes(bs)[k]
<1> DEFINE v == BlockSizes(bs)
           w == BlockSizes(cs)
           rest == SetSum(v, Blocks \ {k})
<1>1. \A n \in Blocks : v[n] \in Nat /\ w[n] \in Nat
  BY BlockSizeNat
<1>2. \A n \in Blocks \ {k} : v[n] = w[n]
  BY DEF BlockSizes
<1>3. IsFiniteSet(Blocks) /\ IsFiniteSet(Blocks \ {k})
  BY CacheIsSum, FS_Subset
<1>4. CacheSize(bs) = SetSum(v, Blocks) /\ CacheSize(cs) = SetSum(w, Blocks)
  BY CacheIsSum
<1> HIDE DEF v, w
<1>5. SetSum(w, Blocks \ {k}) = rest
  BY <1>2, <1>3, SetSumSame
<1>6. /\ SetSum(v, Blocks) = v[k] + rest
      /\ SetSum(w, Blocks) = w[k] + SetSum(w, Blocks \ {k})
  BY <1>1, <1>3, SetSumTake
<1>7. rest \in Nat
  BY <1>1, <1>3, SetSumNat
<1> HIDE DEF rest
<1>8. CacheSize(bs) = v[k] + rest /\ CacheSize(cs) = w[k] + rest
  BY <1>4, <1>5, <1>6
<1>9. CacheSize(bs) + w[k] = CacheSize(cs) + v[k]
  BY <1>1, <1>7, <1>8
<1> QED
  BY <1>9 DEF v, w

Held(b) == IF Exists(b) THEN b.size ELSE 0

(* Unused topics are removed: the block is as big as what is left.          *)
LEMMA TrimCounts ==
  ASSUME NEW b, NEW k \in Blocks, IsBlock(b), Sound(b, k)
  PROVE  /\ Sound(Trimmed(b, k), k)
         /\ Held(b) \in Nat /\ Held(Trimmed(b, k)) \in Nat
         /\ Held(Trimmed(b, k)) <= Held(b)
<1> DEFINE t == Trimmed(b, k)
           left == b.has \ Unused(b)
<1>1. CASE ~Exists(b)
  <2>1. t = b
    BY <1>1 DEF Trimmed
  <2> HIDE DEF t
  <2>2. Sound(t, k) /\ Held(t) = 0 /\ Held(b) = 0
    BY <1>1, <2>1 DEF Held
  <2> QED
    BY <2>2 DEF t
<1>2. CASE Exists(b)
  <2>1. /\ b.has \in SUBSET Subscriptions /\ IsFiniteSet(b.has)
        /\ b.need \in SUBSET Subscriptions /\ IsFiniteSet(b.need)
        /\ b.size = SizeOf(b.has, k)
    BY <1>2 DEF Sound
  <2>2. Unused(b) \in SUBSET b.has
    BY DEF Unused
  <2>3. /\ SizeOf(b.has, k) = SizeOf(Unused(b), k) + SizeOf(left, k)
        /\ SizeOf(b.has, k) \in Nat /\ SizeOf(Unused(b), k) \in Nat
        /\ SizeOf(left, k) \in Nat
    BY <2>1, <2>2, SizeSplits
  <2>4. CASE SizeOf(Unused(b), k) > 0
    <3>1. t = [b EXCEPT !.has = @ \ Unused(b),
                        !.size = @ - SizeOf(Unused(b), k)]
      BY <1>2, <2>4 DEF Trimmed
    <3> HIDE DEF t
    <3>2. /\ t.has = left /\ t.need = b.need
          /\ t.size = b.size - SizeOf(Unused(b), k)
      BY <3>1 DEF IsBlock
    <3>3. left \in SUBSET Subscriptions /\ IsFiniteSet(left)
      BY <2>1, FS_Subset
    <3> HIDE DEF left
    <3>4. t.size = SizeOf(left, k) /\ t.size <= b.size /\ t.size \in Nat
      BY <2>1, <2>3, <3>2
    <3>5. Exists(t)
      <4>1. NoBlock.size = -1
        BY DEF NoBlock
      <4> QED
        BY <3>4, <4>1 DEF Exists
    <3>6. Sound(t, k)
      BY <2>1, <3>2, <3>3, <3>4 DEF Sound
    <3>7. Held(t) = t.size /\ Held(b) = b.size /\ b.size \in Nat
      BY <1>2, <2>1, <2>3, <3>5 DEF Held
    <3> QED
      BY <3>4, <3>6, <3>7 DEF t
  <2>5. CASE ~(SizeOf(Unused(b), k) > 0)
    <3>1. t = b
      BY <1>2, <2>5 DEF Trimmed
    <3>2. Held(b) = b.size /\ b.size \in Nat
      BY <1>2, <2>1, <2>3 DEF Held
    <3> HIDE DEF t
    <3>3. Sound(t, k) /\ Held(t) \in Nat /\ Held(t) <= Held(b)
      BY <3>1, <3>2
    <3> QED
      BY <3>2, <3>3 DEF t
  <2> QED
    BY <2>4, <2>5
<1> QED
  BY <1>1, <1>2

(* What is fetched is added, without what it overrides.                     *)
LEMMA LoadedCounts ==
  ASSUME NEW b, NEW k \in Blocks, Sound(b, k),
         fetch \in SUBSET Subscriptions, IsFiniteSet(fetch)
  PROVE  LET l == Loaded(b, k) IN
         /\ Sound(l, k) /\ Exists(l)
         /\ Held(b) \in Nat /\ Held(l) \in Nat
         /\ Overridden(b, k) \in Nat /\ SizeOf(fetch, k) \in Nat
         /\ Held(l) = Held(b) + SizeOf(fetch, k) - Overridden(b, k)
<1> DEFINE l == Loaded(b, k)
<1>1. /\ SizeOf(fetch, k) = SizeOf({}, k) + SizeOf(fetch \ {}, k)
      /\ SizeOf(fetch, k) \in Nat /\ SizeOf({}, k) \in Nat
  <2>1. {} \in SUBSET fetch
    OBVIOUS
  <2> QED
    BY <2>1, SizeSplits
<1>2. SizeOf({}, k) = 0
  <2>1. fetch \ {} = fetch
    OBVIOUS
  <2>2. SizeOf(fetch \ {}, k) = SizeOf(fetch, k)
    BY <2>1, Zenon
  <2> QED
    BY <1>1, <2>2
<1>3. NoBlock.size = -1
  BY DEF NoBlock
<1>4. CASE Exists(b)
  <2> DEFINE over == {p \in b.has : p[1] \in TopicsOf(fetch)}
             kept == {p \in b.has : p[1] \notin TopicsOf(fetch)}
             all == kept \cup fetch
  <2>1. l = [need |-> {}, has |-> all,
             size |-> (b.size - Overridden(b, k)) + SizeOf(fetch, k)]
    BY <1>4 DEF Loaded
  <2>2. Overridden(b, k) = SizeOf(over, k)
    BY <1>4 DEF Overridden
  <2>3. /\ b.has \in SUBSET Subscriptions /\ IsFiniteSet(b.has)
        /\ b.size = SizeOf(b.has, k)
    BY <1>4 DEF Sound
  <2>4. /\ over \in SUBSET b.has /\ b.has \ over = kept
        /\ kept \in SUBSET all /\ all \ kept = fetch
    BY DEF TopicsOf
  <2>5. IsFiniteSet(kept) /\ IsFiniteSet(all) /\ all \in SUBSET Subscriptions
    <3>1. IsFiniteSet(kept)
      BY <2>3, FS_Subset
    <3> QED
      BY <2>3, <3>1, FS_Union
  <2> HIDE DEF over, kept, all, l
  <2>6. /\ SizeOf(b.has, k) = SizeOf(over, k) + SizeOf(b.has \ over, k)
        /\ SizeOf(over, k) \in Nat /\ SizeOf(b.has \ over, k) \in Nat
        /\ SizeOf(b.has, k) \in Nat
    BY <2>3, <2>4, SizeSplits
  <2>7. /\ SizeOf(all, k) = SizeOf(kept, k) + SizeOf(all \ kept, k)
        /\ SizeOf(all, k) \in Nat
    <3>1. kept \in SUBSET all
      BY <2>4
    <3> QED
      BY <2>5, <3>1, SizeSplits
  <2>8. /\ SizeOf(b.has \ over, k) = SizeOf(kept, k)
        /\ SizeOf(all \ kept, k) = SizeOf(fetch, k)
    BY <2>4, Zenon
  <2>9. /\ l.size = (b.size - Overridden(b, k)) + SizeOf(fetch, k)
        /\ l.has = all /\ l.need = {}
    BY <2>1
  <2>10. /\ l.size = SizeOf(all, k) /\ l.size \in Nat
         /\ l.size = b.size + SizeOf(fetch, k) - Overridden(b, k)
         /\ b.size \in Nat /\ Overridden(b, k) \in Nat
    BY <1>1, <2>2, <2>3, <2>6, <2>7, <2>8, <2>9
  <2>11. Exists(l)
    BY <1>3, <2>10 DEF Exists
  <2>12. Sound(l, k)
    <3>1. IsFiniteSet({})
      BY FS_EmptySet
    <3> QED
      BY <2>5, <2>9, <2>10, <3>1 DEF Sound
  <2>13. Held(l) = l.size /\ Held(b) = b.size
    BY <1>4, <2>11 DEF Held
  <2>14. Held(l) = Held(b) + SizeOf(fetch, k) - Overridden(b, k)
    BY <2>10, <2>13
  <2> QED
    BY <1>1, <2>10, <2>11, <2>12, <2>13, <2>14 DEF l
<1>5. CASE ~Exists(b)
  <2> DEFINE none == {p \in {} : p[1] \notin TopicsOf(fetch)}
  <2>1. l = [need |-> {}, has |-> none \cup fetch,
             size |-> (0 - Overridden(b, k)) + SizeOf(fetch, k)]
    BY <1>5 DEF Loaded
  <2>2. none = {} /\ none \cup fetch = fetch
    OBVIOUS
  <2> HIDE DEF none, l
  <2>3. Overridden(b, k) = 0
    BY <1>5 DEF Overridden
  <2>4. l.need = {} /\ l.has = fetch /\ l.size = SizeOf(fetch, k)
    BY <1>1, <2>1, <2>2, <2>3
  <2>5. Exists(l)
    BY <1>1, <1>3, <2>4 DEF Exists
  <2>6. Sound(l, k)
    <3>1. IsFiniteSet({})
      BY FS_EmptySet
    <3> QED
      BY <2>4, <3>1 DEF Sound
  <2>7. Held(l) = SizeOf(fetch, k) /\ Held(b) = 0 /\ Overridden(b, k) = 0
    BY <1>5, <2>4, <2>5 DEF Held, Overridden
  <2>8. Held(l) = Held(b) + SizeOf(fetch, k) - Overridden(b, k)
    BY <1>1, <2>7
  <2> QED
    BY <1>1, <2>5, <2>6, <2>7, <2>8 DEF l
<1> QED
  BY <1>4, <1>5

(* The invariant of the accounts.                                           *)
Asked(sel) == sel \in SUBSET Subscriptions /\ IsFiniteSet(sel)

SoundBlocks(bs) == \A k \in Blocks : Sound(bs[k], k)

Places ==
  /\ aborted \in BOOLEAN /\ total \in Nat
  /\ pc \in {"off", "read", "endAborted", "endRange", "loaded", "wait",
             "woken", "stopped", "failed"}
  /\ topics \in Selections \cup {{}} /\ loadTopics \in Selections \cup {{}}
  /\ Asked(fetch)

Counted ==
  /\ Places
  /\ SoundBlocks(blocks)
  /\ pc \in {"read", "endRange"} => total = CacheSize(blocks)
  /\ CacheBounded

(* Every selection is a finite set of subscriptions.                        *)
LEMMA SelectionsAsked ==
  \A sel \in Selections \cup {{}} : Asked(sel)
<1>1. Asked({})
  BY FS_EmptySet DEF Asked
<1>2. \A sel \in Selections : Asked(sel)
  BY DEF Asked, Subscriptions
<1> QED
  BY <1>1, <1>2

(* When unused topics are removed, the cache is no bigger than before.      *)
LEMMA TrimmedSound ==
  ASSUME IInv, SoundBlocks(blocks)
  PROVE  /\ SoundBlocks(TrimmedBlocks)
         /\ CacheSize(blocks) \in Nat /\ CacheSize(TrimmedBlocks) \in Nat
         /\ CacheSize(TrimmedBlocks) <= CacheSize(blocks)
<1> DEFINE tb == TrimmedBlocks
<1>1. ASSUME NEW k \in Blocks
      PROVE  /\ Sound(tb[k], k)
             /\ Held(blocks[k]) \in Nat /\ Held(tb[k]) \in Nat
             /\ Held(tb[k]) <= Held(blocks[k])
  <2>1. IsBlock(blocks[k]) /\ Sound(blocks[k], k)
    BY DEF IInv, Types, SoundBlocks
  <2>2. tb[k] = Trimmed(blocks[k], k)
    BY DEF TrimmedBlocks
  <2> QED
    BY <2>1, <2>2, TrimCounts
<1> HIDE DEF tb
<1>2. SoundBlocks(tb)
  BY <1>1 DEF SoundBlocks
<1>3. CacheSize(blocks) \in Nat /\ CacheSize(tb) \in Nat
  BY <1>1, CacheSizeNat DEF SoundBlocks
<1>4. CacheSize(tb) <= CacheSize(blocks)
  <2> DEFINE v == BlockSizes(tb)
             w == BlockSizes(blocks)
  <2>1. \A k \in Blocks : v[k] \in Nat /\ w[k] \in Nat /\ v[k] <= w[k]
    BY <1>1 DEF BlockSizes, Held
  <2>2. /\ CacheSize(tb) = SetSum(v, Blocks) /\ IsFiniteSet(Blocks)
        /\ CacheSize(blocks) = SetSum(w, Blocks)
    BY CacheIsSum
  <2> HIDE DEF v, w
  <2>3. SetSum(v, Blocks) <= SetSum(w, Blocks)
    BY <2>1, <2>2, SetSumLess
  <2> QED
    BY <2>2, <2>3
<1> QED
  BY <1>2, <1>3, <1>4 DEF tb

(* There are no blocks at first.                                            *)
LEMMA InitCounted == Init => Counted
<1> SUFFICES ASSUME Init PROVE Counted
  OBVIOUS
<1>1. \A k \in Blocks : ~Exists(blocks[k])
  BY DEF Init, Exists
<1>2. SoundBlocks(blocks)
  BY <1>1 DEF SoundBlocks, Sound
<1>3. CacheSize(blocks) = 0
  <2> DEFINE w == BlockSizes(blocks)
  <2>1. \A k \in Blocks : w[k] = 0
    BY <1>1 DEF BlockSizes
  <2>2. IsFiniteSet(Blocks) /\ CacheSize(blocks) = SetSum(w, Blocks)
    BY CacheIsSum
  <2>3. \A S \in SUBSET Blocks : SetSum(w, S) = 0
    <3> DEFINE C == {S \in SUBSET Blocks : SetSum(w, S) # 0}
    <3> SUFFICES ASSUME C # {} PROVE FALSE
      OBVIOUS
    <3>1. PICK S \in C : \A x \in S : S \ {x} \notin C
      <4>1. C \in SUBSET (SUBSET Blocks)
        OBVIOUS
      <4> HIDE DEF C
      <4> QED
        BY <2>2, <4>1, LeastSet
    <3>2. S # {}
      BY <3>1, SetSumNone
    <3>3. Pick(S) \in S /\ S \in SUBSET Blocks /\ IsFiniteSet(S)
      BY <2>2, <3>1, <3>2, PickFacts, FS_Subset
    <3>4. SetSum(w, S) = w[Pick(S)] + SetSum(w, S \ {Pick(S)})
      BY <3>2, <3>3, SetSumPick
    <3>5. SetSum(w, S \ {Pick(S)}) = 0
      BY <3>1, <3>3
    <3>6. w[Pick(S)] = 0
      BY <2>1, <3>3
    <3> HIDE DEF w
    <3> QED
      BY <3>1, <3>4, <3>5, <3>6
  <2> HIDE DEF w
  <2> QED
    BY <2>2, <2>3
<1>4. Places
  <2>1. Asked({})
    BY SelectionsAsked
  <2> QED
    BY <2>1 DEF Init, Places
<1> QED
  BY <1>2, <1>3, <1>4 DEF Init, Counted, CacheBounded

(* A load that starts counts what there is.                                 *)
LEMMA LoadCounts ==
  ASSUME IInv, Counted, NEW from \in Nat, LoadFrom(from, loadTopics'),
         loadTopics' \in Selections \cup {{}}, aborted' \in BOOLEAN,
         UNCHANGED <<blocks, topics>>, total' = CacheSize(blocks)
  PROVE  Counted'
<1>1. total' \in Nat
  BY CacheSizeNat DEF Counted, SoundBlocks
<1>2. CacheSize(blocks') = CacheSize(blocks) /\ SoundBlocks(blocks)'
  BY DEF Counted, SoundBlocks, Sound, Exists
<1>3. /\ pc' \in {"read", "loaded"}
      /\ Asked(fetch')
  <2> DEFINE todo == {k \in Blocks : k >= from /\ Loads(k, loadTopics')}
  <2>1. CASE loadTopics' = {} \/ todo = {}
    BY <2>1 DEF LoadFrom, Counted, Places
  <2>2. CASE ~(loadTopics' = {} \/ todo = {})
    <3>1. fetch' = Wanted(Min(todo), loadTopics') /\ pc' = "read"
      BY <2>2 DEF LoadFrom
    <3>2. Min(todo) \in Blocks
      BY <2>2, TodoFacts
    <3> HIDE DEF todo
    <3>3. Asked(Wanted(Min(todo), loadTopics'))
      BY <3>2, SelectionsAsked DEF Wanted, Counted, SoundBlocks, Sound, Asked
    <3> QED
      BY <3>1, <3>3
  <2> QED
    BY <2>1, <2>2
<1> QED
  BY <1>1, <1>2, <1>3 DEF Counted, Places, Asked, CacheBounded

(* A new selection changes what the blocks need, and not what they hold.    *)
LEMMA SetTopicsCounts ==
  ASSUME IInv, Counted, NEW sel \in Selections, SetTopics(sel)
  PROVE  Counted'
<1>1. ASSUME NEW k \in Blocks
      PROVE  /\ Sound(blocks'[k], k)
             /\ BlockSizes(blocks')[k] = BlockSizes(blocks)[k]
  <2>1. CASE Exists(blocks[k])
    <3> DEFINE b == blocks[k]
               c == blocks'[k]
    <3>1. c = [b EXCEPT !.need = NeedTopics(b, sel)] /\ IsBlock(b)
      BY <2>1 DEF SetTopics, IInv, Types
    <3>2. /\ c.need = NeedTopics(b, sel) /\ c.has = b.has
          /\ c.size = b.size
      <4> HIDE DEF b, c
      <4> QED
        BY <3>1 DEF IsBlock
    <3>3. Sound(b, k) /\ b.size \in Nat
      <4>1. BlockSizes(blocks)[k] = b.size /\ Sound(b, k)
        BY <2>1 DEF BlockSizes, Counted, SoundBlocks
      <4>2. BlockSizes(blocks)[k] \in Nat
        BY <4>1, BlockSizeNat
      <4> QED
        BY <4>1, <4>2
    <3>4. Exists(c)
      <4>1. NoBlock.size = -1
        BY DEF NoBlock
      <4> HIDE DEF b, c
      <4> QED
        BY <3>2, <3>3, <4>1 DEF Exists
    <3>5. NeedTopics(b, sel) \in SUBSET sel
      BY DEF NeedTopics
    <3>6. c.need \in SUBSET Subscriptions /\ IsFiniteSet(c.need)
      <4>1. Asked(sel)
        BY SelectionsAsked
      <4> HIDE DEF b, c
      <4> QED
        BY <3>2, <3>5, <4>1, FS_Subset DEF Asked
    <3>7. Sound(c, k)
      <4>1. Exists(b)
        BY <2>1
      <4> HIDE DEF b, c
      <4> QED
        BY <3>2, <3>3, <3>6, <4>1 DEF Sound
    <3> QED
      BY <2>1, <3>2, <3>4, <3>7 DEF BlockSizes
  <2>2. CASE ~Exists(blocks[k])
    <3>1. blocks'[k] = NoBlock
      BY <2>2 DEF SetTopics
    <3> QED
      BY <2>2, <3>1 DEF BlockSizes, Sound, Exists
  <2> QED
    BY <2>1, <2>2
<1>2. SoundBlocks(blocks)'
  BY <1>1 DEF SoundBlocks
<1>3. CacheSize(blocks') = CacheSize(blocks)
  <2>1. /\ IsFiniteSet(Blocks)
        /\ CacheSize(blocks) = SetSum(BlockSizes(blocks), Blocks)
        /\ CacheSize(blocks') = SetSum(BlockSizes(blocks'), Blocks)
    BY CacheIsSum
  <2>2. \A k \in Blocks : BlockSizes(blocks')[k] = BlockSizes(blocks)[k]
    BY <1>1
  <2> DEFINE v == BlockSizes(blocks)
             w == BlockSizes(blocks')
  <2> HIDE DEF v, w
  <2>3. SetSum(w, Blocks) = SetSum(v, Blocks)
    <3>1. \A k \in Blocks : w[k] = v[k]
      BY <2>2 DEF v, w
    <3> QED
      BY <2>1, <3>1, SetSumSame
  <2> QED
    BY <2>1, <2>3 DEF v, w
<1>4. /\ topics' = sel /\ aborted' = TRUE /\ pc' = Notified
      /\ UNCHANGED <<loadTopics, fetch, total>>
  BY DEF SetTopics, load
<1>5. Places'
  BY <1>4 DEF Counted, Places, Notified, Asked
<1>6. pc' \in {"read", "endRange"} => pc \in {"read", "endRange"}
  BY <1>4 DEF Notified
<1> QED
  BY <1>2, <1>3, <1>4, <1>5, <1>6 DEF Counted, CacheBounded

(* When the cache is full, unused topics are gone and nothing was added.    *)
LEMMA ReadFullCounts ==
  ASSUME IInv, Counted, ReadFull
  PROVE  Counted'
<1>1. /\ blocks' = TrimmedBlocks /\ pc' = "loaded"
      /\ UNCHANGED <<topics, aborted, loadTopics, fetch, total>>
  BY DEF ReadFull, load
<1>2. /\ SoundBlocks(TrimmedBlocks)
      /\ CacheSize(blocks) \in Nat /\ CacheSize(TrimmedBlocks) \in Nat
      /\ CacheSize(TrimmedBlocks) <= CacheSize(blocks)
  BY TrimmedSound DEF Counted
<1>3. CacheBounded'
  <2> DEFINE a == CacheSize(TrimmedBlocks)
             c == CacheSize(blocks)
  <2>1. a \in Nat /\ c \in Nat /\ a <= c /\ c <= MaxCacheSize
    BY <1>2 DEF Counted, CacheBounded
  <2>2. MaxCacheSize \in Nat
    OBVIOUS
  <2>3. CacheSize(blocks') = a
    BY <1>1
  <2> HIDE DEF a, c
  <2>4. a <= MaxCacheSize
    BY <2>1, <2>2
  <2> QED
    BY <2>3, <2>4 DEF CacheBounded
<1>4. Places'
  BY <1>1 DEF Counted, Places, Asked
<1>5. SoundBlocks(blocks)'
  BY <1>1, <1>2, Zenon DEF SoundBlocks
<1> QED
  BY <1>1, <1>3, <1>4, <1>5 DEF Counted

(* Results that are stored are counted as the blocks grow, and fit.         *)
LEMMA ReadResultsCounts ==
  ASSUME IInv, Counted, ReadResults
  PROVE  Counted'
<1> DEFINE base == IF Crosses THEN TrimmedBlocks ELSE blocks
           b == base[current]
           l == Loaded(b, current)
           size == SizeOf(fetch, current)
           over == Overridden(b, current)
           next == blocks'
           sum == total'
<1>1. /\ pc = "read" /\ ~(Crosses /\ Stays > MaxCacheSize)
      /\ next = [base EXCEPT ![current] = l]
      /\ Crosses => sum = Stays - over
      /\ ~Crosses => sum = (total + size) - over
      /\ UNCHANGED <<topics, aborted, loadTopics, fetch>>
      /\ pc' \in {"read", "endRange"}
  <2> DEFINE more == total + size
             before == IF Crosses THEN Stays ELSE more
  <2>1. sum = before - over /\ next = [base EXCEPT ![current] = l]
    BY DEF ReadResults
  <2>2. Crosses => before = Stays
    OBVIOUS
  <2>3. ~Crosses => before = more
    <3> HIDE DEF more
    <3> QED
      OBVIOUS
  <2>4. /\ pc = "read" /\ ~(Crosses /\ Stays > MaxCacheSize)
        /\ UNCHANGED <<topics, aborted, loadTopics, fetch>>
        /\ pc' \in {"read", "endRange"}
    BY DEF ReadResults
  <2>5. Crosses => sum = Stays - over
    <3> HIDE DEF sum, before, over
    <3> QED
      BY <2>1, <2>2, Zenon
  <2>6. ~Crosses => sum = (total + size) - over
    <3> HIDE DEF sum, before, over, size, more
    <3>1. ~Crosses => sum = more - over
      BY <2>1, <2>3, Zenon
    <3> QED
      BY <3>1 DEF more
  <2> HIDE DEF sum, base, l, size, over, next
  <2> QED
    BY <2>1, <2>4, <2>5, <2>6
<1>2. current \in Blocks
  BY <1>1 DEF IInv, Control, Types, Blocks
<1>3. /\ Asked(fetch) /\ SoundBlocks(blocks) /\ total = CacheSize(blocks)
      /\ CacheSize(blocks) <= MaxCacheSize
  BY <1>1 DEF Counted, Places, CacheBounded
<1>4. /\ SoundBlocks(TrimmedBlocks)
      /\ CacheSize(blocks) \in Nat /\ CacheSize(TrimmedBlocks) \in Nat
  BY <1>3, TrimmedSound
<1>5. /\ SoundBlocks(base) /\ base = [k \in Blocks |-> base[k]]
      /\ CacheSize(base) \in Nat
  <2>1. blocks = [k \in Blocks |-> blocks[k]]
    BY DEF IInv, Types
  <2>2. TrimmedBlocks = [k \in Blocks |-> TrimmedBlocks[k]]
    BY DEF TrimmedBlocks
  <2>3. CASE Crosses
    <3>1. base = TrimmedBlocks
      BY <2>3
    <3> HIDE DEF base
    <3> QED
      BY <1>4, <2>2, <3>1
  <2>4. CASE ~Crosses
    <3>1. base = blocks
      BY <2>4
    <3> HIDE DEF base
    <3> QED
      BY <1>3, <1>4, <2>1, <3>1
  <2> QED
    BY <2>3, <2>4
<1>6. CacheSize(base) + size <= MaxCacheSize
      /\ sum = CacheSize(base) + size - over /\ size \in Nat /\ over \in Nat
  <2>1. size \in Nat /\ over \in Nat
    <3>1. Sound(b, current)
      BY <1>2, <1>5 DEF SoundBlocks
    <3> HIDE DEF b
    <3> QED
      BY <1>2, <1>3, <3>1, LoadedCounts DEF Asked
  <2>2. MaxCacheSize \in Nat
    OBVIOUS
  <2> DEFINE a == CacheSize(TrimmedBlocks)
             c == CacheSize(blocks)
  <2>3. CASE Crosses
    <3>1. CacheSize(base) = a
      BY <2>3
    <3>2. Stays = total + size - (c - a)
      BY DEF Stays
    <3>3. sum = Stays - over /\ ~(Stays > MaxCacheSize)
      <4> HIDE DEF base, size, over, sum
      <4> QED
        BY <1>1, <2>3
    <3>4. total = c /\ c \in Nat /\ a \in Nat
      BY <1>3, <1>4
    <3> HIDE DEF a, c, base, size, over, sum
    <3>5. Stays = a + size
      BY <2>1, <3>2, <3>4
    <3>6. a + size <= MaxCacheSize
      BY <2>1, <2>2, <3>3, <3>4, <3>5
    <3> QED
      BY <2>1, <3>1, <3>3, <3>4, <3>5, <3>6
  <2>4. CASE ~Crosses
    <3>1. CacheSize(base) = c
      BY <2>4
    <3>2. ~(size > 0 /\ total + size >= MaxCacheSize)
      BY <2>4 DEF Crosses
    <3>3. sum = (total + size) - over
      <4> HIDE DEF base, size, over, sum
      <4> QED
        BY <1>1, <2>4
    <3>4. total = c /\ c \in Nat /\ c <= MaxCacheSize
      BY <1>3, <1>4
    <3> HIDE DEF c, base, size, over, sum
    <3>5. c + size <= MaxCacheSize
      BY <2>1, <2>2, <3>2, <3>4
    <3> QED
      BY <2>1, <2>2, <3>1, <3>3, <3>4, <3>5
  <2> QED
    BY <2>3, <2>4
<1> HIDE DEF base
<1>7. /\ Sound(l, current) /\ Exists(l) /\ Held(b) \in Nat /\ Held(l) \in Nat
      /\ Held(l) = Held(b) + size - over
  <2>1. Sound(b, current)
    BY <1>2, <1>5 DEF SoundBlocks
  <2> HIDE DEF b
  <2> QED
    BY <1>2, <1>3, <2>1, LoadedCounts DEF Asked
<1> HIDE DEF l, size, over
<1>8. /\ next[current] = l
      /\ \A k \in Blocks : k # current => next[k] = base[k]
  BY <1>1, <1>2, <1>5
<1>9. SoundBlocks(next)
  BY <1>5, <1>7, <1>8 DEF SoundBlocks
<1>10. CacheSize(next) = CacheSize(base) + size - over
  <2>1. CacheSize(base) + BlockSizes(next)[current]
          = CacheSize(next) + BlockSizes(base)[current]
    <3> HIDE DEF next
    <3> QED
      BY <1>2, <1>5, <1>8, <1>9, CacheReplaced DEF SoundBlocks
  <2>2. BlockSizes(next)[current] = Held(l) /\ BlockSizes(base)[current] = Held(b)
    BY <1>2, <1>8 DEF BlockSizes, Held
  <2> DEFINE a == CacheSize(next)
             c == CacheSize(base)
  <2>3. c + Held(l) = a + Held(b)
    BY <2>1, <2>2
  <2>4. a \in Nat /\ c \in Nat
    <3>1. CacheSize(next) \in Nat
      <4> HIDE DEF next
      <4> QED
        BY <1>9, CacheSizeNat DEF SoundBlocks
    <3> QED
      BY <1>5, <3>1
  <2> HIDE DEF a, c, b, next
  <2>5. a = c + size - over
    BY <1>6, <1>7, <2>3, <2>4
  <2> QED
    BY <2>5 DEF a, c
<1>11. CacheSize(next) \in Nat
  <2> HIDE DEF next
  <2> QED
    BY <1>9, CacheSizeNat DEF SoundBlocks
<1>12. total' = CacheSize(next)
  BY <1>6, <1>10
<1>13. CacheSize(next) <= MaxCacheSize
  <2> DEFINE a == CacheSize(next)
             c == CacheSize(base)
  <2>1. /\ a = c + size - over /\ c + size <= MaxCacheSize
        /\ a \in Nat /\ c \in Nat /\ size \in Nat /\ over \in Nat
    BY <1>5, <1>6, <1>10, <1>11
  <2>2. MaxCacheSize \in Nat
    OBVIOUS
  <2> HIDE DEF a, c
  <2>3. a <= MaxCacheSize
    BY <2>1, <2>2
  <2> QED
    BY <2>3 DEF a
<1>14. Places'
  <2>1. total' \in Nat
    BY <1>11, <1>12
  <2> QED
    BY <1>1, <2>1 DEF Counted, Places, Asked
<1> QED
  BY <1>9, <1>12, <1>13, <1>14 DEF Counted, CacheBounded, SoundBlocks

(* One case for each action.                                                *)
LEMMA NextCounted == IInv /\ Counted /\ [Next]_vars => Counted'
<1> SUFFICES ASSUME IInv, Counted, [Next]_vars PROVE Counted'
  OBVIOUS
<1>1. ASSUME NEW sel \in Selections, SetTopics(sel) PROVE Counted'
  BY <1>1, SetTopicsCounts
<1>2. ASSUME UNCHANGED <<blocks, topics, loadTopics, fetch, total>>,
             aborted' \in BOOLEAN,
             pc' \in {"off", "endAborted", "loaded", "wait", "woken",
                     "stopped", "failed"} \/ pc' = pc
      PROVE  Counted'
  <2>1. CacheSize(blocks') = CacheSize(blocks) /\ SoundBlocks(blocks)'
    BY <1>2 DEF Counted, SoundBlocks, Sound, Exists
  <2> QED
    BY <1>2, <2>1 DEF Counted, Places, Asked, CacheBounded
<1>3. CASE StopLoading
  BY <1>2, <1>3 DEF StopLoading, Notified, load
<1>4. CASE StartLoading \/ LoopAgain
  <2>1. /\ LoadFrom(1, loadTopics') /\ loadTopics' = topics
        /\ aborted' = FALSE /\ total' = CacheSize(blocks)
        /\ UNCHANGED <<blocks, topics>>
    BY <1>4 DEF StartLoading, LoopAgain, LoopTop
  <2>2. topics \in Selections \cup {{}} /\ 1 \in Nat
    BY DEF Counted, Places
  <2> QED
    BY <2>1, <2>2, LoadCounts
<1>5. CASE LoopWaits \/ LoopStops \/ ReadAborted \/ ReadOutdated \/ LoadFails
  BY <1>2, <1>5 DEF LoopWaits, LoopStops, ReadAborted, ReadOutdated, LoadFails,
                    load, Counted, Places
<1>6. CASE ReadResults
  BY <1>6, ReadResultsCounts
<1>7. CASE ReadFull
  BY <1>7, ReadFullCounts
<1>8. CASE CursorEnded /\ pc = "endRange"
  <2>1. /\ LoadFrom(endBlock + 1, loadTopics')
        /\ UNCHANGED <<blocks, topics, aborted, loadTopics, total>>
    BY <1>8 DEF CursorEnded
  <2>2. /\ endBlock + 1 \in Nat /\ total = CacheSize(blocks)
        /\ loadTopics \in Selections \cup {{}} /\ aborted \in BOOLEAN
    BY <1>8 DEF IInv, Types, Counted, Places
  <2> QED
    BY <2>1, <2>2, LoadCounts
<1>9. CASE CursorEnded /\ pc = "endAborted"
  BY <1>2, <1>9 DEF CursorEnded, Counted, Places
<1>10. CASE UNCHANGED vars
  BY <1>2, <1>10 DEF vars, load, Counted, Places
<1> QED
  BY <1>1, <1>3, <1>4, <1>5, <1>6, <1>7, <1>8, <1>9, <1>10
  DEF Next, LoaderStep, CursorEnded

-----------------------------------------------------------------------------
(* The theorems.                                                            *)

(* The strengthened invariant holds in every reachable state.               *)
THEOREM Inductive == Spec => []IInv
  BY InitIInv, NextIInv, PTL DEF Spec

(* No wake-up, abort or change of the selection leaves the loader waiting   *)
(* with something left to load, but for a full cache or a selection that    *)
(* was taken back while its results were on their way.                      *)
THEOREM NothingLeftToLoad == Spec => []LoadedWhenWaiting
<1>1. IInv => LoadedWhenWaiting
  BY DEF IInv, Control, Rested, Steady, LoadedWhenWaiting
<1> QED
  BY <1>1, Inductive, PTL

(* A block holds the messages of a topic of one subscription only, however  *)
(* the subscriptions to it change while it is loaded.                       *)
THEOREM HeldOnce == Spec => []OneSubscription
<1>1. IInv => OneSubscription
  BY DEF IInv, Singles, Single, OneSubscription
<1> QED
  BY <1>1, Inductive, PTL

(* The accounts are right in every reachable state.                         *)
THEOREM CountedAlways == Spec => []Counted
  BY InitCounted, NextCounted, Inductive, PTL DEF Spec

(* Every variable keeps the values the code gives it, and no block's or     *)
(* loader's count goes below zero.                                          *)
THEOREM TypeCorrect == Spec => []TypeOK
<1>1. IInv /\ Counted => TypeOK
  <2> SUFFICES ASSUME IInv, Counted PROVE TypeOK
    OBVIOUS
  <2>1. ASSUME NEW k \in Blocks, Exists(blocks[k])
        PROVE  /\ blocks[k].need \subseteq Subscriptions
               /\ blocks[k].has \subseteq Subscriptions
               /\ blocks[k].size \in Nat
    <3>1. BlockSizes(blocks)[k] = blocks[k].size
      BY <2>1 DEF BlockSizes
    <3>2. BlockSizes(blocks)[k] \in Nat
      BY BlockSizeNat DEF Counted, SoundBlocks
    <3> QED
      BY <2>1, <3>1, <3>2 DEF Counted, SoundBlocks, Sound
  <2> QED
    BY <2>1 DEF IInv, Types, Counted, Places, Asked, TypeOK
<1> QED
  BY <1>1, Inductive, CountedAlways, PTL

(* What the loader counts is what the blocks hold, and never more than the  *)
(* cache may hold, whatever is overridden, removed and asked for anew while *)
(* results are on their way.                                                *)
THEOREM CacheWithinSize == Spec => []CacheAccounted
<1>1. IInv /\ Counted => CacheAccounted
  BY DEF IInv, Singles, Single, Counted, SoundBlocks, Sound, CacheAccounted,
         SizesAgree, OneSubscription
<1> QED
  BY <1>1, Inductive, CountedAlways, PTL

=============================================================================
