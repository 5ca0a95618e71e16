------------------------------ MODULE REProofs ------------------------------
(***************************************************************************)
(* Proofs about PacketCache, for every table, every size of the cache and  *)
(* every sequence of lookups, and about ThreadedRE: the threads and the    *)
(* cache together.                                                         *)
(***************************************************************************)
EXTENDS ThreadedRE, PipelineProofs, WellFoundedInduction

(***************************************************************************)
(* Induction over numbers and finite sets, and sums over finite sets.  A   *)
(* property to prove by induction is given as the set of what has it.      *)
(***************************************************************************)

\* A set of natural numbers that is not empty has a least element.
LEMMA LeastNumber ==
  ASSUME NEW S \in SUBSET Nat, S # {}
  PROVE  \E i \in S : \A j \in S : i <= j
<1>1. PICK i \in S : \A j \in S : ~(<<j, i>> \in OpToRel(<, Nat))
  BY NatLessThanWellFounded, WFMin
<1>2. \A j \in S : ~(j < i)
  BY <1>1 DEF OpToRel
<1> QED
  BY <1>2

\* Induction over the natural numbers, for a property given as a set.
LEMMA NatSetInduction ==
  ASSUME NEW P \in SUBSET Nat, 0 \in P, \A n \in P : n + 1 \in P
  PROVE  \A n \in Nat : n \in P
<1> SUFFICES ASSUME Nat \ P # {} PROVE FALSE
  OBVIOUS
<1>1. PICK n \in Nat \ P : \A m \in Nat \ P : n <= m
  BY LeastNumber
<1>2. n - 1 \in Nat /\ n - 1 \notin Nat \ P
  BY <1>1
<1>3. (n - 1) + 1 \in P
  BY <1>2
<1> QED
  BY <1>1, <1>3

\* Induction over the subsets of a finite set.
LEMMA SubsetInduction ==
  ASSUME NEW S, IsFiniteSet(S), NEW Good, {} \in Good,
         \A T \in SUBSET S : \A x \in S \ T : T \in Good => T \cup {x} \in Good
  PROVE  \A T \in SUBSET S : T \in Good
<1> SUFFICES ASSUME NEW T0 \in SUBSET S, T0 \notin Good PROVE FALSE
  OBVIOUS
<1> DEFINE Bad == {n \in Nat : \E T \in SUBSET S : Cardinality(T) = n /\ T \notin Good}
<1>1. \A T \in SUBSET S : IsFiniteSet(T) /\ Cardinality(T) \in Nat
  BY FS_Subset, FS_CardinalityType
<1>2. Cardinality(T0) \in Bad
  BY <1>1
<1>3. PICK n \in Bad : \A m \in Bad : n <= m
  BY <1>2, LeastNumber
<1>4. PICK T \in SUBSET S : Cardinality(T) = n /\ T \notin Good
  BY <1>3
<1>5. PICK x : x \in T
  BY <1>4
<1>6. Cardinality(T \ {x}) = Cardinality(T) - 1
  BY <1>1, <1>5, FS_RemoveElement
<1>7. T \ {x} \in Good
  <2>1. Cardinality(T \ {x}) \in Nat /\ T \ {x} \in SUBSET S
    BY <1>1
  <2>2. n \in Nat /\ ~(n <= n - 1)
    BY <1>1, <1>4
  <2>3. Cardinality(T \ {x}) \notin Bad
    BY <1>3, <1>4, <1>6, <2>2
  <2> QED
    BY <2>1, <2>3
<1>8. (T \ {x}) \cup {x} \in Good
  BY <1>5, <1>7
<1>9. (T \ {x}) \cup {x} = T
  BY <1>5
<1> QED
  BY <1>4, <1>8, <1>9

-----------------------------------------------------------------------------
(***************************************************************************)
(* Sums over finite sets.  MapThenSumSet takes one element after the other *)
(* from the set, in the order in which CHOOSE picks them; the lemmas say   *)
(* that its value does not depend on this order.                           *)
(***************************************************************************)

Pick(s) == CHOOSE x \in s : TRUE

\* g gives each subset of S the sum of the weights of its elements.
IsSum(g, w, S) ==
  g = [s \in SUBSET S |-> IF s = {} THEN 0 ELSE w[Pick(s)] + g[s \ {Pick(s)}]]

Total(w, S) == (CHOOSE g : IsSum(g, w, S))[S]

\* There is such a sum.
LEMMA SumExists ==
  ASSUME NEW S, IsFiniteSet(S), NEW w
  PROVE  \E g : IsSum(g, w, S)
<1> DEFINE Upto(n) == {s \in SUBSET S : Cardinality(s) <= n}
           Partial(g, n) ==
             g = [s \in Upto(n) |-> IF s = {} THEN 0 ELSE w[Pick(s)] + g[s \ {Pick(s)}]]
           P == {n \in Nat : \E g : Partial(g, n)}
<1>1. \A s \in SUBSET S : IsFiniteSet(s) /\ Cardinality(s) \in Nat
  BY FS_Subset, FS_CardinalityType
<1>2. 0 \in P
  <2> DEFINE g == [s \in Upto(0) |-> 0]
  <2>1. \A s \in Upto(0) : s = {}
    BY <1>1, FS_EmptySet
  <2>2. Partial(g, 0)
    BY <2>1
  <2> QED
    BY <2>2
<1>3. ASSUME NEW n \in P PROVE n + 1 \in P
  <2>1. PICK g : Partial(g, n)
    OBVIOUS
  <2> DEFINE h == [s \in Upto(n + 1) |-> IF s = {} THEN 0 ELSE w[Pick(s)] + g[s \ {Pick(s)}]]
  <2>2. \A s \in Upto(n) : s \in Upto(n + 1) /\ h[s] = g[s]
    <3>1. n \in Nat
      OBVIOUS
    <3>2. \A s \in Upto(n) : s \in Upto(n + 1)
      BY <1>1, <3>1
    <3>3. \A s \in Upto(n) : g[s] = IF s = {} THEN 0 ELSE w[Pick(s)] + g[s \ {Pick(s)}]
      BY <2>1
    <3>4. \A s \in Upto(n + 1) : h[s] = IF s = {} THEN 0 ELSE w[Pick(s)] + g[s \ {Pick(s)}]
      OBVIOUS
    <3> HIDE DEF Upto, h
    <3> QED
      BY <3>2, <3>3, <3>4
  <2>3. \A s \in Upto(n + 1) : s # {} => s \ {Pick(s)} \in Upto(n)
    <3> SUFFICES ASSUME NEW s \in Upto(n + 1), s # {} PROVE s \ {Pick(s)} \in Upto(n)
      OBVIOUS
    <3>1. Pick(s) \in s
      BY DEF Pick
    <3>2. Cardinality(s \ {Pick(s)}) = Cardinality(s) - 1
      BY <1>1, <3>1, FS_RemoveElement
    <3> QED
      BY <1>1, <3>2
  <2>4. \A s \in Upto(n + 1) :
          (IF s = {} THEN 0 ELSE w[Pick(s)] + g[s \ {Pick(s)}])
             = IF s = {} THEN 0 ELSE w[Pick(s)] + h[s \ {Pick(s)}]
    BY <2>2, <2>3
  <2>5. Partial(h, n + 1)
    BY <2>4
  <2>6. n + 1 \in Nat
    OBVIOUS
  <2> HIDE DEF Partial, h
  <2> QED
    BY <2>5, <2>6
<1> HIDE DEF P
<1>4. Cardinality(S) \in P
  BY <1>1, <1>2, <1>3, NatSetInduction DEF P
<1>5. PICK g : Partial(g, Cardinality(S))
  BY <1>4 DEF P
<1>6. Upto(Cardinality(S)) = SUBSET S
  BY FS_Subset
<1> QED
  BY <1>5, <1>6 DEF IsSum

\* Two sums agree on the sets of which they are both sums.
LEMMA SumUnique ==
  ASSUME NEW S, IsFiniteSet(S), NEW T \in SUBSET S, NEW w, NEW g, NEW h,
         IsSum(g, w, S), IsSum(h, w, T)
  PROVE  \A U \in SUBSET T : g[U] = h[U]
<1> DEFINE P == {n \in Nat : \A U \in SUBSET T : Cardinality(U) = n => g[U] = h[U]}
<1>1. \A U \in SUBSET T : IsFiniteSet(U) /\ Cardinality(U) \in Nat /\ U \in SUBSET S
  BY FS_Subset, FS_CardinalityType
<1>2. \A U \in SUBSET T :
        /\ g[U] = IF U = {} THEN 0 ELSE w[Pick(U)] + g[U \ {Pick(U)}]
        /\ h[U] = IF U = {} THEN 0 ELSE w[Pick(U)] + h[U \ {Pick(U)}]
  BY DEF IsSum
<1>3. 0 \in P
  BY <1>1, <1>2, FS_EmptySet
<1>4. ASSUME NEW n \in P PROVE n + 1 \in P
  <2> SUFFICES ASSUME NEW U \in SUBSET T, Cardinality(U) = n + 1 PROVE g[U] = h[U]
    OBVIOUS
  <2>1. U # {}
    <3>1. n \in Nat /\ n + 1 # 0
      OBVIOUS
    <3> QED
      BY <3>1, FS_EmptySet
  <2>2. Pick(U) \in U
    BY <2>1 DEF Pick
  <2>3. Cardinality(U \ {Pick(U)}) = n
    BY <1>1, <2>2, FS_RemoveElement
  <2>4. g[U \ {Pick(U)}] = h[U \ {Pick(U)}]
    BY <2>3
  <2> QED
    BY <1>2, <2>1, <2>4
<1> HIDE DEF P
<1>5. \A n \in Nat : n \in P
  BY <1>3, <1>4, NatSetInduction DEF P
<1> QED
  BY <1>1, <1>5 DEF P

\* The total of a set and of its subsets come from one sum.
LEMMA TotalOfSubset ==
  ASSUME NEW S, IsFiniteSet(S), NEW w
  PROVE  \E g : /\ IsSum(g, w, S)
                /\ \A T \in SUBSET S : Total(w, T) = g[T]
<1>1. PICK g : IsSum(g, w, S)
  BY SumExists
<1>2. ASSUME NEW T \in SUBSET S PROVE Total(w, T) = g[T]
  <2> DEFINE h == CHOOSE f : IsSum(f, w, T)
  <2>1. IsSum(h, w, T)
    BY FS_Subset, SumExists
  <2> HIDE DEF h
  <2>2. g[T] = h[T]
    BY <1>1, <2>1, SumUnique
  <2> QED
    BY <2>2 DEF Total, h
<1> QED
  BY <1>1, <1>2

\* The total of the empty set is zero.
LEMMA TotalEmpty ==
  ASSUME NEW w
  PROVE  Total(w, {}) = 0
<1>1. PICK g : IsSum(g, w, {}) /\ Total(w, {}) = g[{}]
  BY FS_EmptySet, TotalOfSubset
<1> QED
  BY <1>1 DEF IsSum

\* The element that is picked counts for its weight.
LEMMA TotalStep ==
  ASSUME NEW S, IsFiniteSet(S), S # {}, NEW w
  PROVE  Pick(S) \in S /\ Total(w, S) = w[Pick(S)] + Total(w, S \ {Pick(S)})
<1>1. PICK g : IsSum(g, w, S) /\ \A T \in SUBSET S : Total(w, T) = g[T]
  BY TotalOfSubset
<1>2. Pick(S) \in S
  BY DEF Pick
<1>3. g[S] = w[Pick(S)] + g[S \ {Pick(S)}]
  BY <1>1 DEF IsSum
<1> QED
  BY <1>1, <1>2, <1>3

\* A total of natural numbers is a natural number.
LEMMA TotalType ==
  ASSUME NEW D, NEW w \in [D -> Nat], NEW S \in SUBSET D, IsFiniteSet(S)
  PROVE  Total(w, S) \in Nat
<1> DEFINE P == {n \in Nat : \A U \in SUBSET S : Cardinality(U) = n => Total(w, U) \in Nat}
<1>1. \A U \in SUBSET S : IsFiniteSet(U) /\ Cardinality(U) \in Nat
  BY FS_Subset, FS_CardinalityType
<1>2. 0 \in P
  BY <1>1, FS_EmptySet, TotalEmpty
<1>3. ASSUME NEW n \in P PROVE n + 1 \in P
  <2> SUFFICES ASSUME NEW U \in SUBSET S, Cardinality(U) = n + 1 PROVE Total(w, U) \in Nat
    OBVIOUS
  <2>1. n \in Nat /\ n + 1 # 0
    OBVIOUS
  <2>2. U # {}
    BY <2>1, FS_EmptySet
  <2>3. Pick(U) \in U /\ Total(w, U) = w[Pick(U)] + Total(w, U \ {Pick(U)})
    BY <1>1, <2>2, TotalStep
  <2>4. Cardinality(U \ {Pick(U)}) = n
    BY <1>1, <2>1, <2>3, FS_RemoveElement
  <2>5. Total(w, U \ {Pick(U)}) \in Nat
    BY <2>4
  <2> QED
    BY <2>3, <2>5
<1> HIDE DEF P
<1>4. \A n \in Nat : n \in P
  BY <1>2, <1>3, NatSetInduction DEF P
<1> QED
  BY <1>1, <1>4 DEF P

\* So does any other element: the order does not matter.
LEMMA TotalRemove ==
  ASSUME NEW D, NEW w \in [D -> Nat], NEW S \in SUBSET D, IsFiniteSet(S), NEW x \in S
  PROVE  Total(w, S) = w[x] + Total(w, S \ {x})
<1> DEFINE P == {n \in Nat : \A U \in SUBSET S : Cardinality(U) = n =>
                     \A y \in U : Total(w, U) = w[y] + Total(w, U \ {y})}
<1>1. \A U \in SUBSET S : /\ IsFiniteSet(U) /\ Cardinality(U) \in Nat
                          /\ Total(w, U) \in Nat
  BY FS_Subset, FS_CardinalityType, TotalType
<1>2. 0 \in P
  BY <1>1, FS_EmptySet
<1>3. ASSUME NEW n \in P PROVE n + 1 \in P
  <2> SUFFICES ASSUME NEW U \in SUBSET S, Cardinality(U) = n + 1, NEW y \in U
               PROVE  Total(w, U) = w[y] + Total(w, U \ {y})
    OBVIOUS
  <2> DEFINE z == Pick(U)
  <2>1. z \in U /\ Total(w, U) = w[z] + Total(w, U \ {z})
    BY <1>1, TotalStep
  <2> HIDE DEF z
  <2>2. CASE y = z
    BY <2>1, <2>2
  <2>3. CASE y # z
    <3>1. n \in Nat
      OBVIOUS
    <3>2. Cardinality(U \ {z}) = n /\ Cardinality(U \ {y}) = n
      BY <1>1, <2>1, <3>1, FS_RemoveElement
    <3>3. y \in U \ {z} /\ z \in U \ {y}
      BY <2>1, <2>3
    <3> DEFINE V == (U \ {z}) \ {y}
    <3>4. V = (U \ {y}) \ {z} /\ V \in SUBSET S
      OBVIOUS
    <3>5. w[y] \in Nat /\ w[z] \in Nat /\ Total(w, V) \in Nat
      BY <1>1, <2>1, <3>4
    <3>6. Total(w, U \ {z}) = w[y] + Total(w, V)
      BY <3>2, <3>3
    <3>7. Total(w, U \ {y}) = w[z] + Total(w, (U \ {y}) \ {z})
      BY <3>2, <3>3
    <3>8. Total(w, (U \ {y}) \ {z}) = Total(w, V)
      BY <3>4, Zenon
    <3> HIDE DEF V
    <3> QED
      BY <2>1, <3>5, <3>6, <3>7, <3>8
  <2> QED
    BY <2>2, <2>3
<1> HIDE DEF P
<1>4. \A n \in Nat : n \in P
  BY <1>2, <1>3, NatSetInduction DEF P
<1> QED
  BY <1>1, <1>4 DEF P

\* A new element adds its weight.
LEMMA TotalAdd ==
  ASSUME NEW D, NEW w \in [D -> Nat], NEW S \in SUBSET D, IsFiniteSet(S), NEW x \in D \ S
  PROVE  Total(w, S \cup {x}) = Total(w, S) + w[x]
<1> DEFINE T == S \cup {x}
<1>1. IsFiniteSet(T)
  BY FS_AddElement
<1>2. T \ {x} = S /\ T \in SUBSET D /\ x \in T
  OBVIOUS
<1> HIDE DEF T
<1>3. Total(w, T) = w[x] + Total(w, T \ {x})
  BY <1>1, <1>2, TotalRemove
<1>4. Total(w, T \ {x}) = Total(w, S)
  BY <1>2, Zenon
<1>5. Total(w, S) \in Nat /\ w[x] \in Nat
  BY TotalType
<1>6. Total(w, T) = Total(w, S) + w[x]
  BY <1>3, <1>4, <1>5
<1> QED
  BY <1>6 DEF T

\* Sets without a common element add their totals.
LEMMA TotalUnion ==
  ASSUME NEW D, NEW w \in [D -> Nat], NEW S \in SUBSET D, IsFiniteSet(S),
         NEW T \in SUBSET D, IsFiniteSet(T), S \cap T = {}
  PROVE  Total(w, S \cup T) = Total(w, S) + Total(w, T)
<1> DEFINE Good == {U \in SUBSET T : Total(w, S \cup U) = Total(w, S) + Total(w, U)}
<1>1. Total(w, S) \in Nat
  BY TotalType
<1>2. {} \in Good
  <2>1. S \cup {} = S
    OBVIOUS
  <2>2. Total(w, S \cup {}) = Total(w, S)
    BY <2>1, Zenon
  <2>3. Total(w, {}) = 0
    BY TotalEmpty
  <2>4. Total(w, S \cup {}) = Total(w, S) + Total(w, {})
    BY <1>1, <2>2, <2>3
  <2> QED
    BY <2>4
<1>3. ASSUME NEW U \in SUBSET T, NEW x \in T \ U, U \in Good
      PROVE  U \cup {x} \in Good
  <2> DEFINE V == S \cup U
  <2>1. IsFiniteSet(U) /\ U \in SUBSET D /\ x \in D \ U /\ w[x] \in Nat
    BY FS_Subset
  <2>2. IsFiniteSet(V)
    BY <2>1, FS_Union
  <2>3. V \in SUBSET D /\ x \in D \ V
    OBVIOUS
  <2>4. Total(w, V) = Total(w, S) + Total(w, U)
    BY <1>3
  <2>5. S \cup (U \cup {x}) = V \cup {x}
    OBVIOUS
  <2> HIDE DEF V
  <2>6. Total(w, V \cup {x}) = Total(w, V) + w[x]
    BY <2>2, <2>3, TotalAdd
  <2>7. Total(w, U \cup {x}) = Total(w, U) + w[x]
    BY <2>1, TotalAdd
  <2>8. Total(w, U) \in Nat
    BY <2>1, TotalType
  <2>9. Total(w, S \cup (U \cup {x})) = Total(w, V \cup {x})
    BY <2>5, Zenon
  <2>10. Total(w, S \cup (U \cup {x})) = Total(w, S) + Total(w, U \cup {x})
    BY <1>1, <2>1, <2>4, <2>6, <2>7, <2>8, <2>9
  <2> QED
    BY <2>10
<1>4. \A U \in SUBSET T : \A x \in T \ U : U \in Good => U \cup {x} \in Good
  BY <1>3
<1> HIDE DEF Good
<1>5. \A U \in SUBSET T : U \in Good
  BY <1>2, <1>4, SubsetInduction, Zenon
<1>6. T \in Good
  BY <1>5
<1> QED
  BY <1>6 DEF Good

(***************************************************************************)
(* The cache by itself: its sizes, what its chains hold, and that it       *)
(* implements RedundancyFilter.  These theorems are about CacheSpec, whose *)
(* lookups may come in any order, and use nothing of the threads.          *)
(***************************************************************************)

(* The walk.                                                               *)

\* A payload has a bucket in the table.
LEMMA BucketType ==
  ASSUME NEW p \in Payload
  PROVE  Bucket(p) \in Buckets
BY PayloadAssumption, SizeAssumption DEF Bucket, Buckets

\* The walk through a chain stops at one of its nodes.
LEMMA StopType ==
  ASSUME CacheTypeOK, NEW p \in Payload, Chain(p) # <<>>
  PROVE  Stop(p) \in 1..Len(Chain(p))
<1>1. Chain(p) \in Seq(Payload)
  BY BucketType DEF CacheTypeOK, Chain
<1>2. Len(Chain(p)) \in Nat \ {0}
  BY <1>1, EmptySeq
<1>3. CASE Later(p) = {}
  BY <1>2, <1>3 DEF Stop
<1>4. CASE Later(p) # {}
  <2>1. Later(p) \subseteq 2..Len(Chain(p))
    BY DEF Later
  <2>2. \E i \in Later(p) : \A j \in Later(p) : i <= j
    BY <1>2, <1>4, <2>1, LeastNumber
  <2>3. Stop(p) \in Later(p)
    BY <1>4, <2>2 DEF Stop
  <2> QED
    BY <1>2, <2>1, <2>3
<1> QED
  BY <1>3, <1>4

\* So that the walk loses nodes, but never the whole chain.
LEMMA WalkedType ==
  ASSUME CacheTypeOK, NEW p \in Payload, Chain(p) # <<>>
  PROVE  /\ Walked(p) \in Seq(Payload)
         /\ Walked(p) # <<>>
<1>1. Chain(p) \in Seq(Payload)
  BY BucketType DEF CacheTypeOK, Chain
<1>2. Stop(p) \in 1..Len(Chain(p)) /\ Len(Chain(p)) \in Nat
  BY <1>1, StopType
<1>3. \A i \in Stop(p)..Len(Chain(p)) : Chain(p)[i] \in Payload
  BY <1>1, <1>2, ElementOfSeq
<1>4. /\ Walked(p) \in Seq(Payload)
      /\ Len(Walked(p)) = Len(Chain(p)) - Stop(p) + 1
  BY <1>2, <1>3, SubSeqProperties DEF Walked
<1> QED
  BY <1>2, <1>4, EmptySeq

\* What a lookup counts is a number.
LEMMA HitsType ==
  ASSUME NEW p
  PROVE  HitsOf(p) \in Nat
<1>1. IsFiniteSet({1} \cup {Stop(p)})
  BY FS_Singleton, FS_AddElement
<1>2. IsFiniteSet({i \in {1} \cup {Stop(p)} : Match(Chain(p)[i], p)})
  BY <1>1, FS_Subset
<1> QED
  BY <1>2, FS_CardinalityType DEF HitsOf

\* A payload that is found has a chain to be found in.
LEMMA FoundInChain ==
  ASSUME NEW p, Found(p)
  PROVE  Chain(p) # <<>>
BY DEF Found

-----------------------------------------------------------------------------
(* The inductive invariant.                                                *)

\* As soon as a node has been counted some node is in reach.
SomeNodeReachable == totalCacheSize > 0 => NonEmpty # {}

\* Level 1 counts no bytes.
SizeKept == SizeBounded /\ (level = 1 => totalCacheSize = 0)

CacheInv == CacheTypeOK /\ SizeKept /\ SomeNodeReachable

\* A table with a node in the bucket of some payload.
LEMMA SetChainEffect ==
  ASSUME CacheTypeOK, NEW p \in Payload, NEW chain \in Seq(Payload), SetChain(p, chain)
  PROVE  /\ table' \in [Buckets -> Seq(Payload)]
         /\ chain # <<>> => NonEmpty' # {}
<1>1. Bucket(p) \in Buckets
  BY BucketType
<1> QED
  BY <1>1 DEF CacheTypeOK, SetChain, NonEmpty

\* The empty table has an empty chain in each bucket.
LEMMA CacheInvInit == CacheInit => CacheInv
BY EmptySeq, SizeAssumption
   DEF CacheInit, CacheInv, CacheTypeOK, SizeKept, SizeBounded, SomeNodeReachable

\* One lookup, branch by branch.
LEMMA LookupStep ==
  ASSUME CacheInv, NEW p \in Payload, NEW firstIndex, Lookup(p, firstIndex)
  PROVE  CacheInv'
<1> USE SizeAssumption, PayloadAssumption
<1>1. seen' \in SUBSET Payload /\ lookups' \in Nat /\ level' = level
  BY DEF Lookup, CacheInv, CacheTypeOK
<1>2. Chain(p) \in Seq(Payload) /\ Bucket(p) \in Buckets
  BY BucketType DEF CacheInv, CacheTypeOK, Chain
<1>3. ASSUME Chain(p) # <<>>
      PROVE  Walked(p) \in Seq(Payload) /\ Walked(p) # <<>>
  BY <1>3, WalkedType DEF CacheInv
<1>4. \A chain \in Seq(Payload) : /\ Append(chain, p) \in Seq(Payload)
                                  /\ Append(chain, p) # <<>>
  BY AppendProperties
<1>5. CASE Hit(p)
  <2>1. Walked(p) \in Seq(Payload) /\ Walked(p) # <<>>
    BY <1>3, <1>5, FoundInChain DEF Hit
  <2>2. table' \in [Buckets -> Seq(Payload)] /\ NonEmpty' # {}
    BY <1>5, <2>1, SetChainEffect DEF Hit, CacheInv
  <2>3. cacheHits' \in Nat /\ totalDuplicateBytes' \in Nat
    BY <1>5, HitsType DEF Hit, Bytes, CacheInv, CacheTypeOK
  <2> QED
    BY <1>1, <1>5, <2>2, <2>3
       DEF Hit, CacheInv, CacheTypeOK, SizeKept, SizeBounded, SomeNodeReachable
<1>6. CASE Store(p, firstIndex)
  <2>1. table' \in [Buckets -> Seq(Payload)] /\ NonEmpty' # {}
    BY <1>2, <1>4, <1>6, SetChainEffect DEF Store, CacheInv
  <2>2. NodeSize * (allocated + 1) = NodeSize * allocated + NodeSize
    BY DEF CacheInv, CacheTypeOK
  <2>3. SizeKept'
    BY <1>1, <1>6, <2>2 DEF Store, Room, CacheInv, CacheTypeOK, SizeKept, SizeBounded
  <2>4. totalCacheSize' \in Nat /\ allocated' \in Nat
    BY <1>6 DEF Store, CacheInv, CacheTypeOK
  <2> QED
    BY <1>1, <1>6, <2>1, <2>3, <2>4
       DEF Store, counters, CacheInv, CacheTypeOK, SomeNodeReachable
<1>7. CASE EvictOwn(p, firstIndex)
  <2>1. Tail(Walked(p)) \in Seq(Payload)
    BY <1>3, <1>7, HeadTailProperties DEF EvictOwn
  <2>2. table' \in [Buckets -> Seq(Payload)] /\ NonEmpty' # {}
    BY <1>4, <1>7, <2>1, SetChainEffect DEF EvictOwn, CacheInv
  <2> QED
    BY <1>1, <1>7, <2>2
       DEF EvictOwn, counters, CacheInv, CacheTypeOK, SizeKept, SizeBounded, SomeNodeReachable
<1>8. CASE EvictOther(p, firstIndex)
  <2>1. NonEmpty # {}
    BY <1>8 DEF EvictOther, Room, CacheInv, CacheTypeOK, SomeNodeReachable
  <2>2. \E b \in NonEmpty : \A other \in NonEmpty : b <= other
    <3>1. NonEmpty \in SUBSET Nat
      BY DEF NonEmpty, Buckets
    <3> QED
      BY <2>1, <3>1, LeastNumber
  <2>3. Victim \in NonEmpty
    BY <2>2 DEF Victim
  <2>4. Victim \in Buckets /\ Tail(table[Victim]) \in Seq(Payload)
    BY <2>3, HeadTailProperties DEF NonEmpty, CacheInv, CacheTypeOK
  <2>5. <<p>> \in Seq(Payload) /\ <<p>> # <<>>
    OBVIOUS
  <2>6. table' \in [Buckets -> Seq(Payload)] /\ table'[Bucket(p)] = <<p>>
    BY <1>2, <1>8, <2>4, <2>5 DEF EvictOther, CacheInv, CacheTypeOK
  <2>7. NonEmpty' # {}
    BY <1>2, <2>5, <2>6 DEF NonEmpty
  <2> QED
    BY <1>1, <1>8, <2>6, <2>7
       DEF EvictOther, counters, CacheInv, CacheTypeOK, SizeKept, SizeBounded, SomeNodeReachable
<1>9. CASE Pass(p, firstIndex)
  <2>1. CASE Chain(p) = <<>>
    <3>1. table' = table
      BY <1>2, <1>9, <2>1 DEF Pass, SetChain, Chain, CacheInv, CacheTypeOK
    <3> QED
      BY <1>1, <1>9, <3>1
         DEF Pass, counters, CacheInv, CacheTypeOK, SizeKept, SizeBounded, SomeNodeReachable,
             NonEmpty
  <2>2. CASE Chain(p) # <<>>
    <3>1. table' \in [Buckets -> Seq(Payload)] /\ NonEmpty' # {}
      BY <1>3, <1>9, <2>2, SetChainEffect DEF Pass, CacheInv
    <3> QED
      BY <1>1, <1>9, <3>1
         DEF Pass, counters, CacheInv, CacheTypeOK, SizeKept, SizeBounded, SomeNodeReachable
  <2> QED
    BY <2>1, <2>2
<1> QED
  BY <1>5, <1>6, <1>7, <1>8, <1>9 DEF Lookup

\* The chains, the size counter and the nodes allocated agree after any
\* sequence of lookups.
THEOREM CacheInvHolds == CacheSpec => []CacheInv
<1>1. CacheInv /\ [CacheNext \/ CacheIdle]_cacheVars => CacheInv'
  <2> SUFFICES ASSUME CacheInv, [CacheNext \/ CacheIdle]_cacheVars PROVE CacheInv'
    OBVIOUS
  <2>1. CASE CacheNext
    BY <2>1, LookupStep DEF CacheNext
  <2>2. CASE UNCHANGED cacheVars
    BY <2>2 DEF cacheVars, counters, history, CacheInv, CacheTypeOK, SizeKept, SizeBounded,
                SomeNodeReachable, NonEmpty
  <2> QED
    BY <2>1, <2>2 DEF CacheIdle
<1> QED
  BY <1>1, CacheInvInit, PTL DEF CacheSpec

\* Types, with every bucket a chain of payloads.
THEOREM CacheTypeCorrect == CacheSpec => []CacheTypeOK
<1>1. CacheInv => CacheTypeOK
  BY DEF CacheInv
<1> QED
  BY <1>1, CacheInvHolds, PTL

\* Whenever the cache is full its scan for a victim finds one: the walks lose
\* nodes, but leave a node in each bucket that had one.
THEOREM VictimAlwaysExists == CacheSpec => []VictimExists
<1>1. CacheInv => VictimExists
  BY SizeAssumption DEF CacheInv, CacheTypeOK, SomeNodeReachable, VictimExists, Room
<1> QED
  BY <1>1, CacheInvHolds, PTL

\* The size that is kept is that of the nodes allocated, and stays below the
\* limit.
THEOREM SizeIsBounded == CacheSpec => []SizeBounded
<1>1. CacheInv => SizeBounded
  BY DEF CacheInv, SizeKept
<1> QED
  BY <1>1, CacheInvHolds, PTL

-----------------------------------------------------------------------------
(* Chains.                                                                 *)

Elements(s) == {s[i] : i \in DOMAIN s}

\* A chain holds payloads of its bucket, and none that an older entry matches:
\* the order matters, since an entry is compared with a new packet over the
\* bytes of the packet.
ChainOK(b, s) ==
  /\ s \in Seq(Payload)
  /\ \A i \in DOMAIN s : Bucket(s[i]) = b
  /\ \A i, j \in DOMAIN s : i < j => ~Match(s[i], s[j])

ChainsInOrder == \A b \in Buckets : ChainOK(b, table[b])

\* The end of a chain is a chain.
LEMMA SuffixOfChain ==
  ASSUME NEW b, NEW s, ChainOK(b, s), NEW m \in 1..Len(s)
  PROVE  /\ ChainOK(b, SubSeq(s, m, Len(s)))
         /\ Elements(SubSeq(s, m, Len(s))) \subseteq Elements(s)
<1> DEFINE t == SubSeq(s, m, Len(s))
<1>1. s \in Seq(Payload) /\ Len(s) \in Nat /\ DOMAIN s = 1..Len(s)
  BY LenProperties DEF ChainOK
<1>2. \A i \in m..Len(s) : s[i] \in Payload
  BY <1>1, ElementOfSeq
<1>3. /\ t \in Seq(Payload) /\ Len(t) = Len(s) - m + 1
      /\ \A i \in 1..(Len(s) - m + 1) : t[i] = s[m + i - 1]
  BY <1>1, <1>2, SubSeqProperties
<1>4. DOMAIN t = 1..(Len(s) - m + 1)
  BY <1>3, LenProperties
<1> HIDE DEF t
<1>5. \A i \in DOMAIN t : m + i - 1 \in DOMAIN s /\ t[i] = s[m + i - 1]
  BY <1>1, <1>3, <1>4
<1>6. Elements(t) \subseteq Elements(s)
  BY <1>5 DEF Elements
<1>7. \A i, j \in DOMAIN t : i < j => m + i - 1 < m + j - 1
  BY <1>1, <1>4
<1>8. ChainOK(b, t)
  BY <1>3, <1>5, <1>7 DEF ChainOK
<1> QED
  BY <1>6, <1>8 DEF t

\* So is what follows its first node.
LEMMA TailOfChain ==
  ASSUME NEW b, NEW s, ChainOK(b, s), s # <<>>
  PROVE  /\ ChainOK(b, Tail(s))
         /\ Elements(Tail(s)) \subseteq Elements(s)
<1>1. s \in Seq(Payload) /\ Len(s) \in Nat \ {0} /\ DOMAIN s = 1..Len(s)
  BY EmptySeq, LenProperties DEF ChainOK
<1>2. /\ Tail(s) \in Seq(Payload) /\ DOMAIN Tail(s) = 1..(Len(s) - 1)
      /\ \A i \in DOMAIN Tail(s) : Tail(s)[i] = s[i + 1]
  BY <1>1, HeadTailProperties, LenProperties
<1>3. \A i \in DOMAIN Tail(s) : i + 1 \in DOMAIN s /\ Tail(s)[i] = s[i + 1]
  BY <1>1, <1>2
<1>4. \A i, j \in DOMAIN Tail(s) : i < j => i + 1 < j + 1
  BY <1>1, <1>2
<1>5. Elements(Tail(s)) \subseteq Elements(s)
  BY <1>3 DEF Elements
<1>6. ChainOK(b, Tail(s))
  BY <1>2, <1>3, <1>4 DEF ChainOK
<1> QED
  BY <1>5, <1>6

\* A payload that no node matches can be added at the end.
LEMMA LongerChain ==
  ASSUME NEW b, NEW s, ChainOK(b, s), NEW p \in Payload, Bucket(p) = b,
         \A e \in Elements(s) : ~Match(e, p)
  PROVE  /\ ChainOK(b, Append(s, p))
         /\ Elements(Append(s, p)) = Elements(s) \cup {p}
<1> DEFINE t == Append(s, p)
<1>1. s \in Seq(Payload) /\ Len(s) \in Nat /\ DOMAIN s = 1..Len(s)
  BY LenProperties DEF ChainOK
<1>2. /\ t \in Seq(Payload) /\ Len(t) = Len(s) + 1
      /\ \A i \in 1..Len(s) : t[i] = s[i]
      /\ t[Len(s) + 1] = p
  BY <1>1, AppendProperties
<1>3. DOMAIN t = 1..(Len(s) + 1)
  BY <1>2, LenProperties
<1> HIDE DEF t
<1>4. \A i \in DOMAIN t : \/ i \in DOMAIN s /\ t[i] = s[i]
                          \/ i = Len(s) + 1 /\ t[i] = p
  BY <1>1, <1>2, <1>3
<1>5. \A i \in DOMAIN s : i \in DOMAIN t /\ t[i] = s[i] /\ s[i] \in Elements(s)
  BY <1>1, <1>2, <1>3 DEF Elements
<1>6. Elements(t) = Elements(s) \cup {p}
  BY <1>1, <1>2, <1>3, <1>4, <1>5 DEF Elements
<1>7. \A i, j \in DOMAIN t : i < j => ~Match(t[i], t[j])
  <2> SUFFICES ASSUME NEW i \in DOMAIN t, NEW j \in DOMAIN t, i < j
               PROVE  ~Match(t[i], t[j])
    OBVIOUS
  <2>1. i \in DOMAIN s /\ t[i] = s[i]
    BY <1>1, <1>3, <1>4
  <2>2. CASE j \in DOMAIN s
    BY <1>4, <1>5, <2>1, <2>2 DEF ChainOK
  <2>3. CASE j \notin DOMAIN s
    BY <1>4, <1>5, <2>1, <2>3
  <2> QED
    BY <2>2, <2>3
<1>8. ChainOK(b, t)
  BY <1>2, <1>4, <1>7 DEF ChainOK
<1> QED
  BY <1>6, <1>8 DEF t

\* The walk leaves the end of a chain behind.
LEMMA WalkedChain ==
  ASSUME CacheTypeOK, ChainsInOrder, NEW p \in Payload, Chain(p) # <<>>
  PROVE  /\ ChainOK(Bucket(p), Walked(p))
         /\ Elements(Walked(p)) \subseteq Elements(Chain(p))
<1>1. Bucket(p) \in Buckets /\ ChainOK(Bucket(p), Chain(p))
  BY BucketType DEF ChainsInOrder, Chain
<1>2. Stop(p) \in 1..Len(Chain(p))
  BY StopType
<1> QED
  BY <1>1, <1>2, SuffixOfChain DEF Walked

-----------------------------------------------------------------------------
(* One lookup.                                                             *)

\* Every chain stays in order, and what enters the table is the payload that
\* was looked up and not found.
LookupKeepsOrder(p) ==
  \A b \in Buckets :
    /\ ChainOK(b, table'[b])
    /\ Elements(table'[b]) \subseteq Elements(table[b]) \cup (IF Found(p) THEN {} ELSE {p})

\* The bucket of the payload gets a chain in order, the others keep theirs.
LEMMA OneChainChanges ==
  ASSUME CacheTypeOK, ChainsInOrder, NEW p \in Payload, NEW chain,
         SetChain(p, chain), ChainOK(Bucket(p), chain),
         Elements(chain) \subseteq Elements(Chain(p)) \cup (IF Found(p) THEN {} ELSE {p})
  PROVE  LookupKeepsOrder(p)
<1>1. Bucket(p) \in Buckets
  BY BucketType
<1>2. \A b \in Buckets : table'[b] = IF b = Bucket(p) THEN chain ELSE table[b]
  BY <1>1 DEF SetChain, CacheTypeOK
<1> QED
  BY <1>1, <1>2 DEF LookupKeepsOrder, ChainsInOrder, Chain

\* Branch by branch.
LEMMA LookupOrder ==
  ASSUME CacheInv, ChainsInOrder, NEW p \in Payload, NEW firstIndex,
         Lookup(p, firstIndex)
  PROVE  LookupKeepsOrder(p)
<1>1. CacheTypeOK /\ Bucket(p) \in Buckets /\ ChainOK(Bucket(p), Chain(p))
  BY BucketType DEF CacheInv, ChainsInOrder, Chain
<1>2. ASSUME ~Found(p) PROVE \A e \in Elements(Chain(p)) : ~Match(e, p)
  BY <1>2 DEF Found, Elements
<1>3. CASE Hit(p)
  <2>1. Chain(p) # <<>>
    BY <1>3, FoundInChain DEF Hit
  <2> QED
    BY <1>1, <1>3, <2>1, WalkedChain, OneChainChanges DEF Hit
<1>4. CASE Store(p, firstIndex)
  BY <1>1, <1>2, <1>4, LongerChain, OneChainChanges DEF Store
<1>5. CASE EvictOwn(p, firstIndex)
  <2>1. /\ ChainOK(Bucket(p), Walked(p)) /\ Walked(p) # <<>>
        /\ Elements(Walked(p)) \subseteq Elements(Chain(p))
    BY <1>1, <1>5, WalkedChain, WalkedType DEF EvictOwn
  <2>2. /\ ChainOK(Bucket(p), Tail(Walked(p)))
        /\ Elements(Tail(Walked(p))) \subseteq Elements(Chain(p))
    BY <2>1, TailOfChain
  <2>3. /\ ChainOK(Bucket(p), Append(Tail(Walked(p)), p))
        /\ Elements(Append(Tail(Walked(p)), p)) = Elements(Tail(Walked(p))) \cup {p}
    BY <1>2, <1>5, <2>2, LongerChain DEF EvictOwn
  <2> QED
    BY <1>1, <1>5, <2>2, <2>3, OneChainChanges DEF EvictOwn
<1>6. CASE EvictOther(p, firstIndex)
  <2>1. NonEmpty # {}
    BY <1>6, SizeAssumption DEF EvictOther, Room, CacheInv, CacheTypeOK, SomeNodeReachable
  <2>2. \E b \in NonEmpty : \A other \in NonEmpty : b <= other
    <3>1. NonEmpty \in SUBSET Nat
      BY SizeAssumption DEF NonEmpty, Buckets
    <3> QED
      BY <2>1, <3>1, LeastNumber
  <2>3. Victim \in NonEmpty
    BY <2>2 DEF Victim
  <2>4. Victim \in Buckets /\ table[Victim] # <<>> /\ Victim # Bucket(p)
    BY <1>6, <2>3 DEF NonEmpty, EvictOther, Chain
  <2>5. /\ ChainOK(Victim, Tail(table[Victim]))
        /\ Elements(Tail(table[Victim])) \subseteq Elements(table[Victim])
    BY <2>4, TailOfChain DEF ChainsInOrder
  <2>6. ChainOK(Bucket(p), <<p>>) /\ Elements(<<p>>) = {p}
    BY DEF ChainOK, Elements
  <2>7. \A b \in Buckets :
          table'[b] = IF b = Bucket(p) THEN <<p>>
                      ELSE IF b = Victim THEN Tail(table[Victim]) ELSE table[b]
    BY <1>1, <1>6, <2>4 DEF EvictOther, CacheTypeOK
  <2>8. ~Found(p)
    BY <1>6 DEF EvictOther
  <2> QED
    BY <2>5, <2>6, <2>7, <2>8 DEF LookupKeepsOrder, ChainsInOrder
<1>7. CASE Pass(p, firstIndex)
  <2>1. CASE Chain(p) = <<>>
    BY <1>1, <1>7, <2>1, OneChainChanges DEF Pass
  <2>2. CASE Chain(p) # <<>>
    BY <1>1, <1>7, <2>2, WalkedChain, OneChainChanges DEF Pass
  <2> QED
    BY <2>1, <2>2
<1> QED
  BY <1>3, <1>4, <1>5, <1>6, <1>7 DEF Lookup

\* The chains are in order, always.
THEOREM ChainsStayInOrder == CacheSpec => []ChainsInOrder
<1>1. CacheInit => ChainsInOrder
  BY EmptySeq DEF CacheInit, ChainsInOrder, ChainOK
<1>2. CacheInv /\ ChainsInOrder /\ [CacheNext \/ CacheIdle]_cacheVars => ChainsInOrder'
  <2> SUFFICES ASSUME CacheInv, ChainsInOrder, [CacheNext \/ CacheIdle]_cacheVars
               PROVE  ChainsInOrder'
    OBVIOUS
  <2>1. CASE CacheNext
    BY <2>1, LookupOrder DEF CacheNext, LookupKeepsOrder, ChainsInOrder
  <2>2. CASE UNCHANGED cacheVars
    BY <2>2 DEF cacheVars, ChainsInOrder
  <2> QED
    BY <2>1, <2>2 DEF CacheIdle
<1> QED
  BY <1>1, <1>2, CacheInvHolds, PTL DEF CacheSpec
-----------------------------------------------------------------------------
(* What memcmp has to do with equality.                                    *)

(***************************************************************************)
(* A match compares an entry and a packet over the bytes of the packet.    *)
(* That is equality for windows, which have all 64 bytes, and for payloads *)
(* as long as no two payloads of different length have the same 32-bit     *)
(* hash and a common beginning.  Then a match is symmetric and transitive. *)
(***************************************************************************)
MatchIsSymmetric  == \A p, q \in Payload : Match(p, q) => Match(q, p)
MatchIsTransitive == \A p, q, r \in Payload : Match(p, q) /\ Match(q, r) => Match(p, r)

\* A chain holds payloads of its own bucket and no two that match.
THEOREM ChainsAreSound ==
  ASSUME MatchIsSymmetric
  PROVE  CacheSpec => []ChainsSound
<1>1. CacheTypeOK /\ ChainsInOrder => ChainsSound
  <2> SUFFICES ASSUME CacheTypeOK, ChainsInOrder, NEW b \in Buckets,
                      NEW i \in DOMAIN table[b], NEW j \in DOMAIN table[b]
               PROVE  /\ Bucket(table[b][i]) = b
                      /\ Match(table[b][i], table[b][j]) => i = j
    BY DEF ChainsSound
  <2>1. ChainOK(b, table[b]) /\ i \in Nat /\ j \in Nat
    BY LenProperties DEF ChainsInOrder, ChainOK
  <2>2. table[b][i] \in Payload /\ table[b][j] \in Payload
    BY <2>1, ElementOfSeq, LenProperties DEF ChainOK
  <2>3. i < j => ~Match(table[b][i], table[b][j])
    BY <2>1 DEF ChainOK
  <2>4. j < i => ~Match(table[b][i], table[b][j])
    BY <2>1, <2>2 DEF ChainOK, MatchIsSymmetric
  <2> QED
    BY <2>1, <2>3, <2>4 DEF ChainOK
<1>2. CacheInv => CacheTypeOK
  BY DEF CacheInv
<1> QED
  BY <1>1, <1>2, CacheInvHolds, ChainsStayInOrder, PTL

-----------------------------------------------------------------------------
(* The cache implements RedundancyFilter.                                  *)

\* A payload is found in its chain if and only if the table holds a payload
\* that it matches: the walk starts at the first node that is left.
LEMMA FoundIsKnown ==
  ASSUME CacheTypeOK, ChainsInOrder, NEW p \in Payload
  PROVE  Found(p) <=> Filter!Known(p)
<1>1. Bucket(p) \in Buckets
  BY BucketType
<1>2. ASSUME NEW i \in DOMAIN Chain(p), Match(Chain(p)[i], p)
      PROVE  Filter!Known(p)
  <2>1. Chain(p)[i] \in Payload
    BY <1>1, ElementOfSeq, LenProperties DEF CacheTypeOK, Chain
  <2>2. Chain(p)[i] \in Cached
    BY <1>1 DEF Cached, Chain
  <2> QED
    BY <1>2, <2>1, <2>2 DEF Filter!Known
<1>3. ASSUME NEW e \in Cached, e \in Payload, Match(e, p)
      PROVE  Found(p)
  <2>1. PICK b \in Buckets : \E i \in DOMAIN table[b] : e = table[b][i]
    BY DEF Cached
  <2>2. Bucket(e) = b
    BY <2>1 DEF ChainsInOrder, ChainOK
  <2>3. b = Bucket(p)
    BY <1>3, <2>2 DEF Match, Bucket
  <2> QED
    BY <1>3, <2>1, <2>3 DEF Found, Chain
<1> QED
  BY <1>2, <1>3 DEF Found, Filter!Known

\* A lookup that finds its payload counts it once.
LEMMA OneHit ==
  ASSUME MatchIsSymmetric, MatchIsTransitive, CacheTypeOK, ChainsInOrder,
         NEW p \in Payload, Found(p)
  PROVE  HitsOf(p) = 1
<1> DEFINE places == {i \in {1} \cup {Stop(p)} : Match(Chain(p)[i], p)}
<1>1. ChainOK(Bucket(p), Chain(p))
  BY BucketType DEF ChainsInOrder, Chain
<1>2. Len(Chain(p)) \in Nat /\ DOMAIN Chain(p) = 1..Len(Chain(p))
  BY <1>1, LenProperties DEF ChainOK
<1>3. \A i, j \in DOMAIN Chain(p) : Match(Chain(p)[i], p) /\ Match(Chain(p)[j], p) => i = j
  <2> SUFFICES ASSUME NEW i \in DOMAIN Chain(p), NEW j \in DOMAIN Chain(p),
                      Match(Chain(p)[i], p), Match(Chain(p)[j], p), i < j
               PROVE  FALSE
    BY <1>2
  <2>1. Chain(p)[i] \in Payload /\ Chain(p)[j] \in Payload
    BY <1>1, <1>2, ElementOfSeq DEF ChainOK
  <2>2. Match(Chain(p)[i], Chain(p)[j])
    BY <2>1 DEF MatchIsSymmetric, MatchIsTransitive
  <2> QED
    BY <1>1, <2>2 DEF ChainOK
<1>4. PICK k \in DOMAIN Chain(p) : Match(Chain(p)[k], p)
  BY DEF Found
<1>5. 1 \in DOMAIN Chain(p) /\ Stop(p) \in DOMAIN Chain(p)
  BY <1>2, <1>4, StopType
<1>6. k = 1 \/ k = Stop(p)
  <2>1. CASE k # 1
    <3>1. k \in Later(p)
      BY <1>2, <1>4, <2>1 DEF Later
    <3>2. Later(p) = {k}
      BY <1>2, <1>3, <1>4, <3>1 DEF Later
    <3>3. (CHOOSE i \in {k} : \A j \in {k} : i <= j) = k
      BY <1>2
    <3> QED
      BY <3>2, <3>3 DEF Stop
  <2> QED
    BY <2>1
<1>7. places = {k}
  BY <1>3, <1>4, <1>5, <1>6
<1> QED
  BY <1>7, FS_Singleton DEF HitsOf

\* A lookup is a report of the filter, or what it learns.
LEMMA FilterStep ==
  ASSUME MatchIsSymmetric, MatchIsTransitive, CacheInv, ChainsInOrder,
         NEW p \in Payload, NEW firstIndex, Lookup(p, firstIndex)
  PROVE  Filter!Next
<1>1. CacheTypeOK /\ level' = level
  BY DEF CacheInv, Lookup
<1>2. Cached' \subseteq Cached \cup (IF Found(p) THEN {} ELSE {p})
  <2>1. \A b \in Buckets : Elements(table'[b])
                              \subseteq Elements(table[b]) \cup (IF Found(p) THEN {} ELSE {p})
    BY LookupOrder DEF LookupKeepsOrder
  <2> QED
    BY <2>1 DEF Cached, Elements
<1>3. Found(p) <=> Filter!Known(p)
  BY <1>1, FoundIsKnown
<1>4. CASE Found(p)
  <2>1. Hit(p)
    BY <1>4 DEF Lookup, Store, EvictOwn, EvictOther, Pass
  <2>2. cacheHits' = cacheHits + 1
    BY <1>1, <1>4, <2>1, OneHit DEF Hit
  <2>3. Filter!Report(p)
    BY <1>1, <1>2, <1>3, <1>4, <2>1, <2>2
       DEF Hit, Bytes, CacheTypeOK, Filter!Report
  <2> QED
    BY <1>1, <2>3 DEF Filter!Next
<1>5. CASE ~Found(p)
  <2>1. UNCHANGED counters
    BY <1>5 DEF Lookup, Hit, Store, EvictOwn, EvictOther, Pass
  <2>2. Filter!Learn(p)
    BY <1>2, <1>3, <1>5, <2>1 DEF counters, Filter!Learn
  <2> QED
    BY <1>1, <2>2 DEF Filter!Next
<1> QED
  BY <1>4, <1>5

\* The cache is a filter that may forget: it reports a payload exactly when it
\* holds one that matches, counts it once and with its bytes, and learns no
\* other payload than the one looked up.
THEOREM CacheImplementsFilter ==
  ASSUME MatchIsSymmetric, MatchIsTransitive
  PROVE  CacheSpec => FilterSpec
<1>1. CacheInit => Filter!Init
  <2> SUFFICES ASSUME CacheInit PROVE Filter!Init
    OBVIOUS
  <2>1. Cached = {}
    BY DEF CacheInit, Cached
  <2> QED
    BY <2>1 DEF CacheInit, Filter!Init
<1>2. CacheInv /\ ChainsInOrder /\ [CacheNext \/ CacheIdle]_cacheVars
        => [Filter!Next]_(Filter!filterVars)
  <2> SUFFICES ASSUME CacheInv, ChainsInOrder, [CacheNext \/ CacheIdle]_cacheVars
               PROVE  [Filter!Next]_(Filter!filterVars)
    OBVIOUS
  <2>1. CASE CacheNext
    BY <2>1, FilterStep DEF CacheNext
  <2>2. CASE UNCHANGED cacheVars
    BY <2>2 DEF cacheVars, counters, Cached, Filter!filterVars
  <2> QED
    BY <2>1, <2>2 DEF CacheIdle
<1> QED
  BY <1>1, <1>2, CacheInvHolds, ChainsStayInOrder, PTL
     DEF CacheSpec, FilterSpec, Filter!Spec

(***************************************************************************)
(* The threads and the cache together.                                     *)
(***************************************************************************)

(* What entries weigh.                                                     *)

\* What each entry weighs.
Weights == [e \in Entry |-> Bytes(Content[e])]

\* The bytes of a set of entries are its total.
LEMMA BytesAsTotal ==
  ASSUME NEW S \in SUBSET Entry
  PROVE  BytesOf(S) = Total(Weights, S)
<1> DEFINE It(g) ==
             g = [s \in SUBSET S |->
                    IF s = {} THEN 0
                    ELSE Bytes(Content[CHOOSE x \in s : TRUE]) + g[s \ {CHOOSE x \in s : TRUE}]]
<1>1. BytesOf(S) = (CHOOSE g : It(g))[S]
  BY Zenon DEF BytesOf, MapThenSumSet, MapThenFoldSet
<1>2. \A g : It(g) <=> IsSum(g, Weights, S)
  <2> SUFFICES ASSUME NEW g PROVE It(g) <=> IsSum(g, Weights, S)
    OBVIOUS
  <2>1. \A s \in SUBSET S : s # {} => Pick(s) \in Entry
    BY DEF Pick
  <2>2. [s \in SUBSET S |->
           IF s = {} THEN 0
           ELSE Bytes(Content[CHOOSE x \in s : TRUE]) + g[s \ {CHOOSE x \in s : TRUE}]]
        = [s \in SUBSET S |-> IF s = {} THEN 0 ELSE Weights[Pick(s)] + g[s \ {Pick(s)}]]
    BY <2>1 DEF Pick, Weights
  <2> QED
    BY <2>2 DEF IsSum
<1> HIDE DEF It
<1>3. (CHOOSE g : It(g)) = CHOOSE g : IsSum(g, Weights, S)
  BY <1>2, Zenon
<1> QED
  BY <1>1, <1>3 DEF Total

\* What an entry and a payload weigh is a natural number.
LEMMA WeightsType ==
  /\ Weights \in [Entry -> Nat]
  /\ \A p \in Payload : Bytes(p) \in Nat
  /\ Content \in [Entry -> Payload]
BY ContentAssumption, PayloadAssumption DEF Weights, Bytes

-----------------------------------------------------------------------------
(* The steps of ThreadedRE.                                                *)

\* Every step of ThreadedRE is a step of its threads.
LEMMA ThreadsStep ==
  ASSUME [RENext]_reVars
  PROVE  [Next]_vars
<1>1. CASE UNCHANGED reVars
  BY <1>1 DEF reVars
<1>2. CASE RENext
  BY <1>2 DEF RENext, ProducerPush, ConsumerLookup, Alone, OtherProducerStep,
              OtherConsumerStep, Next, ProducerStep, ConsumerStep, Terminated
<1> QED
  BY <1>1, <1>2

\* The threads of ThreadedRE keep the invariants of Pipeline.
THEOREM ThreadsOfRE == RESpec => Spec
<1>1. REInit => Init
  BY DEF REInit
<1> QED
  BY <1>1, ThreadsStep, PTL DEF RESpec, Spec

\* So what is proved of the threads alone holds of the whole program.
THEOREM PipelineInRE ==
  RESpec => /\ []Inv /\ []FlowInv
            /\ []Conservation /\ []NoStrandedWork /\ []FilesDone /\ []BufferBounded
            /\ FlowSpec
BY ThreadsOfRE, InvHolds, FlowInvHolds, NothingLostOrRepeated, NoWorkIsStranded,
   FilesAreDone, BufferIsBounded, PipelineImplementsFlow, PTL

\* The cache is looked up for an entry that has not been processed before.
LookupOf(e) ==
  /\ e \in Entry /\ e \notin processed
  /\ processed' = processed \cup {e}
  /\ Lookup(Content[e], FirstIndex(e))
  /\ UNCHANGED <<Pushed, totalBytes>>

\* The producer counts the bytes of a record with none of whose entries
\* anybody has had to do.
PushOf(S) ==
  /\ S \in SUBSET Entry /\ S \cap Pushed = {}
  /\ Pushed' = Pushed \cup S
  /\ totalBytes' = totalBytes + BytesOf(S)
  /\ UNCHANGED <<cacheVars, processed>>

\* A step that neither looks up nor counts.
OtherStep == UNCHANGED <<cacheVars, totalBytes, Pushed, processed>>

\* A consumer's lookup.
LEMMA LookupCase ==
  ASSUME Inv, FlowInv, NEW c \in Consumers, ConsumerLookup(c)
  PROVE  \E e \in Entry : LookupOf(e)
<1>1. ConsProcess(c) /\ [Next]_vars
  BY DEF ConsumerLookup, Next, ConsumerStep
<1>2. packet[c] \in Entry
  BY <1>1 DEF Inv, TypeOK, NoEmptyPop, ConsProcess
<1>3. packet[c] \notin processed
  BY DEF FlowInv, OnePlace, Processed
<1>4. ~ProdPush
  BY <1>1 DEF ConsProcess, ProdPush
<1>5. \A e \in Entry : e \in Pushed' <=> e \in Pushed
  BY <1>1, <1>4, PushedStep DEF FlowInv
<1>6. Pushed' = Pushed
  BY <1>5 DEF Pushed
<1> QED
  BY <1>1, <1>2, <1>3, <1>6 DEF LookupOf, ConsumerLookup, ConsProcess

\* The producer's push.
LEMMA PushCase ==
  ASSUME Inv, FlowInv, ProducerPush
  PROVE  \E S : PushOf(S)
<1> DEFINE S == {Batch(file, rec)[w] : w \in 1..Files[file][rec]}
<1>1. ProdPush /\ [Next]_vars /\ UNCHANGED processed
  BY DEF ProducerPush, Next, ProducerStep, ProdPush, workVars
<1>2. file \in DOMAIN Files /\ rec \in DOMAIN Files[file]
  BY <1>1, FilesAssumption, RecordsType
     DEF Inv, ProdPush, MainOrder, TypeOK, Records, MainControl
<1>3. DOMAIN Batch(file, rec) = 1..Files[file][rec]
  BY DEF Batch
<1>4. \A e \in Entry : e \in S <=> e[1] = file /\ e[2] = rec
  <2>1. \A e : e \in S <=> \E i \in DOMAIN Batch(file, rec) : Batch(file, rec)[i] = e
    BY <1>3
  <2>2. \A e \in Entry : (\E i \in DOMAIN Batch(file, rec) : Batch(file, rec)[i] = e)
                            <=> e[1] = file /\ e[2] = rec
    BY <1>2, BatchEntries
  <2> QED
    BY <2>1, <2>2
<1>5. S \subseteq Entry
  <2>1. \A i \in DOMAIN Batch(file, rec) : Batch(file, rec)[i] = <<file, rec, i>>
    BY DEF Batch
  <2> QED
    BY <1>2, <1>3, <2>1, EntryIntro
<1>6. \A e \in Entry : e \in Pushed' <=> e \in Pushed \/ e \in S
  BY <1>1, <1>4, PushedStep DEF FlowInv
<1>7. \A e \in S : e \notin Pushed
  BY <1>1, <1>4, <1>5 DEF Pushed, ProdPush, Inv, TypeOK
<1>8. Pushed' = Pushed \cup S
  <2>1. Pushed \subseteq Entry /\ Pushed' \subseteq Entry
    BY DEF Pushed
  <2> QED
    BY <1>5, <1>6, <2>1
<1>9. totalBytes' = totalBytes + BytesOf(S)
  BY DEF ProducerPush, BatchBytes
<1> HIDE DEF S
<1>10. PushOf(S)
  BY <1>1, <1>5, <1>7, <1>8, <1>9 DEF PushOf, ProducerPush
<1> QED
  BY <1>10

\* All other steps.
LEMMA OtherCase ==
  ASSUME Inv, FlowInv, [RENext]_reVars, ~ProducerPush,
         \A c \in Consumers : ~ConsumerLookup(c)
  PROVE  OtherStep
<1>1. UNCHANGED <<cacheVars, totalBytes>>
  BY DEF RENext, reVars, Alone, Terminated
<1>2. ~ProdPush /\ UNCHANGED processed
  <2>1. CASE UNCHANGED reVars \/ Alone(Terminated)
    BY <2>1 DEF reVars, Alone, Terminated, vars, threadVars, workVars, ProdPush
  <2>2. CASE Alone(ProdRead \/ ProdLock \/ ProdWait \/ ProdFinish \/ SpuriousProd)
    BY <2>2 DEF Alone, ProdRead, ProdLock, ProdWait, ProdFinish, SpuriousProd, ProdPush,
                Full, workVars
  <2>3. CASE \E c \in Consumers : Alone(ConsLock(c) \/ ConsCheck(c) \/ ConsWait(c) \/ ConsPop(c)
                                         \/ ConsCount(c) \/ SpuriousCons(c))
    BY <2>3 DEF Alone, ConsLock, ConsCheck, ConsWait, ConsPop, ConsCount, SpuriousCons,
                ProdPush, workVars
  <2>4. CASE Alone(MainStep)
    BY <2>4 DEF Alone, MainStep, MainOpen, MainJoinProd, MainSignal, MainDrained, MainBroadcast,
                MainJoinCons, MainReport, ProdPush, workVars, Inv, MainOrder
  <2> QED
    BY <2>1, <2>2, <2>3, <2>4 DEF RENext, OtherProducerStep, OtherConsumerStep, Alone
<1>3. \A e \in Entry : e \in Pushed' <=> e \in Pushed
  BY <1>2, ThreadsStep, PushedStep DEF FlowInv
<1>4. Pushed' = Pushed
  BY <1>3 DEF Pushed
<1> QED
  BY <1>1, <1>2, <1>4 DEF OtherStep

\* These are all the steps there are.
LEMMA REStepCases ==
  ASSUME Inv, FlowInv, [RENext]_reVars
  PROVE  (\E e \in Entry : LookupOf(e)) \/ (\E S : PushOf(S)) \/ OtherStep
<1>1. CASE ProducerPush
  BY <1>1, PushCase
<1>2. CASE \E c \in Consumers : ConsumerLookup(c)
  BY <1>2, LookupCase
<1>3. CASE ~ProducerPush /\ \A c \in Consumers : ~ConsumerLookup(c)
  BY <1>3, OtherCase
<1> QED
  BY <1>1, <1>2, <1>3

\* The invariant of the cache holds in the whole program, whatever the order
\* in which the consumers come to it.
THEOREM CacheInvOfRE == RESpec => [](CacheInv /\ ChainsInOrder)
<1>1. REInit => CacheInv /\ ChainsInOrder
  BY CacheInvInit, EmptySeq DEF REInit, CacheInit, ChainsInOrder, ChainOK
<1>2. Inv /\ FlowInv /\ CacheInv /\ ChainsInOrder /\ [RENext]_reVars => (CacheInv /\ ChainsInOrder)'
  <2> SUFFICES ASSUME Inv, FlowInv, CacheInv, ChainsInOrder, [RENext]_reVars
               PROVE  CacheInv' /\ ChainsInOrder'
    OBVIOUS
  <2>1. ASSUME NEW e \in Entry, LookupOf(e)
        PROVE  CacheInv' /\ ChainsInOrder'
    <3>1. Content[e] \in Payload
      BY WeightsType
    <3>2. Lookup(Content[e], FirstIndex(e))
      BY <2>1 DEF LookupOf
    <3> QED
      BY <3>1, <3>2, LookupStep, LookupOrder DEF LookupKeepsOrder, ChainsInOrder
  <2>2. CASE UNCHANGED cacheVars
    BY <2>2 DEF cacheVars, counters, history, CacheInv, ChainsInOrder, CacheTypeOK, SizeKept,
                SizeBounded, SomeNodeReachable, NonEmpty
  <2> QED
    BY <2>1, <2>2, REStepCases DEF PushOf, OtherStep
<1> QED
  BY <1>1, <1>2, ThreadsOfRE, InvHolds, FlowInvHolds, PTL DEF RESpec

-----------------------------------------------------------------------------
(* Bytes.                                                                  *)

\* What has been pushed has been counted, and no more bytes have been found
\* duplicate than have been processed.
BytesInv ==
  /\ totalBytes = Total(Weights, Pushed)
  /\ totalDuplicateBytes <= Total(Weights, processed)

\* The total of a set of entries, and of one with a new entry.
LEMMA EntryTotals ==
  ASSUME NEW S \in SUBSET Entry, IsFiniteSet(S)
  PROVE  /\ Total(Weights, S) \in Nat
         /\ \A e \in Entry \ S : Total(Weights, S \cup {e}) = Total(Weights, S) + Weights[e]
BY WeightsType, TotalType, TotalAdd

\* The level is fixed from the start, and with it what entries weigh.
LEMMA WeightsStay ==
  ASSUME level' = level
  PROVE  Weights' = Weights /\ \A p : Bytes(p)' = Bytes(p)
BY DEF Weights, Bytes

\* A lookup adds the bytes of what it finds, or nothing.
LEMMA LookupCounts ==
  ASSUME CacheTypeOK, NEW e \in Entry, LookupOf(e)
  PROVE  /\ level' = level
         /\ Found(Content[e]) =>
              /\ Hit(Content[e])
              /\ totalDuplicateBytes' = totalDuplicateBytes + Weights[e]
         /\ ~Found(Content[e]) =>
              /\ UNCHANGED <<cacheHits, totalDuplicateBytes>>
              /\ level = 1 => Store(Content[e], FirstIndex(e))
BY DEF LookupOf, Lookup, Hit, Store, EvictOwn, EvictOther, Pass, counters, Weights

\* No bytes before the first record.
LEMMA BytesInvInit == REInit => BytesInv
<1> SUFFICES ASSUME REInit PROVE BytesInv
  OBVIOUS
<1>1. Pushed = {} /\ processed = {}
  BY EntryShape, FilesAssumption DEF REInit, Init, Pushed
<1>2. Total(Weights, Pushed) = 0 /\ Total(Weights, processed) = 0
  BY <1>1, TotalEmpty
<1> QED
  BY <1>2 DEF REInit, CacheInit, BytesInv

\* Bytes are counted when their record is pushed, and as duplicates at most
\* once, when an entry is processed.
LEMMA BytesStep ==
  ASSUME Inv, FlowInv, IsFiniteSet(Pushed'), CacheInv, BytesInv, [RENext]_reVars
  PROVE  BytesInv'
<1>1. /\ processed \in SUBSET Entry /\ IsFiniteSet(processed)
      /\ Pushed \in SUBSET Entry /\ IsFiniteSet(Pushed)
  BY CountPlaces DEF Inv, TypeOK, FlowInv, Pushed
<1>2. totalDuplicateBytes \in Nat /\ CacheTypeOK
  BY DEF CacheInv, CacheTypeOK
<1>3. ASSUME NEW e \in Entry, LookupOf(e)
      PROVE  BytesInv'
  <2>1. level' = level /\ totalDuplicateBytes' <= totalDuplicateBytes + Weights[e]
    BY <1>2, <1>3, LookupCounts, WeightsType
  <2>2. Total(Weights, processed \cup {e}) = Total(Weights, processed) + Weights[e]
    BY <1>1, <1>3, EntryTotals DEF LookupOf
  <2>3. /\ totalDuplicateBytes' \in Nat /\ Weights[e] \in Nat
        /\ Total(Weights, processed) \in Nat
    BY <1>1, <1>2, <1>3, LookupCounts, EntryTotals, WeightsType
  <2>4. totalDuplicateBytes' <= Total(Weights, processed \cup {e})
    BY <1>2, <2>1, <2>2, <2>3 DEF BytesInv
  <2>5. Weights' = Weights
    BY <2>1, WeightsStay
  <2> QED
    BY <1>3, <2>4, <2>5 DEF BytesInv, LookupOf
<1>4. ASSUME NEW S, PushOf(S)
      PROVE  BytesInv'
  <2>1. S \in SUBSET Entry /\ IsFiniteSet(S)
    <3>1. S \in SUBSET Pushed'
      BY <1>4 DEF PushOf
    <3> QED
      BY <1>4, <3>1, FS_Subset DEF PushOf
  <2>2. Total(Weights, Pushed \cup S) = Total(Weights, Pushed) + Total(Weights, S)
    BY <1>1, <1>4, <2>1, WeightsType, TotalUnion DEF PushOf
  <2>3. BytesOf(S) = Total(Weights, S)
    BY <2>1, BytesAsTotal
  <2>4. Weights' = Weights
    BY <1>4, WeightsStay DEF PushOf, cacheVars
  <2> QED
    BY <1>4, <2>2, <2>3, <2>4 DEF BytesInv, PushOf, cacheVars, counters
<1>5. CASE OtherStep
  <2>1. Weights' = Weights
    BY <1>5, WeightsStay DEF OtherStep, cacheVars
  <2> QED
    BY <1>5, <2>1 DEF BytesInv, OtherStep, cacheVars, counters
<1> QED
  BY <1>3, <1>4, <1>5, REStepCases

\* The bytes counted are those of the entries pushed, and no entry counts as a
\* duplicate before it is processed.
THEOREM BytesInvHolds == RESpec => []BytesInv
<1>1. RESpec => [](Inv /\ FlowInv /\ CacheInv)
  BY ThreadsOfRE, InvHolds, FlowInvHolds, CacheInvOfRE, PTL
<1>2. Inv /\ FlowInv => IsFiniteSet(Pushed)
  BY CountPlaces
<1>3. /\ Inv /\ FlowInv /\ IsFiniteSet(Pushed)' /\ CacheInv /\ BytesInv /\ [RENext]_reVars
      => BytesInv'
  BY BytesStep
<1> QED
  BY <1>1, <1>2, <1>3, BytesInvInit, PTL DEF RESpec

\* At any moment no more bytes are duplicate than have been counted, so the
\* percentage that is printed is at most 100.
THEOREM DuplicatesStayWithinTotal == RESpec => []DuplicatesWithinTotal
<1>1. Inv /\ FlowInv /\ CacheInv /\ BytesInv => DuplicatesWithinTotal
  <2> SUFFICES ASSUME Inv, FlowInv, CacheInv, BytesInv PROVE DuplicatesWithinTotal
    OBVIOUS
  <2> DEFINE rest == Pushed \ processed
  <2>1. /\ processed \in SUBSET Entry /\ IsFiniteSet(processed)
        /\ Pushed \in SUBSET Entry /\ IsFiniteSet(Pushed)
        /\ processed \subseteq Pushed
    BY CountPlaces DEF Inv, TypeOK, FlowInv, Pushed, Somewhere, Processed
  <2>2. /\ rest \in SUBSET Entry /\ IsFiniteSet(rest)
        /\ processed \cap rest = {} /\ processed \cup rest = Pushed
    BY <2>1, FS_Subset
  <2> HIDE DEF rest
  <2>3. Total(Weights, processed \cup rest) = Total(Weights, processed) + Total(Weights, rest)
    BY <2>1, <2>2, WeightsType, TotalUnion
  <2>4. Total(Weights, processed \cup rest) = Total(Weights, Pushed)
    BY <2>2, Zenon
  <2>5. Total(Weights, processed) \in Nat /\ Total(Weights, rest) \in Nat
    BY <2>1, <2>2, EntryTotals
  <2>6. totalDuplicateBytes \in Nat
    BY DEF CacheInv, CacheTypeOK
  <2> QED
    BY <2>3, <2>4, <2>5, <2>6 DEF BytesInv, DuplicatesWithinTotal
<1> QED
  BY <1>1, BytesInvHolds, ThreadsOfRE, InvHolds, FlowInvHolds, CacheInvOfRE, PTL

-----------------------------------------------------------------------------
(* The results that are printed.                                           *)

\* main prints the results when everything has been processed.
LEMMA DoneMeansAll ==
  ASSUME Inv, FlowInv, pcMain = "done"
  PROVE  processed = Entry /\ Pushed = Entry
<1>1. processed = {e \in Entry : e[1] < file}
  BY DoneWhenOpen DEF FilesDone
<1>2. file > Len(Files)
  BY DEF FlowInv, AllRead
<1>3. \A e \in Entry : e[1] \in Nat /\ e[1] <= Len(Files)
  BY EntryShape, FilesAssumption
<1>4. file \in Nat /\ Len(Files) \in Nat
  BY FilesAssumption DEF Inv, TypeOK
<1>5. processed = Entry
  BY <1>1, <1>2, <1>3, <1>4
<1> QED
  BY <1>5 DEF Pushed, FlowInv, Somewhere, Processed

\* At level 1 every lookup is a hit or a node.
HitsAndNodes == level = 1 => cacheHits + allocated = Cardinality(processed)

\* A lookup at level 1 that is no hit allocates a node.
LEMMA HitsAndNodesStep ==
  ASSUME MatchIsSymmetric, MatchIsTransitive,
         Inv, FlowInv, CacheInv, ChainsInOrder, HitsAndNodes, [RENext]_reVars
  PROVE  HitsAndNodes'
<1>1. CacheTypeOK /\ cacheHits \in Nat /\ allocated \in Nat
  BY DEF CacheInv, CacheTypeOK
<1>2. ASSUME NEW e \in Entry, LookupOf(e), level = 1
      PROVE  cacheHits' + allocated' = Cardinality(processed')
  <2>1. Cardinality(processed') = Cardinality(processed) + 1
    BY <1>2, FS_AddElement DEF LookupOf, FlowInv
  <2>2. Content[e] \in Payload
    BY WeightsType
  <2>3. CASE Found(Content[e])
    BY <1>1, <1>2, <2>1, <2>2, <2>3, LookupCounts, OneHit DEF Hit, HitsAndNodes
  <2>4. CASE ~Found(Content[e])
    BY <1>1, <1>2, <2>1, <2>4, LookupCounts DEF Store, HitsAndNodes
  <2> QED
    BY <2>3, <2>4
<1>3. ASSUME NEW e \in Entry, LookupOf(e)
      PROVE  HitsAndNodes'
  BY <1>2, <1>3, <1>1, LookupCounts DEF HitsAndNodes
<1>4. ASSUME NEW S, PushOf(S)
      PROVE  HitsAndNodes'
  BY <1>4 DEF PushOf, cacheVars, counters, HitsAndNodes
<1>5. CASE OtherStep
  BY <1>5 DEF OtherStep, cacheVars, counters, HitsAndNodes
<1> QED
  BY <1>3, <1>4, <1>5, REStepCases

\* When the results are printed each byte of the input has been counted once,
\* and at level 1 each payload is a hit or an entry of the cache.
THEOREM ReportsAreComplete ==
  ASSUME MatchIsSymmetric, MatchIsTransitive
  PROVE  RESpec => []ReportIsComplete
<1>1. REInit => HitsAndNodes
  BY FS_EmptySet DEF REInit, Init, CacheInit, HitsAndNodes
<1>2. RESpec => [](Inv /\ FlowInv /\ CacheInv /\ ChainsInOrder)
  BY ThreadsOfRE, InvHolds, FlowInvHolds, CacheInvOfRE, PTL
<1>3. RESpec => []HitsAndNodes
  BY <1>1, <1>2, HitsAndNodesStep, PTL DEF RESpec
<1>4. Inv /\ FlowInv /\ BytesInv /\ HitsAndNodes => ReportIsComplete
  BY DoneMeansAll, BytesAsTotal DEF BytesInv, HitsAndNodes, ReportIsComplete
<1> QED
  BY <1>2, <1>3, <1>4, BytesInvHolds, PTL

-----------------------------------------------------------------------------
(* Exact results.                                                          *)

\* No two payloads of the input share a bucket.
BucketsApart == \A p, q \in Contents : Bucket(p) = Bucket(q) => p = q

\* The payloads that have been looked up, and what a payload weighs.
LookedUp == {Content[e] : e \in processed}
PayloadWeights == [p \in Payload |-> Bytes(p)]

\* With buckets apart a bucket holds its payload once it has been looked up;
\* each entry is the first of its payload or a hit.
ExactInv ==
  level = 1 =>
    /\ \A p \in Contents : table[Bucket(p)] = IF p \in LookedUp THEN <<p>> ELSE <<>>
    /\ IsFiniteSet(LookedUp)
    /\ cacheHits + Cardinality(LookedUp) = Cardinality(processed)
    /\ totalDuplicateBytes + Total(PayloadWeights, LookedUp) = Total(Weights, processed)

\* A payload that is alone in its bucket is found and counted once, and the
\* walk leaves it where it is.
LEMMA HitAlone ==
  ASSUME NEW p \in Payload, Chain(p) = <<p>>
  PROVE  Found(p) /\ HitsOf(p) = 1 /\ Walked(p) = <<p>>
<1>1. Len(<<p>>) = 1 /\ DOMAIN <<p>> = {1} /\ <<p>>[1] = p
  OBVIOUS
<1>2. Match(p, p)
  BY PayloadAssumption DEF Match
<1>3. Found(p)
  BY <1>1, <1>2 DEF Found
<1>4. Stop(p) = 1
  BY <1>1 DEF Stop, Later
<1>5. Walked(p) = <<p>>
  <2>1. Walked(p) = SubSeq(<<p>>, 1, 1)
    BY <1>1, <1>4 DEF Walked
  <2>2. <<p>> \in Seq(Payload)
    OBVIOUS
  <2> QED
    BY <1>1, <2>1, <2>2, SubSeqFull
<1>6. {i \in {1} \cup {Stop(p)} : Match(Chain(p)[i], p)} = {1}
  BY <1>1, <1>2, <1>4
<1>7. HitsOf(p) = 1
  BY <1>6, FS_Singleton DEF HitsOf
<1> QED
  BY <1>3, <1>5, <1>7

\* A payload looked up before is a hit.
LEMMA ExactHit ==
  ASSUME BucketsApart, Inv, FlowInv, CacheInv, ExactInv, level = 1,
         NEW e \in Entry, LookupOf(e), Content[e] \in LookedUp
  PROVE  /\ table' = table
         /\ cacheHits' = cacheHits + 1
         /\ totalDuplicateBytes' = totalDuplicateBytes + Weights[e]
<1> DEFINE p == Content[e]
<1>1. p \in Payload /\ p \in Contents /\ CacheTypeOK
  BY WeightsType DEF Contents, CacheInv
<1>2. Bucket(p) \in Buckets
  BY <1>1, BucketType
<1>3. Chain(p) = <<p>>
  BY <1>1 DEF ExactInv, Chain
<1>4. Found(p) /\ HitsOf(p) = 1 /\ Walked(p) = <<p>>
  BY <1>1, <1>3, HitAlone
<1>5. Hit(p) /\ totalDuplicateBytes' = totalDuplicateBytes + Weights[e]
  BY <1>1, <1>4, LookupCounts
<1> HIDE DEF p
<1> QED
  BY <1>1, <1>2, <1>3, <1>4, <1>5 DEF Hit, SetChain, Chain, CacheTypeOK, p

\* The first of its kind is stored.
LEMMA ExactStore ==
  ASSUME BucketsApart, Inv, FlowInv, CacheInv, ExactInv, level = 1,
         NEW e \in Entry, LookupOf(e), Content[e] \notin LookedUp
  PROVE  /\ \A q \in Contents : table'[Bucket(q)] = IF q = Content[e] THEN <<q>>
                                                    ELSE table[Bucket(q)]
         /\ UNCHANGED <<cacheHits, totalDuplicateBytes>>
<1> DEFINE p == Content[e]
<1>1. p \in Payload /\ p \in Contents /\ CacheTypeOK
  BY WeightsType DEF Contents, CacheInv
<1>2. \A q \in Contents : q \in Payload /\ Bucket(q) \in Buckets
  BY WeightsType, BucketType DEF Contents
<1>3. Chain(p) = <<>>
  BY <1>1 DEF ExactInv, Chain
<1>4. ~Found(p)
  BY <1>3 DEF Found
<1>5. Store(p, FirstIndex(e)) /\ UNCHANGED <<cacheHits, totalDuplicateBytes>>
  BY <1>1, <1>4, LookupCounts
<1>6. table' = [table EXCEPT ![Bucket(p)] = Append(<<>>, p)]
  BY <1>3, <1>5 DEF Store, SetChain
<1>7. Append(<<>>, p) = <<p>>
  OBVIOUS
<1>8. \A q \in Contents : Bucket(q) = Bucket(p) => q = p
  BY <1>1 DEF BucketsApart
<1> HIDE DEF p
<1>9. \A q \in Contents : table'[Bucket(q)] = IF q = p THEN <<q>> ELSE table[Bucket(q)]
  BY <1>1, <1>2, <1>6, <1>7, <1>8 DEF CacheTypeOK
<1> QED
  BY <1>5, <1>9 DEF p

\* What payloads weigh, and what they are.
LEMMA PayloadTotals ==
  ASSUME Inv
  PROVE  /\ PayloadWeights \in [Payload -> Nat]
         /\ LookedUp \in SUBSET Payload
         /\ \A e \in Entry : Weights[e] = PayloadWeights[Content[e]]
<1>1. PayloadWeights \in [Payload -> Nat]
  BY WeightsType DEF PayloadWeights
<1>2. \A e \in Entry : Weights[e] = PayloadWeights[Content[e]]
  BY WeightsType DEF PayloadWeights, Weights
<1>3. LookedUp \in SUBSET Payload
  <2>1. processed \subseteq Entry
    BY DEF Inv, TypeOK
  <2> QED
    BY <2>1, WeightsType DEF LookedUp
<1> QED
  BY <1>1, <1>2, <1>3

\* With a bucket for each payload a payload seen before is found again.
LEMMA ExactStep ==
  ASSUME BucketsApart, Inv, FlowInv, CacheInv, ExactInv, [RENext]_reVars
  PROVE  ExactInv'
<1>1. /\ processed \in SUBSET Entry /\ IsFiniteSet(processed)
      /\ cacheHits \in Nat /\ totalDuplicateBytes \in Nat /\ CacheTypeOK
  BY DEF Inv, TypeOK, FlowInv, CacheInv, CacheTypeOK
<1>2. ASSUME level' = level PROVE PayloadWeights' = PayloadWeights /\ Weights' = Weights
  BY <1>2, WeightsStay DEF PayloadWeights
<1>3. ASSUME NEW e \in Entry, LookupOf(e)
      PROVE  ExactInv'
  <2> SUFFICES ASSUME level' = 1
               PROVE  ExactInv'
    BY DEF ExactInv
  <2> DEFINE p == Content[e]
  <2>1. level = 1 /\ level' = level
    BY <1>1, <1>3, LookupCounts
  <2>2. /\ processed' = processed \cup {e} /\ e \notin processed
        /\ LookedUp' = LookedUp \cup {p}
    BY <1>3 DEF LookupOf, LookedUp
  <2>3. /\ Cardinality(processed') = Cardinality(processed) + 1
        /\ Cardinality(processed) \in Nat
    BY <1>1, <2>2, FS_AddElement, FS_CardinalityType
  <2>4. /\ Total(Weights, processed') = Total(Weights, processed) + Weights[e]
        /\ Total(Weights, processed) \in Nat
    BY <1>1, <2>2, EntryTotals
  <2>5. PayloadWeights' = PayloadWeights /\ Weights' = Weights
    BY <1>2, <2>1
  <2>6. /\ IsFiniteSet(LookedUp) /\ Cardinality(LookedUp) \in Nat
        /\ LookedUp \in SUBSET Payload /\ p \in Payload
        /\ Weights[e] = PayloadWeights[p] /\ Weights[e] \in Nat
    BY <1>1, <2>1, PayloadTotals, FS_CardinalityType, WeightsType DEF ExactInv
  <2>7. Total(PayloadWeights, LookedUp) \in Nat
    BY <2>6, PayloadTotals, TotalType
  <2>8. CASE p \in LookedUp
    <3>1. LookedUp' = LookedUp
      BY <2>2, <2>8
    <3>2. /\ table' = table /\ cacheHits' = cacheHits + 1
          /\ totalDuplicateBytes' = totalDuplicateBytes + Weights[e]
      BY <1>3, <2>1, <2>8, ExactHit
    <3>3. cacheHits' + Cardinality(LookedUp') = Cardinality(processed')
      BY <1>1, <2>1, <2>3, <2>6, <3>1, <3>2 DEF ExactInv
    <3>4. totalDuplicateBytes' + Total(PayloadWeights', LookedUp') = Total(Weights', processed')
      BY <1>1, <2>1, <2>4, <2>5, <2>6, <2>7, <3>1, <3>2 DEF ExactInv
    <3> QED
      BY <2>1, <2>6, <3>1, <3>2, <3>3, <3>4 DEF ExactInv
  <2>9. CASE p \notin LookedUp
    <3>1. /\ \A q \in Contents : table'[Bucket(q)] = IF q = p THEN <<q>> ELSE table[Bucket(q)]
          /\ UNCHANGED <<cacheHits, totalDuplicateBytes>>
      BY <1>3, <2>1, <2>9, ExactStore
    <3>2. \A q \in Contents : table'[Bucket(q)] = IF q \in LookedUp' THEN <<q>> ELSE <<>>
      BY <2>1, <2>2, <3>1 DEF ExactInv
    <3>3. /\ IsFiniteSet(LookedUp')
          /\ Cardinality(LookedUp') = Cardinality(LookedUp) + 1
      BY <2>2, <2>6, <2>9, FS_AddElement
    <3>4. Total(PayloadWeights, LookedUp \cup {p})
            = Total(PayloadWeights, LookedUp) + PayloadWeights[p]
      BY <2>6, <2>9, PayloadTotals, TotalAdd
    <3>5. cacheHits' + Cardinality(LookedUp') = Cardinality(processed')
      BY <1>1, <2>1, <2>3, <2>6, <3>1, <3>3 DEF ExactInv
    <3>6. totalDuplicateBytes' + Total(PayloadWeights', LookedUp') = Total(Weights', processed')
      BY <1>1, <2>1, <2>2, <2>4, <2>5, <2>6, <2>7, <3>1, <3>4 DEF ExactInv
    <3> QED
      BY <3>2, <3>3, <3>5, <3>6 DEF ExactInv
  <2> QED
    BY <2>8, <2>9
<1>4. CASE UNCHANGED <<cacheVars, processed>>
  <2>1. PayloadWeights' = PayloadWeights /\ Weights' = Weights
    BY <1>2, <1>4 DEF cacheVars
  <2> QED
    BY <1>4, <2>1 DEF ExactInv, LookedUp, cacheVars, counters
<1> QED
  BY <1>3, <1>4, REStepCases DEF PushOf, OtherStep

\* The bytes of the payloads are their total, as those of the entries are.
LEMMA PayloadBytesAsTotal ==
  ASSUME NEW S \in SUBSET Payload
  PROVE  MapThenSumSet(LAMBDA p : Bytes(p), S) = Total(PayloadWeights, S)
<1> DEFINE It(g) ==
             g = [s \in SUBSET S |->
                    IF s = {} THEN 0
                    ELSE Bytes(CHOOSE x \in s : TRUE) + g[s \ {CHOOSE x \in s : TRUE}]]
<1>1. MapThenSumSet(LAMBDA p : Bytes(p), S) = (CHOOSE g : It(g))[S]
  BY Zenon DEF MapThenSumSet, MapThenFoldSet
<1>2. \A g : It(g) <=> IsSum(g, PayloadWeights, S)
  <2> SUFFICES ASSUME NEW g PROVE It(g) <=> IsSum(g, PayloadWeights, S)
    OBVIOUS
  <2>1. \A s \in SUBSET S : s # {} => Pick(s) \in Payload
    BY DEF Pick
  <2>2. [s \in SUBSET S |->
           IF s = {} THEN 0
           ELSE Bytes(CHOOSE x \in s : TRUE) + g[s \ {CHOOSE x \in s : TRUE}]]
        = [s \in SUBSET S |-> IF s = {} THEN 0 ELSE PayloadWeights[Pick(s)] + g[s \ {Pick(s)}]]
    BY <2>1 DEF Pick, PayloadWeights
  <2> QED
    BY <2>2 DEF IsSum
<1> HIDE DEF It
<1>3. (CHOOSE g : It(g)) = CHOOSE g : IsSum(g, PayloadWeights, S)
  BY <1>2, Zenon
<1> QED
  BY <1>1, <1>3 DEF Total

\* Nothing has been looked up and nothing is stored.
LEMMA ExactInvInit == REInit => ExactInv
<1> SUFFICES ASSUME REInit PROVE ExactInv
  OBVIOUS
<1>1. processed = {} /\ LookedUp = {}
  BY DEF REInit, Init, LookedUp
<1>2. \A p \in Contents : Bucket(p) \in Buckets
  BY WeightsType, BucketType DEF Contents
<1>3. Total(PayloadWeights, LookedUp) = 0 /\ Total(Weights, processed) = 0
  BY <1>1, TotalEmpty
<1> QED
  BY <1>1, <1>2, <1>3, FS_EmptySet DEF REInit, CacheInit, ExactInv

\* With no two payloads of the input in one bucket the report of level 1 does
\* not depend on how the consumers interleave: each payload but the first of
\* its kind is a hit, and its bytes are duplicate.
THEOREM ReportsAreExact == RESpec => []ReportIsExact
<1>1. CASE BucketsApart
  <2>1. RESpec => [](Inv /\ FlowInv /\ CacheInv)
    BY ThreadsOfRE, InvHolds, FlowInvHolds, CacheInvOfRE, PTL
  <2>2. Inv /\ FlowInv /\ CacheInv /\ ExactInv /\ [RENext]_reVars => ExactInv'
    BY <1>1, ExactStep
  <2>3. Inv /\ FlowInv /\ CacheInv /\ ExactInv => ReportIsExact
    <3> SUFFICES ASSUME Inv, FlowInv, CacheInv, ExactInv, pcMain = "done", level = 1
                 PROVE  /\ cacheHits = Cardinality(Entry) - Cardinality(Contents)
                        /\ totalDuplicateBytes =
                             BytesOf(Entry) - MapThenSumSet(LAMBDA p : Bytes(p), Contents)
      BY DEF ReportIsExact
    <3>1. processed = Entry /\ LookedUp = Contents
      BY DoneMeansAll DEF LookedUp, Contents
    <3>2. BytesOf(Entry) = Total(Weights, Entry)
      BY BytesAsTotal
    <3>3. Contents \in SUBSET Payload
      BY WeightsType DEF Contents
    <3>4. MapThenSumSet(LAMBDA p : Bytes(p), Contents) = Total(PayloadWeights, Contents)
      BY <3>3, PayloadBytesAsTotal
    <3>5. IsFiniteSet(Contents) /\ Cardinality(Contents) \in Nat
      BY <3>1, FS_CardinalityType DEF ExactInv
    <3>6. Total(PayloadWeights, Contents) \in Nat
      BY <3>3, <3>5, PayloadTotals, TotalType
    <3>7. cacheHits \in Nat /\ totalDuplicateBytes \in Nat
      BY DEF CacheInv, CacheTypeOK
    <3>8. cacheHits = Cardinality(Entry) - Cardinality(Contents)
      BY <3>1, <3>5, <3>7 DEF ExactInv
    <3>9. totalDuplicateBytes = Total(Weights, Entry) - Total(PayloadWeights, Contents)
      BY <3>1, <3>6, <3>7 DEF ExactInv
    <3> QED
      BY <3>2, <3>4, <3>8, <3>9, Zenon
  <2> QED
    BY <2>1, <2>2, <2>3, ExactInvInit, PTL DEF RESpec
<1>2. CASE ~BucketsApart
  <2>1. ReportIsExact
    BY <1>2 DEF ReportIsExact, BucketsApart
  <2> QED
    BY <2>1, PTL
<1> QED
  BY <1>1, <1>2

-----------------------------------------------------------------------------
(* The programs that were merged: what the mapping shows of a state.       *)

\* The control points of the consumers as level1.c has them.
Points == [c \in Consumers |-> ConsPoint(c)]

\* The point that a control point of Pipeline is part of.
PointOf(pc) ==
  CASE pc \in {"lock", "check", "pop", "popped"} -> "run"
    [] pc = "waiting" -> "asleep"
    [] pc = "process" -> "busy"
    [] OTHER -> pc

\* The producer comes to the buffer with a record in range.
InRange == pcProd \in {"lock", "push", "waiting"} => Files[file][rec] # 0

\* A set of at most one element as a sequence.
LEMMA SmallSetToSeq ==
  /\ SetToSeq({}) = <<>>
  /\ \A x : SetToSeq({x}) = <<x>>
<1>1. Cardinality({}) = 0 /\ \A x : Cardinality({x}) = 1
  BY FS_EmptySet, FS_Singleton
<1>2. SetToSeq({}) = <<>>
  <2>1. <<>> \in [1..0 -> {}] /\ IsInjective(<<>>)
    BY DEF IsInjective
  <2>2. \A f \in [1..0 -> {}] : f = <<>>
    OBVIOUS
  <2> QED
    BY <1>1, <2>1, <2>2 DEF SetToSeq
<1>3. ASSUME NEW x PROVE SetToSeq({x}) = <<x>>
  <2>1. <<x>> \in [1..1 -> {x}] /\ IsInjective(<<x>>)
    BY DEF IsInjective
  <2>2. \A f \in [1..1 -> {x}] : f = <<x>>
    OBVIOUS
  <2> QED
    BY <1>1, <2>1, <2>2 DEF SetToSeq
<1> QED
  BY <1>2, <1>3

\* The consumer in a section of countlock is the only one in a section.
LEMMA OneInSection ==
  ASSUME Inv, NEW c \in Consumers, pcCons[c] \in InSection
  PROVE  \A d \in Consumers : pcCons[d] \in InSection => d = c
BY DEF Inv, LockOwned

\* The queue as level1.c has it, and its length, is what `count' says.
LEMMA QueueMeaning ==
  ASSUME Inv
  PROVE  /\ Popped = {} => Uncounted = buffer
         /\ \A c \in Popped : Popped = {c} /\ Uncounted = <<packet[c]>> \o buffer
         /\ Len(Uncounted) = count
         /\ Uncounted = <<>> <=> count = 0
<1>1. buffer \in Seq(Entry) /\ count = IF Popped = {} THEN Len(buffer) ELSE Len(buffer) + 1
  BY DEF Inv, TypeOK, CountExact, Popped
<1>2. Popped = {} => Uncounted = buffer
  <2>1. {packet[c] : c \in {}} = {}
    OBVIOUS
  <2>2. <<>> \o buffer = buffer
    BY <1>1
  <2> QED
    BY <2>1, <2>2, SmallSetToSeq DEF Uncounted
<1>3. ASSUME NEW c \in Popped
      PROVE  Popped = {c} /\ Uncounted = <<packet[c]>> \o buffer /\ packet[c] \in Entry
  <2>1. Popped = {c}
    BY OneInSection DEF Popped, InSection
  <2>2. {packet[d] : d \in {c}} = {packet[c]}
    OBVIOUS
  <2>3. packet[c] \in Entry
    BY DEF Popped, Inv, TypeOK, NoEmptyPop
  <2> QED
    BY <2>1, <2>2, <2>3, SmallSetToSeq DEF Uncounted
<1>4. CASE Popped = {}
  BY <1>1, <1>2, <1>4
<1>5. CASE Popped # {}
  <2>1. PICK c \in Consumers : c \in Popped
    BY <1>5 DEF Popped
  <2>2. /\ Uncounted = <<packet[c]>> \o buffer /\ packet[c] \in Entry
        /\ <<packet[c]>> \in Seq(Entry) /\ Len(<<packet[c]>>) = 1
    BY <1>3, <2>1
  <2>3. Len(Uncounted) = 1 + Len(buffer)
    BY <1>1, <2>2, ConcatProperties
  <2>4. Uncounted # <<>>
    BY <1>1, <2>3
  <2> QED
    BY <1>1, <1>3, <1>5, <2>3, <2>4
<1> QED
  BY <1>4, <1>5

\* A step that leaves control points, packets and buffer of the consumers
\* alone changes nothing of what is seen of them.
LEMMA SameView ==
  ASSUME UNCHANGED <<pcCons, packet, buffer>>
  PROVE  UNCHANGED <<Points, Uncounted, Held>>
BY DEF Points, ConsPoint, Uncounted, Held, Popped

\* The view of a consumer that moves.
LEMMA PointMoves ==
  ASSUME TypeOK, NEW c \in Consumers, NEW pc, SetCons(c, pc)
  PROVE  /\ Points' = [Points EXCEPT ![c] = PointOf(pc)]
         /\ \A d \in Consumers : Points[d] = PointOf(pcCons[d])
         /\ Points' = [d \in Consumers |-> IF d = c THEN PointOf(pc) ELSE Points[d]]
BY DEF TypeOK, SetCons, Points, ConsPoint, PointOf

\* A consumer that moves without a pop behind or before it.
LEMMA QuietMove ==
  ASSUME TypeOK, NEW c \in Consumers, NEW pc, SetCons(c, pc),
         pcCons[c] # "popped", pc # "popped", UNCHANGED <<packet, buffer>>
  PROVE  UNCHANGED <<Uncounted, Held>>
<1>1. Popped' = Popped
  BY DEF TypeOK, SetCons, Popped
<1> QED
  BY <1>1 DEF Uncounted, Held

\* Waking consumers is not a pop either.
LEMMA QuietWake ==
  ASSUME TypeOK, OnlyWakes, UNCHANGED packet
  PROVE  /\ Popped' = Popped
         /\ Held' = Held
<1>1. Popped' = Popped
  BY DEF TypeOK, OnlyWakes, Popped
<1> QED
  BY <1>1 DEF Held

\* Whoever holds countlock finds nobody else deciding to wait.
LEMMA LockSeen ==
  ASSUME Inv
  PROVE  /\ countlock = Producer => \A d \in Consumers : Points[d] # "wait"
         /\ \A c \in Consumers :
              pcCons[c] \in InSection /\ pcCons[c] # "wait" =>
                \A d \in Consumers : Points[d] # "wait"
<1>1. \A d \in Consumers : Points[d] = "wait" => pcCons[d] = "wait"
  BY DEF Points, ConsPoint, Inv, TypeOK, ConsControl
<1>2. \A d \in Consumers : pcCons[d] = "wait" => countlock = d
  BY DEF Inv, LockOwned, InSection
<1>3. Producer \notin Consumers
  BY ThreadsAssumption
<1>4. \A c \in Consumers : pcCons[c] \in InSection => countlock = c
  BY DEF Inv, LockOwned
<1> QED
  BY <1>1, <1>2, <1>3, <1>4

\* A signal is a signal.
LEMMA SignalSeen ==
  ASSUME TypeOK, SignalFill
  PROVE  L1!Signal
<1> DEFINE asleep == {c \in Consumers : Points[c] = "asleep"}
<1>1. asleep = Waiting
  BY DEF Points, ConsPoint, TypeOK, ConsControl, Waiting
<1>2. CASE Waiting = {}
  <2>1. Points' = Points
    BY <1>2 DEF SignalFill, Points, ConsPoint
  <2> QED
    BY <1>1, <1>2, <2>1 DEF L1!Signal, Points
<1>3. CASE Waiting # {}
  <2>1. PICK c \in Waiting : SetCons(c, "lock")
    BY <1>3 DEF SignalFill, SetCons
  <2>2. c \in Consumers
    BY DEF Waiting
  <2>3. Points' = [Points EXCEPT ![c] = "run"]
    BY <2>1, <2>2, PointMoves DEF PointOf
  <2> QED
    BY <1>1, <1>3, <2>1, <2>3 DEF L1!Signal, L1!Set, Points
<1> QED
  BY <1>2, <1>3

-----------------------------------------------------------------------------
(* Steps that both programs have.                                          *)

\* What a step of the threads alone leaves to the cache.
Quiet == UNCHANGED <<cacheVars, totalBytes>>

\* So the cache is the same for the programs that were merged.
LEMMA QuietSeen ==
  ASSUME Quiet
  PROVE  UNCHANGED <<L1!cacheVars, totalBytes, totalCacheSize>>
BY DEF Quiet, cacheVars, counters, L1!cacheVars, L1!resultVars

\* Reading, and the end of the producer.
LEMMA ProducerSeen ==
  ASSUME Inv, Quiet
  PROVE  /\ ProdRead => L1!Read
         /\ ProdLock => UNCHANGED L1!level1Vars
         /\ ProdWait => L1!ProdSleep
         /\ ProdFinish => L1!Finish
         /\ SpuriousProd => L1!Spurious
<1>1. UNCHANGED <<L1!cacheVars, totalBytes>>
  BY QuietSeen
<1>2. ASSUME ProdRead PROVE L1!Read
  <2>1. UNCHANGED <<Points, Uncounted, Held, MainPoint>>
    BY <1>2, SameView DEF ProdRead, workVars, bufferVars, MainPoint
  <2>2. ProdPoint = "read"
    BY <1>2 DEF ProdRead, ProdPoint
  <2>3. \/ /\ rec < Len(Files[file])
           /\ rec' = rec + 1
           /\ ProdPoint' = IF Files[file][rec + 1] = 0 THEN "read" ELSE "push"
        \/ /\ rec = Len(Files[file])
           /\ ProdPoint' = "finish"
           /\ UNCHANGED rec
    BY <1>2 DEF ProdRead, ProdPoint, Records
  <2> QED
    BY <1>1, <1>2, <2>1, <2>2, <2>3 DEF L1!Read, Points, ProdRead
<1>3. ASSUME ProdLock PROVE UNCHANGED L1!level1Vars
  <2>1. UNCHANGED <<Points, Uncounted, Held, MainPoint, ProdPoint, complete, fileVars>>
    BY <1>3, SameView DEF ProdLock, workVars, bufferVars, MainPoint, ProdPoint
  <2> QED
    BY <1>1, <2>1 DEF L1!level1Vars, L1!fileVars, fileVars, Points
<1>4. ASSUME ProdWait PROVE L1!ProdSleep
  <2>1. UNCHANGED <<Points, Uncounted, Held, MainPoint, complete, fileVars>>
    BY <1>4, SameView DEF ProdWait, workVars, bufferVars, MainPoint
  <2>2. ProdPoint = "push" /\ ProdPoint' = "asleep"
    BY <1>4 DEF ProdWait, ProdPoint
  <2>3. Len(Uncounted) = MAXSIZ
    BY <1>4, QueueMeaning DEF ProdWait, Full
  <2>4. \A d \in Consumers : Points[d] # "wait"
    BY <1>4, LockSeen DEF ProdWait, Unlock
  <2> QED
    BY <1>1, <2>1, <2>2, <2>3, <2>4 DEF L1!ProdSleep, L1!LockFree, L1!fileVars, fileVars, Points
<1>5. ASSUME ProdFinish PROVE L1!Finish
  <2>1. UNCHANGED <<Points, Uncounted, Held, MainPoint, fileVars>>
    BY <1>5, SameView DEF ProdFinish, workVars, bufferVars, MainPoint
  <2>2. ProdPoint = "finish" /\ ProdPoint' = "done" /\ complete' = 1
    BY <1>5 DEF ProdFinish, ProdPoint
  <2> QED
    BY <1>1, <2>1, <2>2 DEF L1!Finish, L1!fileVars, fileVars, Points
<1>6. ASSUME SpuriousProd PROVE L1!Spurious
  <2>1. UNCHANGED <<Points, Uncounted, Held, MainPoint, complete, fileVars>>
    BY <1>6, SameView DEF SpuriousProd, workVars, bufferVars, MainPoint
  <2>2. ProdPoint = "asleep" /\ ProdPoint' = "push"
    BY <1>6 DEF SpuriousProd, ProdPoint
  <2> QED
    BY <1>1, <2>1, <2>2 DEF L1!Spurious, L1!fileVars, fileVars, Points
<1> QED
  BY <1>2, <1>3, <1>4, <1>5, <1>6

\* The consumers' way to the buffer and back.
LEMMA ConsumerSeen ==
  ASSUME Inv, HeldWhilePopped, Quiet, NEW c \in Consumers
  PROVE  /\ ConsLock(c) => UNCHANGED L1!level1Vars
         /\ ConsCheck(c) => UNCHANGED L1!level1Vars \/ L1!FindEmpty(c)
         /\ ConsWait(c) => L1!Sleep(c)
         /\ ConsPop(c) => UNCHANGED L1!level1Vars
         /\ ConsCount(c) => L1!Take(c)
         /\ SpuriousCons(c) => L1!Spurious
<1>1. UNCHANGED <<L1!cacheVars, totalBytes>>
  BY QuietSeen
<1>2. TypeOK
  BY DEF Inv
<1>3. ASSUME ConsLock(c) PROVE UNCHANGED L1!level1Vars
  <2>1. UNCHANGED <<MainPoint, ProdPoint, complete, fileVars, packet, buffer>>
    BY <1>3 DEF ConsLock, workVars, bufferVars, MainPoint, ProdPoint
  <2>2. UNCHANGED <<Uncounted, Held>>
    BY <1>2, <1>3, <2>1, QuietMove DEF ConsLock
  <2>3. Points' = Points
    BY <1>2, <1>3, PointMoves DEF ConsLock, PointOf, Points
  <2> QED
    BY <1>1, <2>1, <2>2, <2>3 DEF L1!level1Vars, L1!fileVars, fileVars, Points
<1>4. ASSUME ConsCheck(c) PROVE UNCHANGED L1!level1Vars \/ L1!FindEmpty(c)
  <2>1. UNCHANGED <<MainPoint, ProdPoint, complete, fileVars, packet, buffer>>
    BY <1>4 DEF ConsCheck, workVars, bufferVars, MainPoint, ProdPoint
  <2>2. PICK pc \in {"pop", "done", "wait"} :
          /\ SetCons(c, pc)
          /\ count # 0 <=> pc = "pop"
          /\ pc = "done" <=> count = 0 /\ complete = 1
    BY <1>4 DEF ConsCheck
  <2>3. UNCHANGED <<Uncounted, Held>>
    BY <1>2, <1>4, <2>1, <2>2, QuietMove DEF ConsCheck
  <2>4. Points[c] = "run" /\ Points' = [Points EXCEPT ![c] = PointOf(pc)]
    BY <1>2, <1>4, <2>2, PointMoves DEF ConsCheck, PointOf
  <2>5. CASE pc = "pop"
    <3>1. Points' = Points
      BY <2>4, <2>5 DEF PointOf, Points
    <3> QED
      BY <1>1, <2>1, <2>3, <3>1 DEF L1!level1Vars, L1!fileVars, fileVars, Points
  <2>6. CASE pc # "pop"
    <3>1. Uncounted = <<>>
      BY <2>2, <2>6, QueueMeaning
    <3>2. PointOf(pc) = IF complete = 1 THEN "done" ELSE "wait"
      BY <2>2, <2>6 DEF PointOf
    <3>3. \A d \in Consumers : Points[d] # "wait"
      BY <1>4, LockSeen DEF ConsCheck, InSection
    <3> QED
      BY <1>1, <2>1, <2>3, <2>4, <3>1, <3>2, <3>3
         DEF L1!FindEmpty, L1!LockFree, L1!Set, L1!fileVars, fileVars, Points
  <2> QED
    BY <2>5, <2>6
<1>5. ASSUME ConsWait(c) PROVE L1!Sleep(c)
  <2>1. UNCHANGED <<MainPoint, ProdPoint, complete, fileVars, packet, buffer>>
    BY <1>5 DEF ConsWait, workVars, bufferVars, MainPoint, ProdPoint
  <2>2. UNCHANGED <<Uncounted, Held>>
    BY <1>2, <1>5, <2>1, QuietMove DEF ConsWait
  <2>3. Points[c] = "wait" /\ Points' = [Points EXCEPT ![c] = "asleep"]
    BY <1>2, <1>5, PointMoves DEF ConsWait, PointOf
  <2> QED
    BY <1>1, <2>1, <2>2, <2>3 DEF L1!Sleep, L1!Set, L1!fileVars, fileVars, Points
<1>6. ASSUME ConsPop(c) PROVE UNCHANGED L1!level1Vars
  <2>1. UNCHANGED <<MainPoint, ProdPoint, complete, fileVars>>
    BY <1>6 DEF ConsPop, MainPoint, ProdPoint
  <2>2. Points' = Points
    BY <1>2, <1>6, PointMoves DEF ConsPop, PointOf, Points
  <2>3. /\ buffer \in Seq(Entry) /\ buffer # <<>>
        /\ buffer' = Tail(buffer) /\ packet' = [packet EXCEPT ![c] = Head(buffer)]
    BY <1>2, <1>6 DEF ConsPop, queue_pop, Inv, NoEmptyPop, TypeOK
  <2>4. Popped = {} /\ Popped' = {c} /\ packet[c] = NoPacket
    <3>1. \A d \in Consumers : pcCons[d] # "popped"
      BY <1>6, OneInSection DEF ConsPop, InSection
    <3>2. pcCons'[c] = "popped" /\ \A d \in Consumers \ {c} : pcCons'[d] = pcCons[d]
      BY <1>2, <1>6 DEF ConsPop, SetCons, TypeOK
    <3>3. packet[c] = NoPacket
      BY <1>6 DEF ConsPop, HeldWhilePopped
    <3> QED
      BY <3>1, <3>2, <3>3 DEF Popped
  <2>5. Uncounted' = Uncounted
    <3>1. Uncounted = buffer
      BY <2>4, QueueMeaning
    <3>2. packet'[c] = Head(buffer)
      BY <1>2, <2>3 DEF TypeOK
    <3>3. {packet'[d] : d \in Popped'} = {Head(buffer)}
      BY <2>4, <3>2
    <3>4. Uncounted' = <<Head(buffer)>> \o Tail(buffer)
      BY <2>3, <3>3, SmallSetToSeq DEF Uncounted
    <3>5. <<Head(buffer)>> \o Tail(buffer) = buffer
      BY <2>3
    <3> QED
      BY <3>1, <3>4, <3>5
  <2>6. Held' = Held
    <3>1. \A d \in Consumers \ {c} : packet'[d] = packet[d]
      BY <1>2, <2>3 DEF TypeOK
    <3> QED
      BY <2>4, <3>1 DEF Held
  <2> QED
    BY <1>1, <2>1, <2>2, <2>5, <2>6 DEF L1!level1Vars, L1!fileVars, fileVars, Points
<1>7. ASSUME ConsCount(c) PROVE L1!Take(c)
  <2>1. UNCHANGED <<MainPoint, ProdPoint, complete, fileVars, packet, buffer>>
    BY <1>7 DEF ConsCount, workVars, MainPoint, ProdPoint
  <2>2. packet[c] # NoPacket /\ packet[c] \in Entry
    BY <1>2, <1>7 DEF ConsCount, Inv, NoEmptyPop, TypeOK
  <2>3. SetCons(c, "process") /\ pcCons[c] = "popped"
    BY <1>7, <2>2 DEF ConsCount
  <2>4. Points[c] = "run" /\ Points' = [Points EXCEPT ![c] = "busy"]
    BY <1>2, <2>3, PointMoves DEF PointOf
  <2>5. Popped = {c} /\ Uncounted = <<packet[c]>> \o buffer
    BY <2>3, QueueMeaning DEF Popped
  <2>6. Popped' = {}
    BY <1>2, <2>3, <2>5 DEF Popped, SetCons, TypeOK
  <2>7. buffer \in Seq(Entry)
    BY <1>2 DEF TypeOK
  <2>8. Uncounted # <<>> /\ Head(Uncounted) = packet[c] /\ Tail(Uncounted) = buffer
    BY <2>2, <2>5, <2>7
  <2>9. Uncounted' = buffer
    <3>1. {packet'[d] : d \in {}} = {}
      OBVIOUS
    <3>2. <<>> \o buffer = buffer
      BY <2>7
    <3> QED
      BY <2>1, <2>6, <3>1, <3>2, SmallSetToSeq DEF Uncounted
  <2>10. Held' = [Held EXCEPT ![c] = packet[c]]
    BY <2>1, <2>5, <2>6 DEF Held
  <2>11. \A d \in Consumers : Points[d] # "wait"
    BY <2>3, LockSeen DEF InSection
  <2> QED
    BY <1>1, <2>1, <2>4, <2>8, <2>9, <2>10, <2>11
       DEF L1!Take, L1!LockFree, L1!Set, L1!fileVars, fileVars, Points
<1>8. ASSUME SpuriousCons(c) PROVE L1!Spurious
  <2>1. UNCHANGED <<MainPoint, ProdPoint, complete, fileVars, packet, buffer>>
    BY <1>8 DEF SpuriousCons, workVars, bufferVars, MainPoint, ProdPoint
  <2>2. UNCHANGED <<Uncounted, Held>>
    BY <1>2, <1>8, <2>1, QuietMove DEF SpuriousCons
  <2>3. Points[c] = "asleep" /\ Points' = [Points EXCEPT ![c] = "run"]
    BY <1>2, <1>8, PointMoves DEF SpuriousCons, PointOf
  <2> QED
    BY <1>1, <2>1, <2>2, <2>3 DEF L1!Spurious, L1!Set, L1!fileVars, fileVars, Points
<1> QED
  BY <1>3, <1>4, <1>5, <1>6, <1>7, <1>8

\* main.
LEMMA MainSeen ==
  ASSUME Inv, Quiet
  PROVE  /\ MainOpen => L1!Open
         /\ MainJoinProd => L1!JoinProducer
         /\ MainSignal \/ MainDrained => L1!Drain
         /\ MainBroadcast => L1!Broadcast
         /\ MainJoinCons => L1!JoinConsumers
         /\ MainReport => L1!Report
<1>1. UNCHANGED <<L1!cacheVars, totalBytes>>
  BY QuietSeen
<1>2. TypeOK
  BY DEF Inv
<1>3. ASSUME MainOpen PROVE L1!Open
  <2>1. UNCHANGED <<complete, fileVars, packet>> /\ buffer' = <<>>
    BY <1>3 DEF MainOpen, workVars
  <2>2. MainPoint = "open" /\ MainPoint' = "join producer" /\ ProdPoint' = "read"
    BY <1>3 DEF MainOpen, MainPoint, ProdPoint
  <2>3. Points' = [c \in Consumers |-> "run"]
    BY <1>3 DEF MainOpen, Points, ConsPoint
  <2>4. Popped = {} /\ Popped' = {}
    BY <1>3 DEF MainOpen, Popped, Inv, MainOrder
  <2>5. Held' = Held
    BY <2>1, <2>4 DEF Held
  <2>6. Uncounted' = <<>>
    <3>1. {packet'[d] : d \in {}} = {}
      OBVIOUS
    <3>2. <<>> \o <<>> = <<>>
      OBVIOUS
    <3> QED
      BY <2>1, <2>4, <3>1, <3>2, SmallSetToSeq DEF Uncounted
  <2> QED
    BY <1>1, <1>3, <2>1, <2>2, <2>3, <2>5, <2>6
       DEF L1!Open, L1!fileVars, fileVars, Points, MainOpen
<1>4. ASSUME MainJoinProd PROVE L1!JoinProducer
  <2>1. UNCHANGED <<Points, Uncounted, Held, complete, fileVars, ProdPoint>>
    BY <1>4, SameView DEF MainJoinProd, bufferVars, workVars, ProdPoint
  <2>2. MainPoint = "join producer" /\ MainPoint' = "drain" /\ ProdPoint = "done"
    BY <1>4 DEF MainJoinProd, MainPoint, ProdPoint
  <2> QED
    BY <1>1, <2>1, <2>2 DEF L1!JoinProducer, L1!fileVars, fileVars, Points
<1>5. ASSUME MainSignal PROVE L1!Drain
  <2>1. UNCHANGED <<buffer, packet, complete, fileVars, ProdPoint, MainPoint>>
    BY <1>5 DEF MainSignal, bufferVars, workVars, ProdPoint, MainPoint
  <2>2. L1!Signal /\ OnlyWakes
    BY <1>2, <1>5, SignalSeen, SignalOnlyWakes DEF MainSignal
  <2>3. Popped' = Popped /\ Held' = Held
    BY <1>2, <2>1, <2>2, QuietWake
  <2>4. Uncounted' = Uncounted
    BY <2>1, <2>3 DEF Uncounted
  <2>5. MainPoint = "drain" /\ Uncounted # <<>>
    BY <1>2, <1>5, QueueMeaning DEF MainSignal, MainPoint, TypeOK
  <2> QED
    BY <1>1, <2>1, <2>2, <2>3, <2>4, <2>5 DEF L1!Drain, L1!fileVars, fileVars
<1>6. ASSUME MainDrained PROVE L1!Drain
  <2>1. UNCHANGED <<Points, Uncounted, Held, complete, fileVars, ProdPoint>>
    BY <1>6, SameView DEF MainDrained, bufferVars, workVars, ProdPoint
  <2>2. MainPoint = "drain" /\ MainPoint' = "broadcast" /\ Uncounted = <<>>
    BY <1>2, <1>6, QueueMeaning DEF MainDrained, MainPoint, TypeOK
  <2> QED
    BY <1>1, <2>1, <2>2 DEF L1!Drain, L1!fileVars, fileVars, Points
<1>7. ASSUME MainBroadcast PROVE L1!Broadcast
  <2>1. UNCHANGED <<buffer, packet, complete, fileVars, ProdPoint>>
    BY <1>7 DEF MainBroadcast, bufferVars, workVars, ProdPoint
  <2>2. Popped' = Popped /\ Held' = Held
    BY <1>2, <1>7, <2>1, BroadcastOnlyWakes, QuietWake DEF MainBroadcast
  <2>3. Uncounted' = Uncounted
    BY <2>1, <2>2 DEF Uncounted
  <2>4. MainPoint = "broadcast" /\ MainPoint' = "join consumers"
    BY <1>7 DEF MainBroadcast, MainPoint
  <2>5. Points' = [c \in Consumers |-> IF Points[c] = "asleep" THEN "run" ELSE Points[c]]
    BY <1>2, <1>7 DEF MainBroadcast, BroadcastFill, Waiting, Points, ConsPoint, TypeOK, ConsControl
  <2> QED
    BY <1>1, <2>1, <2>2, <2>3, <2>4, <2>5 DEF L1!Broadcast, L1!fileVars, fileVars, Points
<1>8. ASSUME MainJoinCons PROVE L1!JoinConsumers
  <2>1. UNCHANGED <<Points, Uncounted, Held, complete, ProdPoint>>
    BY <1>8, SameView DEF MainJoinCons, bufferVars, workVars, ProdPoint
  <2>2. MainPoint = "join consumers" /\ MainPoint' = "open"
    BY <1>8 DEF MainJoinCons, MainPoint
  <2>3. \A c \in Consumers : Points[c] = "done"
    BY <1>8 DEF MainJoinCons, Points, ConsPoint
  <2> QED
    BY <1>1, <1>8, <2>1, <2>2, <2>3 DEF L1!JoinConsumers, Points, MainJoinCons
<1>9. ASSUME MainReport PROVE L1!Report
  <2>1. UNCHANGED <<Points, Uncounted, Held, complete, ProdPoint, fileVars>>
    BY <1>9, SameView DEF MainReport, bufferVars, workVars, ProdPoint
  <2>2. MainPoint = "open" /\ MainPoint' = "done"
    BY <1>9 DEF MainReport, MainPoint
  <2> QED
    BY <1>1, <1>9, <2>1, <2>2 DEF L1!Report, L1!fileVars, fileVars, Points, MainReport
<1> QED
  BY <1>3, <1>4, <1>5, <1>6, <1>7, <1>8, <1>9

\* A push is one, whatever the entries weigh.
LEMMA PushSeen ==
  ASSUME Inv, ProducerPush
  PROVE  L1!PushOnto(Batch(file, rec), BatchBytes(file, rec))
<1>1. TypeOK /\ ProdPush
  BY DEF Inv, ProducerPush
<1>2. UNCHANGED <<L1!cacheVars, MainPoint, complete, fileVars, packet>>
  BY DEF ProducerPush, ProdPush, workVars, MainPoint, cacheVars, counters,
         L1!cacheVars, L1!resultVars
<1>3. \A d \in Consumers : Points[d] # "wait"
  BY <1>1, LockSeen DEF ProdPush, Unlock
<1>4. Len(Uncounted) # MAXSIZ
  BY <1>1, QueueMeaning DEF ProdPush, Full
<1>5. L1!Signal /\ OnlyWakes
  BY <1>1, SignalSeen, SignalOnlyWakes DEF ProdPush
<1>6. Popped' = Popped /\ Held' = Held
  BY <1>1, <1>2, <1>5, QuietWake
<1>7. Popped = {}
  <2>1. countlock = Producer
    BY <1>1 DEF ProdPush, Unlock
  <2> QED
    BY <2>1, ThreadsAssumption DEF Inv, LockOwned, InSection, Popped
<1>8. Uncounted' = Uncounted \o Batch(file, rec)
  <2>1. buffer' = buffer \o Batch(file, rec)
    BY <1>1 DEF ProdPush, PushAll
  <2>2. Uncounted = buffer
    BY <1>7, QueueMeaning
  <2>3. {packet'[d] : d \in {}} = {}
    OBVIOUS
  <2>4. Batch(file, rec) \in Seq(Entry) /\ buffer \in Seq(Entry)
    BY <1>1, BatchType, FilesAssumption, RecordsType
       DEF Inv, ProdPush, MainOrder, TypeOK, Records, MainControl
  <2>5. <<>> \o (buffer \o Batch(file, rec)) = buffer \o Batch(file, rec)
    BY <2>4, ConcatProperties
  <2> QED
    BY <1>6, <1>7, <2>1, <2>2, <2>3, <2>5, SmallSetToSeq DEF Uncounted
<1>9. /\ ProdPoint = "push"
      /\ ProdPoint' = "read" \/ (ProdPoint' = "finish" /\ rec = Len(Files[file]))
  BY <1>1 DEF ProdPush, ProdPoint, Records
<1>10. totalBytes' = totalBytes + BatchBytes(file, rec)
  BY DEF ProducerPush
<1> QED
  BY <1>2, <1>3, <1>4, <1>5, <1>6, <1>8, <1>9, <1>10
     DEF L1!PushOnto, L1!LockFree, L1!fileVars, fileVars, Points

\* At level 1 a record in range is one payload.
LEMMA PushOneSeen ==
  ASSUME Inv, InRange, OneEntryEach, level = 1, ProducerPush
  PROVE  L1!Push
<1> DEFINE entry == <<file, rec, 1>>
<1>1. file \in DOMAIN Files /\ rec \in DOMAIN Files[file] /\ pcProd = "push"
  BY FilesAssumption, RecordsType
     DEF Inv, ProducerPush, ProdPush, MainOrder, TypeOK, Records, MainControl
<1>2. Files[file][rec] = 1
  <2>1. Files[file][rec] \in Nat
    BY <1>1, FilesAssumption
  <2> QED
    BY <1>1, <2>1 DEF InRange, OneEntryEach
<1>3. Batch(file, rec) = <<entry>> /\ {Batch(file, rec)[w] : w \in 1..1} = {entry}
  BY <1>2 DEF Batch
<1>4. entry \in Entry
  BY <1>1, <1>2, EntryIntro
<1> HIDE DEF entry
<1>5. BatchBytes(file, rec) = Length[Content[entry]]
  <2>1. IsFiniteSet({}) /\ {} \in SUBSET Entry /\ {} \cup {entry} = {entry}
    BY FS_EmptySet
  <2>2. Total(Weights, {entry}) = Total(Weights, {}) + Weights[entry]
    BY <1>4, <2>1, EntryTotals
  <2>3. Weights[entry] \in Nat /\ Weights[entry] = Length[Content[entry]]
    BY <1>4, WeightsType DEF Weights, Bytes
  <2>4. BytesOf({entry}) = Total(Weights, {entry})
    BY <1>4, BytesAsTotal
  <2> QED
    BY <1>2, <1>3, <2>2, <2>3, <2>4, TotalEmpty DEF BatchBytes
<1>6. L1!PushOnto(<<entry>>, Length[Content[entry]])
  BY <1>3, <1>5, PushSeen
<1> QED
  BY <1>6 DEF L1!Push, entry

-----------------------------------------------------------------------------
(* The cache of level1.c and level2.c.                                     *)

\* An instance counts as the module itself does.
LEMMA SameCardinality == \A S : L1!Cardinality(S) = Cardinality(S)
BY Zenon DEF L1!Cardinality, Cardinality

\* Both walk a chain in the same way and stop at the same node.
LEMMA WalkSeen ==
  ASSUME CacheTypeOK, NEW p \in Payload
  PROVE  /\ L1!BucketOf(p) = Bucket(p) /\ Bucket(p) \in Buckets
         /\ Chain(p) \in Seq(Payload) /\ table \in [Buckets -> Seq(Payload)]
         /\ L1!Matches(p) = {i \in DOMAIN Chain(p) : Match(Chain(p)[i], p)}
         /\ Found(p) <=> L1!Matches(p) # {}
         /\ L1!Cursor(p) = Stop(p)
         /\ Chain(p) # <<>> => L1!FromCursor(p) = Walked(p)
         /\ Chain(p) = <<>> => L1!FromCursor(p) = <<>>
<1>1. L1!BucketOf(p) = Bucket(p) /\ Bucket(p) \in Buckets
  BY BucketType DEF L1!BucketOf, Bucket
<1>2. Chain(p) \in Seq(Payload) /\ table[L1!BucketOf(p)] = Chain(p)
      /\ table \in [Buckets -> Seq(Payload)]
  BY <1>1 DEF Chain, CacheTypeOK
<1>3. L1!Matches(p) = {i \in DOMAIN Chain(p) : Match(Chain(p)[i], p)}
  BY <1>2 DEF L1!Matches, Match
<1>4. L1!Matches(p) \ {1} = Later(p)
  <2>1. DOMAIN Chain(p) = 1..Len(Chain(p)) /\ Len(Chain(p)) \in Nat
    BY <1>2
  <2> QED
    BY <1>3, <2>1 DEF Later
<1>5. L1!Cursor(p) = Stop(p)
  <2>1. L1!Cursor(p) = IF Later(p) = {} THEN Len(Chain(p)) ELSE L1!Min(Later(p))
    BY <1>2, <1>4, Zenon DEF L1!Cursor
  <2>2. L1!Min(Later(p)) = CHOOSE i \in Later(p) : \A j \in Later(p) : i <= j
    BY Zenon DEF L1!Min
  <2> QED
    BY <2>1, <2>2, Zenon DEF Stop
<1>6. Found(p) <=> L1!Matches(p) # {}
  BY <1>3 DEF Found
<1>7. /\ Chain(p) # <<>> => L1!FromCursor(p) = Walked(p)
      /\ Chain(p) = <<>> => L1!FromCursor(p) = <<>>
  BY <1>2, <1>5 DEF L1!FromCursor, Walked
<1> QED
  BY <1>1, <1>2, <1>3, <1>5, <1>6, <1>7

\* And count the same.
LEMMA CountSeen ==
  ASSUME CacheTypeOK, NEW p \in Payload, NEW b \in Nat,
         Found(p) => /\ cacheHits' = cacheHits + HitsOf(p)
                     /\ totalDuplicateBytes' = totalDuplicateBytes + b,
         ~Found(p) => UNCHANGED <<cacheHits, totalDuplicateBytes>>
  PROVE  L1!CountHits(p, b)
<1> DEFINE hits == L1!Matches(p) \cap {1, L1!Cursor(p)}
<1>1. L1!Cursor(p) = Stop(p)
      /\ L1!Matches(p) = {i \in DOMAIN Chain(p) : Match(Chain(p)[i], p)}
      /\ (Found(p) <=> L1!Matches(p) # {})
  BY WalkSeen
<1>2. CASE Found(p)
  <2>1. Chain(p) # <<>> /\ Chain(p) \in Seq(Payload)
    BY <1>2, FoundInChain, WalkSeen
  <2>2. DOMAIN Chain(p) = 1..Len(Chain(p)) /\ Len(Chain(p)) \in Nat \ {0}
    BY <2>1
  <2>3. Stop(p) \in DOMAIN Chain(p) /\ 1 \in DOMAIN Chain(p)
    BY <2>1, <2>2, StopType
  <2>4. hits = {i \in {1} \cup {Stop(p)} : Match(Chain(p)[i], p)}
    BY <1>1, <2>3
  <2>5. hits # {}
    <3>1. CASE Later(p) = {}
      BY <1>2, <2>2, <2>4, <3>1 DEF Found, Later
    <3>2. CASE Later(p) # {}
      <4>1. Later(p) \in SUBSET Nat
        BY <2>2 DEF Later
      <4>2. Stop(p) \in Later(p)
        BY <3>2, <4>1, LeastNumber DEF Stop
      <4> QED
        BY <2>4, <4>2 DEF Later
    <3> QED
      BY <3>1, <3>2
  <2>6. Cardinality(hits) = HitsOf(p)
    BY <2>4 DEF HitsOf
  <2> QED
    BY <1>2, <2>5, <2>6, SameCardinality DEF L1!CountHits
<1>3. CASE ~Found(p)
  <2>1. hits = {}
    BY <1>1, <1>3
  <2>2. Cardinality(hits) = 0
    BY <2>1, FS_EmptySet
  <2>3. cacheHits \in Nat /\ totalDuplicateBytes \in Nat
    BY DEF CacheTypeOK
  <2> QED
    BY <1>3, <2>1, <2>2, <2>3, SameCardinality DEF L1!CountHits
<1> QED
  BY <1>2, <1>3

\* The consumer's way through the section of `cache'.
LEMMA LookedSeen ==
  ASSUME Inv, NEW c \in Consumers, ConsumerLookup(c)
  PROVE  /\ L1!Looked(c)
         /\ Held[c] = packet[c] /\ packet[c] \in Entry
         /\ Content[packet[c]] \in Payload
<1>1. TypeOK /\ ConsProcess(c)
  BY DEF Inv, ConsumerLookup
<1>2. packet[c] \in Entry /\ Content[packet[c]] \in Payload
  <2>1. packet[c] \in Entry
    BY <1>1 DEF ConsProcess, Inv, NoEmptyPop, TypeOK
  <2> QED
    BY <2>1, WeightsType
<1>3. UNCHANGED <<MainPoint, ProdPoint, buffer, complete, fileVars, totalBytes>>
  BY <1>1 DEF ConsumerLookup, ConsProcess, bufferVars, MainPoint, ProdPoint
<1>4. Points[c] = "busy" /\ Points' = [Points EXCEPT ![c] = "run"]
  BY <1>1, PointMoves DEF ConsProcess, PointOf
<1>5. /\ packet' = [packet EXCEPT ![c] = NoPacket]
      /\ pcCons' = [pcCons EXCEPT ![c] = "lock"] /\ pcCons[c] = "process"
  BY <1>1 DEF ConsProcess, SetCons
<1>6. Popped' = Popped /\ c \notin Popped
  BY <1>1, <1>5 DEF Popped, TypeOK
<1>7. \A d \in Consumers : packet'[d] = IF d = c THEN NoPacket ELSE packet[d]
  BY <1>1, <1>5 DEF TypeOK
<1>8. Uncounted' = Uncounted
  <2>1. {packet'[d] : d \in Popped} = {packet[d] : d \in Popped}
    BY <1>6, <1>7 DEF Popped
  <2> QED
    BY <1>3, <1>6, <2>1 DEF Uncounted
<1>9. Held' = [Held EXCEPT ![c] = NoPacket] /\ Held[c] = packet[c]
  BY <1>6, <1>7 DEF Held
<1> QED
  BY <1>2, <1>3, <1>4, <1>8, <1>9 DEF L1!Looked, L1!Set, L1!fileVars, fileVars, Points

\* A lookup at level 1.
LEMMA CheckSeen ==
  ASSUME Inv, CacheTypeOK, level = 1, NEW c \in Consumers, ConsumerLookup(c)
  PROVE  L1!Check(c)
<1> DEFINE p == Content[packet[c]]
<1>1. L1!Looked(c) /\ Held[c] = packet[c] /\ p \in Payload
  BY LookedSeen
<1>2. Lookup(p, FirstIndex(packet[c]))
  BY DEF ConsumerLookup
<1> HIDE DEF p
<1>3. (Found(p) /\ Hit(p)) \/ (~Found(p) /\ Store(p, FirstIndex(packet[c])))
  BY <1>2 DEF Lookup, Hit, Store, EvictOwn, EvictOther, Pass
<1>4. L1!CountHits(p, Length[p])
  <2>1. Bytes(p) = Length[p] /\ Length[p] \in Nat
    BY <1>1, PayloadAssumption DEF Bytes
  <2> QED
    BY <1>1, <1>3, <2>1, CountSeen DEF Hit, Store, counters
<1>5. table' = [table EXCEPT ![L1!BucketOf(p)] =
                   IF L1!Matches(p) = {} THEN Append(@, p) ELSE L1!FromCursor(p)]
  <2>1. CASE Found(p)
    <3>1. L1!FromCursor(p) = Walked(p) /\ L1!Matches(p) # {} /\ L1!BucketOf(p) = Bucket(p)
      BY <1>1, <2>1, WalkSeen, FoundInChain
    <3> QED
      BY <1>3, <2>1, <3>1 DEF Hit, SetChain
  <2>2. CASE ~Found(p)
    <3>1. L1!Matches(p) = {} /\ L1!BucketOf(p) = Bucket(p)
      BY <1>1, <2>2, WalkSeen
    <3> QED
      BY <1>3, <2>2, <3>1 DEF Store, SetChain, Chain
  <2> QED
    BY <2>1, <2>2
<1> QED
  BY <1>1, <1>4, <1>5 DEF L1!Check, p

-----------------------------------------------------------------------------
(* Agreement with level1.c.                                                *)

\* Records out of range are not brought to the buffer.
LEMMA InRangeStep ==
  ASSUME Inv, InRange, [Next]_vars
  PROVE  InRange'
<1>1. CASE ProdRead
  <2>1. rec' = rec + 1 /\ pcProd' # "read" => Files[file][rec + 1] # 0
    BY <1>1 DEF ProdRead
  <2>2. file' = file /\ pcProd' \in {"read", "lock", "finish"}
    BY <1>1 DEF ProdRead
  <2>3. pcProd' = "lock" => rec' = rec + 1
    BY <1>1 DEF ProdRead
  <2> QED
    BY <2>1, <2>2, <2>3 DEF InRange
<1>2. CASE ~ProdRead /\ pcProd' \in {"lock", "push", "waiting"}
  <2>1. UNCHANGED fileVars /\ pcProd \in {"lock", "push", "waiting"}
    BY <1>2 DEF Next, vars, threadVars, ProducerStep, ProdLock, ProdWait, ProdPush, ProdFinish,
       ConsumerStep, ConsLock, ConsCheck, ConsWait, ConsPop, ConsCount, ConsProcess,
       MainStep, MainOpen, MainJoinProd, MainSignal, MainDrained, MainBroadcast, MainJoinCons,
       MainReport, SpuriousProd, SpuriousCons, Terminated, Inv, MainOrder
  <2> QED
    BY <2>1 DEF InRange, fileVars
<1> QED
  BY <1>1, <1>2 DEF InRange

\* Every step of the threads that leaves the cache alone is a step, or none,
\* of the programs that were merged.
LEMMA CommonSeen ==
  ASSUME Inv, HeldWhilePopped, [RENext]_reVars, ~ProducerPush,
         \A c \in Consumers : ~ConsumerLookup(c)
  PROVE  /\ UNCHANGED L1!level1Vars \/ L1!Common
         /\ UNCHANGED totalCacheSize
<1>1. Quiet
  BY DEF Quiet, RENext, reVars, Alone
<1>2. CASE UNCHANGED vars
  <2>1. UNCHANGED <<Points, Uncounted, Held>>
    BY <1>2, SameView DEF vars, threadVars, bufferVars, workVars
  <2>2. UNCHANGED <<MainPoint, ProdPoint, complete, file, rec>>
    BY <1>2 DEF vars, threadVars, fileVars, MainPoint, ProdPoint
  <2> QED
    BY <1>1, <2>1, <2>2, QuietSeen DEF L1!level1Vars, L1!fileVars, Points
<1>3. CASE OtherProducerStep \/ SpuriousProd
  BY <1>1, <1>3, ProducerSeen, QuietSeen DEF OtherProducerStep, L1!Common
<1>4. CASE \E c \in Consumers : OtherConsumerStep(c) \/ SpuriousCons(c)
  BY <1>1, <1>4, ConsumerSeen, QuietSeen DEF OtherConsumerStep, L1!Common
<1>5. CASE MainStep
  BY <1>1, <1>5, MainSeen, QuietSeen DEF MainStep, L1!Common
<1> QED
  BY <1>2, <1>3, <1>4, <1>5 DEF RENext, reVars, Alone, Terminated

\* The programs begin in the same state.
LEMMA InitSeen ==
  ASSUME REInit
  PROVE  L1!Level1Init
<1>1. Popped = {} /\ buffer = <<>>
  BY DEF REInit, Init, Popped
<1>2. Uncounted = <<>>
  BY <1>1, QueueMeaning, InvInit DEF REInit
<1>3. Held = [c \in Consumers |-> NoPacket]
  BY <1>1 DEF Held, REInit, Init
<1>4. Points = [c \in Consumers |-> "done"]
  BY DEF Points, ConsPoint, REInit, Init
<1>5. MainPoint = "open" /\ ProdPoint = "done"
  BY DEF MainPoint, ProdPoint, REInit, Init
<1> QED
  BY <1>2, <1>3, <1>4, <1>5 DEF L1!Level1Init, Points, REInit, Init, CacheInit, Buckets

\* What the refinement rests on.
RefinementInv == Inv /\ HeldWhilePopped /\ InRange /\ CacheTypeOK

\* It holds throughout, and the level stays what it is.
LEMMA RefinementInvHolds ==
  RESpec => [](RefinementInv /\ (level = 1 <=> OneEntryEach))
<1>1. REInit => InRange
  BY DEF REInit, Init, InRange
<1>2. Inv /\ InRange /\ [Next]_vars => InRange'
  BY InRangeStep
<1>3. Spec => []InRange
  <2>1. Init => InRange
    BY DEF Init, InRange
  <2> QED
    BY <1>2, <2>1, InvHolds, PTL DEF Spec
<1>4. FlowInv => HeldWhilePopped
  BY DEF FlowInv
<1>5. CacheInv => CacheTypeOK
  BY DEF CacheInv
<1>6. RESpec => [](level = 1 <=> OneEntryEach)
  <2>1. REInit => (level = 1 <=> OneEntryEach)
    BY DEF REInit
  <2>2. (level = 1 <=> OneEntryEach) /\ [RENext]_reVars => (level = 1 <=> OneEntryEach)'
    BY DEF RENext, reVars, ProducerPush, ConsumerLookup, Lookup, Alone, cacheVars, OneEntryEach
  <2> QED
    BY <2>1, <2>2, PTL DEF RESpec
<1> QED
  BY <1>3, <1>4, <1>5, <1>6, ThreadsOfRE, InvHolds, FlowInvHolds, CacheInvOfRE, PTL
     DEF RefinementInv

\* With one payload to a record threadedRE.c does what level1.c does: the same
\* payloads taken in the same order, with the same results.
THEOREM AgreesWithLevel1 ==
  ASSUME OneEntryEach
  PROVE  RESpec => ImplementsLevel1
<1>1. RefinementInv /\ (level = 1 <=> OneEntryEach) /\ [RENext]_reVars
      => [L1!Level1Next]_(L1!level1Vars)
  <2> SUFFICES ASSUME RefinementInv, level = 1, [RENext]_reVars
               PROVE  [L1!Level1Next]_(L1!level1Vars)
    OBVIOUS
  <2>1. CASE ProducerPush
    BY <2>1, PushOneSeen DEF RefinementInv, L1!Level1Next
  <2>2. CASE \E c \in Consumers : ConsumerLookup(c)
    BY <2>2, CheckSeen DEF RefinementInv, L1!Level1Next
  <2>3. CASE ~ProducerPush /\ \A c \in Consumers : ~ConsumerLookup(c)
    BY <2>3, CommonSeen DEF RefinementInv, L1!Level1Next
  <2> QED
    BY <2>1, <2>2, <2>3
<1>2. REInit => L1!Level1Init
  BY InitSeen
<1> QED
  BY <1>1, <1>2, RefinementInvHolds, PTL DEF RESpec, ImplementsLevel1, L1!Level1Spec

-----------------------------------------------------------------------------
(* Agreement with level2.c.                                                *)

\* level2.c shares the threads of level1.c.
LEMMA SameThreads ==
  /\ L2!Common <=> L1!Common
  /\ L2!Level1Init <=> L1!Level1Init
  /\ L2!level1Vars = L1!level1Vars
<1>1. /\ L2!cacheVars = L1!cacheVars /\ L2!fileVars = L1!fileVars
      /\ L2!level1Vars = L1!level1Vars
  BY DEF L2!cacheVars, L2!fileVars, L2!level1Vars, L2!resultVars,
         L1!cacheVars, L1!fileVars, L1!level1Vars, L1!resultVars
<1>2. L2!Level1Init <=> L1!Level1Init
  BY DEF L2!Level1Init, L1!Level1Init
<1>3. /\ \A c \in Consumers : \A point : L2!Set(c, point) <=> L1!Set(c, point)
      /\ L2!LockFree <=> L1!LockFree
      /\ L2!Signal <=> L1!Signal
  BY DEF L2!Set, L1!Set, L2!LockFree, L1!LockFree, L2!Signal, L1!Signal
<1>4. /\ L2!Read <=> L1!Read
      /\ L2!ProdSleep <=> L1!ProdSleep
      /\ L2!Finish <=> L1!Finish
  BY <1>3 DEF L2!Read, L1!Read, L2!ProdSleep, L1!ProdSleep, L2!Finish, L1!Finish,
     L2!cacheVars, L2!fileVars, L2!resultVars, L1!cacheVars, L1!fileVars, L1!resultVars
<1>5. L2!Spurious <=> L1!Spurious
  BY <1>3 DEF L2!Spurious, L1!Spurious,
     L2!cacheVars, L2!fileVars, L2!resultVars, L1!cacheVars, L1!fileVars, L1!resultVars
<1>6. \A c \in Consumers :
        /\ L2!Take(c) <=> L1!Take(c)
        /\ L2!FindEmpty(c) <=> L1!FindEmpty(c)
        /\ L2!Sleep(c) <=> L1!Sleep(c)
  BY <1>3 DEF L2!Take, L1!Take, L2!FindEmpty, L1!FindEmpty, L2!Sleep, L1!Sleep,
     L2!cacheVars, L2!fileVars, L2!resultVars, L1!cacheVars, L1!fileVars, L1!resultVars
<1>7. /\ L2!Open <=> L1!Open
      /\ L2!JoinProducer <=> L1!JoinProducer
      /\ L2!Drain <=> L1!Drain
      /\ L2!Broadcast <=> L1!Broadcast
      /\ L2!JoinConsumers <=> L1!JoinConsumers
      /\ L2!Report <=> L1!Report
  BY <1>3 DEF L2!Open, L1!Open, L2!JoinProducer, L1!JoinProducer, L2!Drain, L1!Drain,
     L2!Broadcast, L1!Broadcast, L2!JoinConsumers, L1!JoinConsumers, L2!Report, L1!Report,
     L2!cacheVars, L2!fileVars, L2!resultVars, L1!cacheVars, L1!fileVars, L1!resultVars
<1>8. L2!Common <=> L1!Common
  BY <1>4, <1>5, <1>6, <1>7 DEF L2!Common, L1!Common
<1> QED
  BY <1>1, <1>2, <1>8

\* So do their steps around the cache.
LEMMA SameSections ==
  /\ \A entries, bytes : L2!PushOnto(entries, bytes) <=> L1!PushOnto(entries, bytes)
  /\ \A c \in Consumers : L2!Looked(c) <=> L1!Looked(c)
  /\ \A p : /\ L2!BucketOf(p) = L1!BucketOf(p)
            /\ L2!Matches(p) = L1!Matches(p)
            /\ L2!FromCursor(p) = L1!FromCursor(p)
            /\ \A b : L2!CountHits(p, b) <=> L1!CountHits(p, b)
<1>1. /\ L2!LockFree <=> L1!LockFree
      /\ L2!Signal <=> L1!Signal
      /\ \A c \in Consumers : \A point : L2!Set(c, point) <=> L1!Set(c, point)
  BY DEF L2!Set, L1!Set, L2!LockFree, L1!LockFree, L2!Signal, L1!Signal
<1>2. \A entries, bytes : L2!PushOnto(entries, bytes) <=> L1!PushOnto(entries, bytes)
  BY <1>1 DEF L2!PushOnto, L1!PushOnto, L2!cacheVars, L2!fileVars, L2!resultVars,
              L1!cacheVars, L1!fileVars, L1!resultVars
<1>3. \A c \in Consumers : L2!Looked(c) <=> L1!Looked(c)
  BY <1>1 DEF L2!Looked, L1!Looked, L2!fileVars, L1!fileVars
<1>4. ASSUME NEW p
      PROVE  /\ L2!BucketOf(p) = L1!BucketOf(p)
             /\ L2!Matches(p) = L1!Matches(p)
             /\ L2!FromCursor(p) = L1!FromCursor(p)
             /\ \A b : L2!CountHits(p, b) <=> L1!CountHits(p, b)
  <2>1. L2!BucketOf(p) = L1!BucketOf(p)
    BY DEF L2!BucketOf, L1!BucketOf
  <2>2. L2!Matches(p) = L1!Matches(p)
    BY <2>1 DEF L2!Matches, L1!Matches
  <2>3. \A S : L2!Min(S) = L1!Min(S) /\ L2!Cardinality(S) = L1!Cardinality(S)
    BY Zenon DEF L2!Min, L1!Min, L2!Cardinality, L1!Cardinality
  <2>4. L2!Cursor(p) = L1!Cursor(p)
    BY <2>1, <2>2, <2>3 DEF L2!Cursor, L1!Cursor
  <2>5. L2!FromCursor(p) = L1!FromCursor(p)
    BY <2>1, <2>4 DEF L2!FromCursor, L1!FromCursor
  <2>6. \A b : L2!CountHits(p, b) <=> L1!CountHits(p, b)
    BY <2>2, <2>3, <2>4 DEF L2!CountHits, L1!CountHits
  <2> QED
    BY <2>1, <2>2, <2>5, <2>6
<1> QED
  BY <1>2, <1>3, <1>4

\* At level 2 every entry weighs 64 bytes.
LEMMA WindowsWeigh ==
  ASSUME level = 2, NEW S \in SUBSET Entry, IsFiniteSet(S)
  PROVE  BytesOf(S) = 64 * Cardinality(S)
<1> DEFINE Good == {T \in SUBSET S : Total(Weights, T) = 64 * Cardinality(T)}
<1>1. {} \in Good
  BY TotalEmpty, FS_EmptySet
<1>2. ASSUME NEW T \in SUBSET S, NEW x \in S \ T, T \in Good
      PROVE  T \cup {x} \in Good
  <2>1. IsFiniteSet(T) /\ T \in SUBSET Entry /\ x \in Entry \ T
    BY FS_Subset
  <2>2. Cardinality(T \cup {x}) = Cardinality(T) + 1 /\ Cardinality(T) \in Nat
    BY <2>1, FS_AddElement, FS_CardinalityType
  <2>3. Total(Weights, T \cup {x}) = Total(Weights, T) + 64
    BY <2>1, EntryTotals DEF Weights, Bytes
  <2>4. Total(Weights, T) = 64 * Cardinality(T)
    BY <1>2
  <2>5. Total(Weights, T \cup {x}) = 64 * Cardinality(T \cup {x})
    BY <2>2, <2>3, <2>4
  <2> QED
    BY <2>5
<1> HIDE DEF Good
<1>3. S \in Good
  BY <1>1, <1>2, SubsetInduction
<1> QED
  BY <1>3, BytesAsTotal DEF Good

\* All windows of a record are pushed at once.
LEMMA PushWindowsSeen ==
  ASSUME Inv, level = 2, ProducerPush
  PROVE  L2!PushWindows
<1> DEFINE n == Files[file][rec]
           S == {Batch(file, rec)[w] : w \in 1..n}
           f == [w \in 1..n |-> <<file, rec, w>>]
<1>1. file \in DOMAIN Files /\ rec \in DOMAIN Files[file]
  BY FilesAssumption, RecordsType
     DEF Inv, ProducerPush, ProdPush, MainOrder, TypeOK, Records, MainControl
<1>2. n \in Nat
  BY <1>1, FilesAssumption
<1>3. Batch(file, rec) = f
  BY DEF Batch
<1>4. S \subseteq Entry /\ IsFiniteSet(S) /\ Cardinality(S) = n
  <2>1. \A w \in 1..n : f[w] \in Entry
    BY <1>1, EntryIntro
  <2>2. f \in Bijection(1..n, S)
    <3>1. f \in [1..n -> S] /\ \A s \in S : \E w \in 1..n : f[w] = s
      BY <1>3
    <3>2. \A v, w \in 1..n : f[v] = f[w] => v = w
      OBVIOUS
    <3> QED
      BY <3>1, <3>2 DEF Bijection, Injection, Surjection, IsInjective
  <2>3. IsFiniteSet(1..n) /\ Cardinality(1..n) = n
    <3>1. ASSUME NEW m \in Nat
          PROVE  IsFiniteSet(1..m) /\ Cardinality(1..m) = m
      <4>1. IsFiniteSet(1..m) /\ Cardinality(1..m) = IF 1 > m THEN 0 ELSE m - 1 + 1
        BY FS_Interval
      <4> QED
        BY <4>1
    <3> QED
      BY <1>2, <3>1
  <2>4. ExistsBijection(1..n, S)
    BY <2>2, Zenon DEF ExistsBijection
  <2>5. S \subseteq Entry
    BY <1>3, <2>1
  <2> QED
    BY <2>3, <2>4, <2>5, FS_Bijection, Zenon
<1>5. BatchBytes(file, rec) = 64 * n
  BY <1>4, WindowsWeigh DEF BatchBytes
<1>6. L1!PushOnto(f, 64 * n)
  BY <1>3, <1>5, PushSeen
<1>7. L2!PushOnto(f, 64 * n)
  BY <1>6, SameSections
<1> QED
  BY <1>7 DEF L2!PushWindows

\* A lookup at level 2.
LEMMA CheckWindowSeen ==
  ASSUME Inv, CacheTypeOK, level = 2, NEW c \in Consumers, ConsumerLookup(c)
  PROVE  L2!CheckWindow(c)
<1> DEFINE e == packet[c]
           p == Content[e]
           insert == L2!Matches(p) = {} /\ (e[3] - 1) % 32 = 0
           first == L2!Min({b \in DOMAIN table : table[b] # <<>>})
<1>1. /\ L2!Looked(c) /\ Held[c] = e /\ p \in Payload
  BY LookedSeen, SameSections
<1>2. Lookup(p, FirstIndex(e))
  BY DEF ConsumerLookup
<1> HIDE DEF p, e
<1>3. /\ L2!BucketOf(p) = Bucket(p) /\ table[Bucket(p)] = Chain(p)
      /\ Found(p) <=> L2!Matches(p) # {}
      /\ Chain(p) # <<>> => L2!FromCursor(p) = Walked(p)
      /\ Chain(p) = <<>> => L2!FromCursor(p) = <<>>
  BY <1>1, WalkSeen, SameSections DEF Chain
<1>4. L2!CountHits(p, 64)
  <2>1. Bytes(p) = 64
    BY DEF Bytes
  <2>2. Found(p) => /\ cacheHits' = cacheHits + HitsOf(p)
                    /\ totalDuplicateBytes' = totalDuplicateBytes + 64
    BY <1>2, <2>1 DEF Lookup, Hit, Store, EvictOwn, EvictOther, Pass
  <2>3. ~Found(p) => UNCHANGED <<cacheHits, totalDuplicateBytes>>
    BY <1>2 DEF Lookup, Hit, Store, EvictOwn, EvictOther, Pass, counters
  <2>4. L1!CountHits(p, 64)
    BY <1>1, <2>2, <2>3, CountSeen
  <2> QED
    BY <2>4, SameSections
<1>5. insert <=> ~Found(p) /\ Aligned(FirstIndex(e))
  BY <1>3 DEF Aligned, FirstIndex
<1>6. L2!Room <=> Room
  BY DEF L2!Room, Room
<1>7. first = Victim
  <2>1. DOMAIN table = Buckets
    BY DEF CacheTypeOK
  <2>2. {b \in DOMAIN table : table[b] # <<>>} = NonEmpty
    BY <2>1 DEF NonEmpty
  <2> QED
    BY <2>2, Zenon DEF L2!Min, Victim
<1> HIDE DEF insert, first
<1>8. totalCacheSize \in Int
  BY DEF CacheTypeOK
<1>9. /\ \/ /\ insert /\ L2!Room
            /\ table' = [table EXCEPT ![L2!BucketOf(p)] = Append(table[L2!BucketOf(p)], p)]
         \/ /\ insert /\ ~L2!Room /\ table[L2!BucketOf(p)] # <<>>
            /\ table' = [table EXCEPT ![L2!BucketOf(p)] = Append(Tail(L2!FromCursor(p)), p)]
         \/ /\ insert /\ ~L2!Room /\ table[L2!BucketOf(p)] = <<>>
            /\ table' = [table EXCEPT ![first] = Tail(@), ![L2!BucketOf(p)] = <<p>>]
         \/ /\ ~insert
            /\ table' = [table EXCEPT ![L2!BucketOf(p)] = L2!FromCursor(p)]
      /\ totalCacheSize' = totalCacheSize + (IF insert /\ L2!Room THEN NodeSize ELSE 0)
  <2>1. CASE Hit(p)
    <3>1. ~insert /\ L2!FromCursor(p) = Walked(p)
      BY <1>3, <1>5, <2>1, FoundInChain DEF Hit
    <3>2. table' = [table EXCEPT ![Bucket(p)] = Walked(p)] /\ totalCacheSize' = totalCacheSize
      BY <2>1 DEF Hit, SetChain
    <3> QED
      BY <1>3, <1>8, <3>1, <3>2
  <2>2. CASE Store(p, FirstIndex(e))
    BY <1>3, <1>5, <1>6, <2>2 DEF Store, SetChain
  <2>3. CASE EvictOwn(p, FirstIndex(e))
    BY <1>3, <1>5, <1>6, <1>8, <2>3 DEF EvictOwn, SetChain
  <2>4. CASE EvictOther(p, FirstIndex(e))
    BY <1>3, <1>5, <1>6, <1>7, <1>8, <2>4 DEF EvictOther
  <2>5. CASE Pass(p, FirstIndex(e))
    <3>1. ~insert
      BY <1>5, <2>5 DEF Pass
    <3>2. table' = [table EXCEPT ![Bucket(p)] = L2!FromCursor(p)]
      BY <1>3, <2>5 DEF Pass, SetChain
    <3>3. totalCacheSize' = totalCacheSize
      BY <2>5 DEF Pass
    <3> QED
      BY <1>3, <1>8, <3>1, <3>2, <3>3
  <2> QED
    BY <1>2, <2>1, <2>2, <2>3, <2>4, <2>5 DEF Lookup
<1> QED
  BY <1>1, <1>4, <1>9 DEF L2!CheckWindow, insert, first, p, e

\* With windows threadedRE.c does what level2.c does, evictions included.
THEOREM AgreesWithLevel2 ==
  ASSUME ~OneEntryEach
  PROVE  RESpec => ImplementsLevel2
<1>1. RefinementInv /\ (level = 1 <=> OneEntryEach) /\ [RENext]_reVars
      => [L2!Level2Next]_(L2!level2Vars)
  <2> SUFFICES ASSUME RefinementInv, level = 2, [RENext]_reVars
               PROVE  [L2!Level2Next]_(L2!level2Vars)
    BY DEF RefinementInv, CacheTypeOK
  <2>1. CASE ProducerPush
    <3>1. UNCHANGED totalCacheSize
      BY <2>1 DEF ProducerPush, cacheVars
    <3> QED
      BY <2>1, <3>1, PushWindowsSeen DEF RefinementInv, L2!Level2Next
  <2>2. CASE \E c \in Consumers : ConsumerLookup(c)
    BY <2>2, CheckWindowSeen DEF RefinementInv, L2!Level2Next
  <2>3. CASE ~ProducerPush /\ \A c \in Consumers : ~ConsumerLookup(c)
    <3>1. UNCHANGED totalCacheSize /\ (UNCHANGED L1!level1Vars \/ L1!Common)
      BY <2>3, CommonSeen DEF RefinementInv
    <3>2. CASE L1!Common
      BY <3>1, <3>2, SameThreads DEF L2!Level2Next
    <3>3. CASE UNCHANGED L1!level1Vars
      <4>1. UNCHANGED L2!level1Vars
        BY <3>3, SameThreads DEF L1!level1Vars, L2!level1Vars,
           L1!cacheVars, L1!fileVars, L1!resultVars, L2!cacheVars, L2!fileVars, L2!resultVars
      <4> QED
        BY <3>1, <4>1 DEF L2!level2Vars
    <3> QED
      BY <3>1, <3>2, <3>3
  <2> QED
    BY <2>1, <2>2, <2>3
<1>2. REInit => L2!Level1Init /\ totalCacheSize = 0
  BY InitSeen, SameThreads DEF REInit, CacheInit
<1> QED
  BY <1>1, <1>2, RefinementInvHolds, PTL DEF RESpec, ImplementsLevel2, L2!Level2Spec
=============================================================================
