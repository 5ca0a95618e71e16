---------------------------- MODULE PacketCache ----------------------------
(***************************************************************************)
(* The cache of threadedRE.c: a table of singly linked chains, looked up   *)
(* and extended by the consumers under the mutex `cache'.  A lookup is one *)
(* critical section, hence one step; its branches are the actions below.   *)
(*                                                                         *)
(* The bucket in the table is the cursor of the walk through its own       *)
(* chain: g_MyBigTable[bucket] = g_MyBigTable[bucket]->next.  A branch     *)
(* that does not put the head back leaves the bucket at the node where the *)
(* walk stopped, and the nodes before it are out of reach from then on.    *)
(*                                                                         *)
(* A payload is a model value with a hash and a length; which payloads     *)
(* memcmp finds equal is a relation on them.                               *)
(*                                                                         *)
(* A definition headed "Fault:" is a faulty variant of the one after it.   *)
(***************************************************************************)
EXTENDS Integers, Sequences, FiniteSets

CONSTANTS
  Payload,     \* what packets can hold
  Hash,        \* Hash[p] = hashlittle(p), a 32-bit number
  Length,      \* Length[p]: bytes of p read from the file, at level 1
  Agree,       \* pairs <<e, p>> that agree on the bytes of p
  NumBuckets,  \* 30000 in the code
  NodeSize,    \* sizeof(struct Node)
  CacheLimit,  \* 64000000 in the code
  Offsets,     \* the values of packet.firstIndex
  MaxLookups   \* bound on the lookups of one behaviour

ASSUME PayloadAssumption ==
  /\ IsFiniteSet(Payload)
  /\ Hash \in [Payload -> Nat]
  /\ Length \in [Payload -> Nat]
  /\ Agree \subseteq Payload \X Payload
  /\ \A p \in Payload : <<p, p>> \in Agree

ASSUME SizeAssumption ==
  /\ NumBuckets \in Nat \ {0}
  /\ NodeSize \in Nat \ {0}
  /\ CacheLimit \in Nat
  /\ CacheLimit > NodeSize
  /\ Offsets \subseteq Nat
  /\ MaxLookups \in Nat

VARIABLES
  level,                \* 1: whole payloads; 2: 64-byte windows, bounded cache
  table,                \* g_MyBigTable: the chain reachable from each bucket
  totalCacheSize,       \* bytes, as the code counts them
  cacheHits,            \* as in the code
  totalDuplicateBytes,  \* as in the code
  allocated,            \* nodes malloc'ed and not freed (history)
  seen, lookups         \* payloads looked up, how many times (history)

counters  == <<cacheHits, totalDuplicateBytes>>
history   == <<seen, lookups>>
cacheVars == <<level, table, totalCacheSize, counters, allocated, history>>

Buckets == 0..(NumBuckets - 1)
Bucket(p) == Hash[p] % NumBuckets
Chain(p) == table[Bucket(p)]

\* packet.bytes
Bytes(p) == IF level = 2 THEN 64 ELSE Length[p]

-----------------------------------------------------------------------------
(* The walk through the chain.                                             *)

\* The comparison of an entry e with the packet p.
Match(e, p) == Hash[e] = Hash[p] /\ <<e, p>> \in Agree

\* Fault: the walk stops one node short of the end.
FoundSkipsLast(p) == \E i \in 1..(Len(Chain(p)) - 1) : Match(Chain(p)[i], p)

Found(p) == \E i \in DOMAIN Chain(p) : Match(Chain(p)[i], p)

\* The loop looks at the entries after the head and stops at the first match,
\* even when the head has matched already.
Later(p) == {i \in 2..Len(Chain(p)) : Match(Chain(p)[i], p)}

Stop(p) ==
  IF Later(p) = {}
  THEN Len(Chain(p))
  ELSE CHOOSE i \in Later(p) : \A j \in Later(p) : i <= j

\* What the bucket holds after the loop.
Walked(p) == SubSeq(Chain(p), Stop(p), Len(Chain(p)))

HitsOf(p) ==
  Cardinality({i \in {1} \cup {Stop(p)} : Match(Chain(p)[i], p)})

-----------------------------------------------------------------------------
(* Inserting and evicting.                                                 *)

Room == totalCacheSize < CacheLimit - NodeSize

\* "32 bytes since our last insertion" is a multiple of 32.
Aligned(firstIndex) == firstIndex % 32 = 0

NonEmpty == {b \in Buckets : table[b] # <<>>}

\* The scan for the first bucket that holds a node.
Victim == CHOOSE b \in NonEmpty : \A other \in NonEmpty : b <= other

SetChain(p, chain) == table' = [table EXCEPT ![Bucket(p)] = chain]

\* Fault: a match at the head is not counted.
HitCountsLater(p) ==
  /\ Found(p)
  /\ SetChain(p, Walked(p))
  /\ cacheHits' = cacheHits + (IF Later(p) = {} THEN 0 ELSE 1)
  /\ totalDuplicateBytes' = totalDuplicateBytes + Bytes(p)
  /\ UNCHANGED <<totalCacheSize, allocated>>

\* Fault: the duplicate bytes of a match at the head are forgotten.
HitForgetsHead(p) ==
  /\ Found(p)
  /\ SetChain(p, Walked(p))
  /\ cacheHits' = cacheHits + HitsOf(p)
  /\ totalDuplicateBytes' =
       totalDuplicateBytes + (IF Later(p) = {} THEN 0 ELSE Bytes(p))
  /\ UNCHANGED <<totalCacheSize, allocated>>

\* A match: the bucket stays where the walk stopped.
Hit(p) ==
  /\ Found(p)
  /\ SetChain(p, Walked(p))
  /\ cacheHits' = cacheHits + HitsOf(p)
  /\ totalDuplicateBytes' = totalDuplicateBytes + Bytes(p)
  /\ UNCHANGED <<totalCacheSize, allocated>>

\* Fault: a payload already found is inserted again.
StoreAlways(p, firstIndex) ==
  /\ level = 2 => Room /\ Aligned(firstIndex)
  /\ SetChain(p, Append(Chain(p), p))
  /\ allocated' = allocated + 1
  /\ totalCacheSize' = IF level = 2 THEN totalCacheSize + NodeSize ELSE totalCacheSize
  /\ UNCHANGED counters

\* Fault: the packet of the new node is never assigned.
StoreUninitialised(p, firstIndex) ==
  /\ ~Found(p)
  /\ level = 2 => Room /\ Aligned(firstIndex)
  /\ SetChain(p, Append(Chain(p), "uninitialised"))
  /\ allocated' = allocated + 1
  /\ totalCacheSize' = IF level = 2 THEN totalCacheSize + NodeSize ELSE totalCacheSize
  /\ UNCHANGED counters

\* No match and a new node: it goes to the end of the chain, and the bucket
\* is put back to the head.  Level 1 has no limit and does not count bytes.
Store(p, firstIndex) ==
  /\ ~Found(p)
  /\ level = 2 => Room /\ Aligned(firstIndex)
  /\ SetChain(p, Append(Chain(p), p))
  /\ allocated' = allocated + 1
  /\ totalCacheSize' = IF level = 2 THEN totalCacheSize + NodeSize ELSE totalCacheSize
  /\ UNCHANGED counters

\* Fault: the node taken out is not freed.
EvictLeaks(p, firstIndex) ==
  /\ ~Found(p) /\ level = 2 /\ ~Room /\ Aligned(firstIndex)
  /\ Chain(p) # <<>>
  /\ SetChain(p, Append(Tail(Walked(p)), p))
  /\ allocated' = allocated + 1
  /\ UNCHANGED <<totalCacheSize, counters>>

\* The cache is full and the bucket has a chain: the node at the bucket,
\* which the walk has moved, is freed, and the new node takes its place.
EvictOwn(p, firstIndex) ==
  /\ ~Found(p) /\ level = 2 /\ ~Room /\ Aligned(firstIndex)
  /\ Chain(p) # <<>>
  /\ SetChain(p, Append(Tail(Walked(p)), p))
  /\ UNCHANGED <<totalCacheSize, allocated, counters>>

\* Fault: the node evicted is not replaced, but counted as such.
EvictOnly(p, firstIndex) ==
  /\ ~Found(p) /\ level = 2 /\ ~Room /\ Aligned(firstIndex)
  /\ Chain(p) = <<>>
  /\ table' = [table EXCEPT ![Victim] = Tail(@)]
  /\ UNCHANGED <<totalCacheSize, allocated, counters>>

\* The cache is full and the bucket is empty: the first node of the first
\* bucket that has one is freed.
EvictOther(p, firstIndex) ==
  /\ ~Found(p) /\ level = 2 /\ ~Room /\ Aligned(firstIndex)
  /\ Chain(p) = <<>>
  /\ table' = [table EXCEPT ![Victim] = Tail(@), ![Bucket(p)] = <<p>>]
  /\ UNCHANGED <<totalCacheSize, allocated, counters>>

\* No match, and not the place for an insertion: the walk alone.
Pass(p, firstIndex) ==
  /\ ~Found(p) /\ level = 2 /\ ~Aligned(firstIndex)
  /\ SetChain(p, IF Chain(p) = <<>> THEN <<>> ELSE Walked(p))
  /\ UNCHANGED <<totalCacheSize, allocated, counters>>

\* One critical section of the mutex `cache'.
Lookup(p, firstIndex) ==
  /\ \/ Hit(p)
     \/ Store(p, firstIndex)
     \/ EvictOwn(p, firstIndex)
     \/ EvictOther(p, firstIndex)
     \/ Pass(p, firstIndex)
  /\ seen' = seen \cup {p}
  /\ lookups' = lookups + 1
  /\ UNCHANGED level

-----------------------------------------------------------------------------
CacheInit ==
  /\ level \in {1, 2}
  /\ table = [b \in Buckets |-> <<>>]
  /\ totalCacheSize = 0
  /\ cacheHits = 0
  /\ totalDuplicateBytes = 0
  /\ allocated = 0
  /\ seen = {}
  /\ lookups = 0

CacheNext ==
  /\ lookups < MaxLookups
  /\ \E p \in Payload, firstIndex \in Offsets : Lookup(p, firstIndex)

\* The consumers have no packet left.
CacheIdle == lookups = MaxLookups /\ UNCHANGED cacheVars

CacheSpec == CacheInit /\ [][CacheNext \/ CacheIdle]_cacheVars

-----------------------------------------------------------------------------
(* Properties.                                                             *)

\* Types.
CacheTypeOK ==
  /\ level \in {1, 2}
  /\ table \in [Buckets -> Seq(Payload)]
  /\ totalCacheSize \in Nat
  /\ cacheHits \in Nat
  /\ totalDuplicateBytes \in Nat
  /\ allocated \in Nat
  /\ seen \in SUBSET Payload
  /\ lookups \in Nat

\* Whenever an eviction may be called for, its scan over the buckets ends
\* inside the table: a full cache never has all its buckets empty, although
\* the walks lose most of the nodes that were counted.
VictimExists == ~Room => NonEmpty # {}

\* At level 2 the size the code keeps is the size of the nodes allocated,
\* those out of reach included, and stays below the limit.
SizeBounded ==
  level = 2 =>
    /\ totalCacheSize = NodeSize * allocated
    /\ totalCacheSize < CacheLimit

\* A chain holds payloads of its own bucket, and no payload that an entry
\* before it or after it matches: a lookup can meet one match only.
ChainsSound ==
  \A b \in Buckets : \A i, j \in DOMAIN table[b] :
    /\ Bucket(table[b][i]) = b
    /\ Match(table[b][i], table[b][j]) => i = j

Cached == UNION {{table[b][i] : i \in DOMAIN table[b]} : b \in Buckets}

\* The cache is a filter that may forget, but never reports a payload that it
\* does not hold and never misses one that it does.
Filter == INSTANCE RedundancyFilter WITH
            Items <- Payload, mode <- level,
            Weight <- [l \in {1, 2} |->
                         [p \in Payload |-> IF l = 2 THEN 64 ELSE Length[p]]],
            Same <- {q \in Payload \X Payload : Match(q[1], q[2])},
            known <- Cached, hits <- cacheHits, weight <- totalDuplicateBytes

FilterSpec == Filter!Spec

\* Separate chaining keeps the payloads that share a bucket: at level 1,
\* where nothing is evicted, what is in the cache stays in it.
EntriesStay == [][level = 1 => Cached \subseteq Cached']_cacheVars
=============================================================================
