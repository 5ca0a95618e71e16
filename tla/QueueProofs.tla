---------------------------- MODULE QueueProofs ----------------------------
(***************************************************************************)
(* Proofs about TwoLockQueue: who owns which node, for any number of       *)
(* threads at each end, any memory and any items.                          *)
(***************************************************************************)
EXTENDS TwoLockQueue, FiniteSetTheorems, SequenceTheorems, WellFoundedInduction, TLAPS

\* A set of natural numbers that is not empty has a least element.
LEMMA LeastNumber ==
  ASSUME NEW S \in SUBSET Nat, S # {}
  PROVE  \E i \in S : \A j \in S : i <= j
<1>1. PICK i \in S : \A j \in S : ~(<<j, i>> \in OpToRel(<, Nat))
  BY NatLessThanWellFounded, WFMin
<1>2. \A j \in S : ~(j < i)
  BY <1>1 DEF OpToRel
<1> QED
  BY <1>2

\* Induction over the natural numbers, for a property given as a set.
LEMMA NatSetInduction ==
  ASSUME NEW P \in SUBSET Nat, 0 \in P, \A n \in P : n + 1 \in P
  PROVE  \A n \in Nat : n \in P
<1> SUFFICES ASSUME Nat \ P # {} PROVE FALSE
  OBVIOUS
<1>1. PICK n \in Nat \ P : \A m \in Nat \ P : n <= m
  BY LeastNumber
<1>2. n - 1 \in Nat /\ n - 1 \notin Nat \ P
  BY <1>1
<1>3. (n - 1) + 1 \in P
  BY <1>2
<1> QED
  BY <1>1, <1>3

-----------------------------------------------------------------------------
(* The inductive invariant.                                                *)

Threads == Pushers \cup Poppers

\* Types of the pointers, the fields and the locals.
QueueTypeOK ==
  /\ head \in Node /\ tail \in Node \cup {NULL}
  /\ headLock \in Poppers \cup {Unlocked} /\ tailLock \in Pushers \cup {Unlocked}
  /\ next \in [Node -> Node \cup {NULL}] /\ p \in [Node -> Item \cup {NoItem}]
  /\ live \subseteq Node
  /\ pc \in [Threads -> {"idle", "lock", "link", "advance", "unlock",
                         "first", "empty", "copy", "swing", "free"}]
  /\ tmp \in [Threads -> Node \cup {NULL}]
  /\ newHead \in [Poppers -> Node \cup {NULL}]
  /\ got \in [Poppers -> Item \cup {NoItem}]
  /\ pushed \subseteq Item /\ popped \subseteq Item

\* Each end is worked on by the owner of its mutex.
EndsLocked ==
  /\ \A t \in Pushers :
       /\ pc[t] \in {"idle", "lock", "link", "advance", "unlock"}
       /\ tailLock = t <=> pc[t] \in {"link", "advance", "unlock"}
  /\ \A t \in Poppers :
       /\ pc[t] \in {"idle", "first", "empty", "copy", "swing", "unlock", "free"}
       /\ headLock = t <=> pc[t] \in {"first", "empty", "copy", "swing", "unlock"}

\* L is the list that starts at the head: its nodes are linked in a row, and
\* no node comes twice.
IsList(L) ==
  /\ L \in Seq(Node) /\ L # <<>>
  /\ L[1] = head
  /\ \A i \in 1..Len(L) : next[L[i]] = IF i = Len(L) THEN NULL ELSE L[i + 1]
  /\ \A i, j \in 1..Len(L) : L[i] = L[j] => i = j

Last(L) == L[Len(L)]

\* The tail is the last node, or null after a push without memory; only
\* between the two assignments of a push it may be some other node, even one
\* that has been freed.
TailAt(L) ==
  /\ \A t \in Pushers : pc[t] = "advance" => tail # NULL /\ tmp[t] \in {NULL, Last(L)}
  /\ (\A t \in Pushers : pc[t] # "advance") => tail \in {NULL, Last(L)}

\* What a popper has read of the first two nodes stays true until it moves
\* the head.
HeadAt(L) ==
  \A t \in Poppers :
    pc[t] \in {"copy", "swing"} => Len(L) > 1 /\ tmp[t] = head /\ newHead[t] = L[2]

\* A node belongs to the list, to the push that has not linked it or to the
\* pop that has taken it out, and to nobody else.
Linking == {t \in Pushers : pc[t] \in {"lock", "link"} /\ tmp[t] # NULL}
Freeing == {t \in Poppers : pc[t] \in {"unlock", "free"}}
Private == Linking \cup Freeing

OneOwner(L) ==
  /\ live = {L[i] : i \in 1..Len(L)} \cup {tmp[t] : t \in Private}
  /\ \A t \in Private : tmp[t] # NULL /\ \A i \in 1..Len(L) : tmp[t] # L[i]
  /\ \A t, u \in Private : tmp[t] = tmp[u] => t = u
  /\ \A t \in Linking : next[tmp[t]] = NULL
  /\ \A t \in Pushers : pc[t] = "idle" => tmp[t] = NULL

\* The nodes that hold an item: all of the list but the first, and those that
\* are to be linked.
Full(L) == {L[i] : i \in 2..Len(L)} \cup {tmp[t] : t \in Linking}

\* An item is in one node, or in the hands of one pop that has moved the
\* head, or popped.
ItemsApart(L) ==
  /\ popped \subseteq pushed
  /\ \A n \in Full(L) : p[n] \in pushed \ popped
  /\ \A n, m \in Full(L) : p[n] = p[m] => n = m
  /\ \A t \in Poppers : pc[t] = "swing" => got[t] = p[L[2]]
  /\ \A t \in Freeing : got[t] \in pushed \ popped /\ \A n \in Full(L) : got[t] # p[n]
  /\ \A t, u \in Freeing : got[t] = got[u] => t = u

\* The items in the list, oldest first, and those that have been taken out of
\* it and not yet returned.
ItemsOf(L) == [i \in 1..(Len(L) - 1) |-> p[L[i + 1]]]
InHands == [t \in Poppers |-> IF t \in Freeing THEN got[t] ELSE NoItem]

\* The items that are nowhere, and the pushes that have no node for theirs.
Lost(L) == pushed \ (popped \cup {p[n] : n \in Full(L)} \cup {got[t] : t \in Freeing})
NoNode == {t \in Pushers : pc[t] \in {"lock", "link", "advance"} /\ tmp[t] = NULL}

Holds(L) == IsList(L) /\ TailAt(L) /\ HeadAt(L) /\ OneOwner(L) /\ ItemsApart(L)

\* Each item that is nowhere is that of a push without a node, or of the last
\* such push that moved the tail.
Accounted(L) ==
  /\ IsFiniteSet(Lost(L)) /\ IsFiniteSet(NoNode)
  /\ Cardinality(Lost(L)) = Cardinality(NoNode) + (IF tail = NULL THEN 1 ELSE 0)

QueueInv ==
  QueueTypeOK /\ EndsLocked /\ \E L \in Seq(Node) : Holds(L) /\ Accounted(L)

-----------------------------------------------------------------------------
(* What the invariant says of nodes.                                       *)

\* The nodes of the list and those of the threads are in use.
LEMMA InUse ==
  ASSUME NEW L \in Seq(Node), Holds(L)
  PROVE  /\ Len(L) \in Nat /\ Len(L) > 0
         /\ DOMAIN L = 1..Len(L)
         /\ \A i \in 1..Len(L) : L[i] \in Node /\ L[i] \in live
         /\ \A t \in Private : tmp[t] \in live
         /\ Full(L) \subseteq live
         /\ Last(L) \in Node
         /\ head = L[1]
<1>1. Len(L) \in Nat /\ DOMAIN L = 1..Len(L) /\ L # <<>>
  BY LenProperties DEF Holds, IsList
<1>2. Len(L) > 0
  BY <1>1, EmptySeq
<1>3. \A i \in 1..Len(L) : L[i] \in Node
  BY <1>1, ElementOfSeq
<1>4. /\ \A i \in 1..Len(L) : L[i] \in live
      /\ \A t \in Private : tmp[t] \in live
  BY DEF Holds, OneOwner
<1>5. Full(L) \subseteq live
  <2>1. 2..Len(L) \subseteq 1..Len(L)
    BY <1>1
  <2> QED
    BY <1>4, <2>1 DEF Full, Private
<1>6. Last(L) \in Node
  BY <1>1, <1>2, <1>3 DEF Last
<1> QED
  BY <1>1, <1>2, <1>3, <1>4, <1>5, <1>6 DEF Holds, IsList

\* A queue just made is a list of the dummy.
LEMMA QueueInvInit == QueueInit => QueueInv
<1> SUFFICES ASSUME QueueInit PROVE QueueInv
  OBVIOUS
<1>1. QueueTypeOK /\ EndsLocked
  BY QueueAssumption DEF QueueInit, QueueTypeOK, EndsLocked, Threads
<1>2. PICK d \in Node : head = d /\ tail = d /\ live = {d}
  BY DEF QueueInit
<1> DEFINE L == <<d>>
<1>3. L \in Seq(Node) /\ Len(L) = 1 /\ L[1] = d /\ L # <<>>
  OBVIOUS
<1> HIDE DEF L
<1>4. Private = {} /\ Linking = {} /\ Freeing = {}
  BY DEF QueueInit, Private, Linking, Freeing
<1>5. Full(L) = {}
  BY <1>3, <1>4 DEF Full
<1>6. Holds(L)
  BY <1>2, <1>3, <1>4, <1>5
     DEF QueueInit, Holds, IsList, TailAt, HeadAt, OneOwner, ItemsApart, Last
<1>7. Lost(L) = {} /\ NoNode = {} /\ tail # NULL
  BY <1>2, QueueAssumption DEF QueueInit, Lost, NoNode
<1>8. Accounted(L)
  BY <1>7, FS_EmptySet DEF Accounted
<1> QED
  BY <1>1, <1>3, <1>6, <1>8 DEF QueueInv

-----------------------------------------------------------------------------
(* The steps of a push.                                                    *)

\* A step that leaves the queue as it is.
Same(L) ==
  /\ Holds(L)' /\ ItemsOf(L)' = ItemsOf(L)
  /\ UNCHANGED <<InHands, popped>>

\* A new node belongs to the push alone.
LEMMA PushAllocStep ==
  ASSUME QueueTypeOK, EndsLocked, NEW L \in Seq(Node), Holds(L),
         NEW t \in Pushers, PushAlloc(t)
  PROVE  QueueTypeOK' /\ EndsLocked' /\ Same(L) /\ Lost(L)' = Lost(L)
<1> USE DEF Goto
<1>1. PICK n \in Node \ live, item \in Item \ pushed :
        /\ live' = live \cup {n}
        /\ p' = [p EXCEPT ![n] = item]
        /\ next' = [next EXCEPT ![n] = NULL]
        /\ tmp' = [tmp EXCEPT ![t] = n]
        /\ pushed' = pushed \cup {item}
  BY DEF PushAlloc
<1>2. QueueTypeOK' /\ EndsLocked'
  BY <1>1, QueueAssumption DEF PushAlloc, QueueTypeOK, EndsLocked, ends, locks, Threads
<1>3. /\ t \notin Private
      /\ Linking' = Linking \cup {t} /\ Freeing' = Freeing /\ Private' = Private \cup {t}
  BY <1>1, QueueAssumption DEF PushAlloc, Linking, Freeing, Private, QueueTypeOK, Threads
<1>4. /\ tmp'[t] = n /\ p'[n] = item /\ next'[n] = NULL
      /\ \A u \in Private : tmp'[u] = tmp[u]
      /\ \A m \in live : m # n /\ p'[m] = p[m] /\ next'[m] = next[m]
  BY <1>1, <1>3 DEF QueueTypeOK, Threads, Private, Linking, Freeing
<1>5. Full(L)' = Full(L) \cup {n}
  BY <1>3, <1>4 DEF Full, Private
<1>6. IsList(L)'
  BY <1>4, InUse DEF Holds, IsList, PushAlloc, ends
<1>7. TailAt(L)' /\ HeadAt(L)'
  BY <1>1 DEF Holds, TailAt, HeadAt, PushAlloc, ends, QueueTypeOK, Threads
<1>8. OneOwner(L)'
  <2>1. live' = {L[i] : i \in 1..Len(L)} \cup {tmp'[u] : u \in Private'}
    BY <1>1, <1>3, <1>4 DEF Holds, OneOwner
  <2>2. \A u \in Private' : tmp'[u] # NULL /\ \A i \in 1..Len(L) : tmp'[u] # L[i]
    BY <1>3, <1>4, InUse, QueueAssumption DEF Holds, OneOwner
  <2>3. \A u, v \in Private' : tmp'[u] = tmp'[v] => u = v
    BY <1>3, <1>4, InUse DEF Holds, OneOwner
  <2>4. \A u \in Linking' : next'[tmp'[u]] = NULL
    BY <1>3, <1>4, InUse DEF Holds, OneOwner, Private
  <2>5. \A u \in Pushers : pc'[u] = "idle" => tmp'[u] = NULL
    BY <1>1 DEF PushAlloc, Holds, OneOwner, QueueTypeOK, Threads
  <2> QED
    BY <2>1, <2>2, <2>3, <2>4, <2>5 DEF OneOwner
<1>9. ItemsApart(L)'
  <2>1. \A m \in Full(L) : p'[m] = p[m] /\ p[m] # item /\ m # n
    BY <1>4, InUse DEF Holds, ItemsApart
  <2>2. \A u \in Poppers : pc[u] = "swing" => L[2] \in Full(L)
    BY InUse DEF Holds, HeadAt, Full
  <2> QED
    BY <1>1, <1>3, <1>4, <1>5, <2>1, <2>2 DEF Holds, ItemsApart, PushAlloc, QueueTypeOK, Threads
<1>10. ItemsOf(L)' = ItemsOf(L) /\ UNCHANGED <<InHands, popped>>
  <2>1. \A i \in 1..(Len(L) - 1) : L[i + 1] \in live
    BY InUse
  <2> QED
    BY <1>3, <1>4, <2>1 DEF PushAlloc, ItemsOf, InHands
<1>11. Lost(L)' = Lost(L)
  <2>1. \A m \in Full(L) : p'[m] = p[m]
    BY <1>4, InUse
  <2>2. {p'[m] : m \in Full(L)'} = {p[m] : m \in Full(L)} \cup {item}
    BY <1>4, <1>5, <2>1
  <2>3. /\ item \notin popped
        /\ item \notin {p[m] : m \in Full(L)}
        /\ item \notin {got[u] : u \in Freeing}
    BY DEF Holds, ItemsApart
  <2>4. {got'[u] : u \in Freeing'} = {got[u] : u \in Freeing}
    BY <1>3 DEF PushAlloc
  <2>5. Lost(L)' = pushed' \ (popped \cup {p'[m] : m \in Full(L)'} \cup {got[u] : u \in Freeing})
    BY <1>10, <2>4 DEF Lost
  <2> QED
    BY <1>1, <2>2, <2>3, <2>5 DEF Lost
<1> QED
  BY <1>2, <1>6, <1>7, <1>8, <1>9, <1>10, <1>11 DEF Holds, Same

\* Steps that change no node, no owner of a node and no item that is held.
LEMMA QuietStep ==
  ASSUME NEW L \in Seq(Node), Holds(L), IsList(L)', TailAt(L)', HeadAt(L)',
         UNCHANGED <<live, p, pushed, popped>>,
         Linking' = Linking, Freeing' = Freeing,
         \A u \in Private : tmp'[u] = tmp[u],
         \A u \in Freeing : got'[u] = got[u],
         \A u \in Linking : next'[tmp[u]] = next[tmp[u]],
         \A u \in Poppers : pc'[u] = "swing" => got'[u] = p[L[2]],
         \A u \in Pushers : pc'[u] = "idle" => tmp'[u] = NULL
  PROVE  Same(L) /\ Lost(L)' = Lost(L)
<1>1. Private' = Private
  BY DEF Private
<1>2. Full(L)' = Full(L)
  BY DEF Full, Private
<1>3. OneOwner(L)'
  BY <1>1 DEF Holds, OneOwner, Private
<1>4. ItemsApart(L)'
  BY <1>2 DEF Holds, ItemsApart
<1>5. ItemsOf(L)' = ItemsOf(L) /\ InHands' = InHands
  BY DEF ItemsOf, InHands
<1>6. {got'[u] : u \in Freeing} = {got[u] : u \in Freeing}
  OBVIOUS
<1>7. Lost(L)' = Lost(L)
  BY <1>2, <1>6 DEF Lost
<1> QED
  BY <1>3, <1>4, <1>5, <1>7 DEF Holds, Same

\* A push without memory loses the item it was called with.
LEMMA PushAllocFailsStep ==
  ASSUME QueueTypeOK, EndsLocked, NEW L \in Seq(Node), Holds(L),
         NEW t \in Pushers, PushAllocFails(t)
  PROVE  /\ QueueTypeOK' /\ EndsLocked' /\ Same(L) /\ tmp[t] = NULL
         /\ \E item : item \notin Lost(L) /\ Lost(L)' = Lost(L) \cup {item}
<1> USE DEF Goto
<1>1. QueueTypeOK' /\ EndsLocked'
  BY QueueAssumption
     DEF PushAllocFails, QueueTypeOK, EndsLocked, ends, locks, heap, locals, Threads
<1>2. tmp[t] = NULL
  BY DEF PushAllocFails, Holds, OneOwner
<1>3. Linking' = Linking /\ Freeing' = Freeing
  BY <1>2, QueueAssumption
     DEF PushAllocFails, Linking, Freeing, QueueTypeOK, Threads, locals
<1>4. Private' = Private /\ Full(L)' = Full(L)
  BY <1>3 DEF PushAllocFails, Private, Full, locals
<1>5. IsList(L)' /\ HeadAt(L)' /\ TailAt(L)'
  BY QueueAssumption DEF PushAllocFails, Holds, IsList, HeadAt, TailAt, ends, heap, locals, QueueTypeOK, Threads
<1>6. OneOwner(L)'
  BY <1>2, <1>3, <1>4 DEF PushAllocFails, Holds, OneOwner, heap, locals, QueueTypeOK, Threads
<1>7. ItemsApart(L)'
  BY <1>3, <1>4 DEF PushAllocFails, Holds, ItemsApart, heap, locals, QueueTypeOK, Threads
<1>8. ItemsOf(L)' = ItemsOf(L) /\ UNCHANGED <<InHands, popped>>
  BY <1>3 DEF PushAllocFails, ItemsOf, InHands, heap, locals
<1>9. PICK item \in Item \ pushed : pushed' = pushed \cup {item}
  BY DEF PushAllocFails
<1>10. item \notin Lost(L) /\ Lost(L)' = Lost(L) \cup {item}
  <2>1. /\ item \notin popped
        /\ item \notin {p[m] : m \in Full(L)}
        /\ item \notin {got[u] : u \in Freeing}
    BY <1>9 DEF Holds, ItemsApart
  <2> QED
    BY <1>3, <1>4, <1>9, <2>1 DEF PushAllocFails, Lost, heap, locals
<1> QED
  BY <1>1, <1>2, <1>5, <1>6, <1>7, <1>8, <1>10 DEF Holds, Same

\* Taking the mutex of the tail, or writing through a null tail.
LEMMA PushLockStep ==
  ASSUME QueueTypeOK, EndsLocked, NEW L \in Seq(Node), Holds(L),
         NEW t \in Pushers, PushLock(t) \/ PushFaults(t)
  PROVE  QueueTypeOK' /\ EndsLocked' /\ Same(L) /\ Lost(L)' = Lost(L)
<1> USE DEF Goto, PushLock, PushFaults
<1>1. QueueTypeOK' /\ EndsLocked'
  BY QueueAssumption DEF QueueTypeOK, EndsLocked, ends, locks, heap, locals, Threads
<1>2. Linking' = Linking /\ Freeing' = Freeing
  BY QueueAssumption DEF Linking, Freeing, QueueTypeOK, Threads, locals
<1>3. IsList(L)' /\ HeadAt(L)' /\ TailAt(L)'
  BY QueueAssumption DEF Holds, IsList, HeadAt, TailAt, ends, heap, locals, QueueTypeOK, Threads
<1>4. /\ UNCHANGED <<live, p, next, tmp, got, pushed, popped>>
      /\ \A u \in Poppers : pc'[u] = pc[u]
      /\ \A u \in Pushers : pc'[u] = "idle" => pc[u] = "idle"
  BY QueueAssumption DEF heap, locals, QueueTypeOK, Threads
<1>5. /\ \A u \in Poppers : pc'[u] = "swing" => got'[u] = p[L[2]]
      /\ \A u \in Pushers : pc'[u] = "idle" => tmp'[u] = NULL
  BY <1>4 DEF Holds, ItemsApart, OneOwner
<1>6. Same(L) /\ Lost(L)' = Lost(L)
  BY <1>2, <1>3, <1>4, <1>5, QuietStep
<1> QED
  BY <1>1, <1>6

\* A step that appends node n to the list.
Linked(L, M, n) ==
  /\ Holds(M)' /\ ItemsOf(M)' = Append(ItemsOf(L), p[n])
  /\ UNCHANGED <<InHands, popped>>
  /\ Lost(M)' = Lost(L)

\* With the mutex of the tail the tail is the last node, if it is one.
LEMMA PushLinkStep ==
  ASSUME QueueTypeOK, EndsLocked, NEW L \in Seq(Node), Holds(L),
         NEW t \in Pushers, PushLink(t)
  PROVE  /\ QueueTypeOK' /\ EndsLocked'
         /\ tmp[t] = NULL => Same(L) /\ Lost(L)' = Lost(L)
         /\ tmp[t] # NULL => t \in Linking /\ \E M \in Seq(Node) : Linked(L, M, tmp[t])
<1> USE DEF Goto
<1>1. tail = Last(L) /\ tail \in Node
  <2>1. \A u \in Pushers : pc[u] # "advance"
    BY DEF EndsLocked, PushLink
  <2> QED
    BY <2>1, InUse DEF Holds, TailAt, PushLink
<1>2. QueueTypeOK' /\ EndsLocked'
  BY <1>1, QueueAssumption DEF PushLink, QueueTypeOK, EndsLocked, ends, locks, locals, Threads
<1>3. /\ UNCHANGED <<live, p, tmp, got, pushed, popped, newHead, head, tail>>
      /\ \A u \in Poppers : pc'[u] = pc[u]
      /\ \A u \in Pushers : pc'[u] = IF u = t THEN "advance" ELSE pc[u]
      /\ \A m \in Node : next'[m] = IF m = Last(L) THEN tmp[t] ELSE next[m]
  BY <1>1, QueueAssumption DEF PushLink, ends, locals, QueueTypeOK, Threads
<1>4. Freeing' = Freeing /\ Linking' = Linking \ {t}
  BY <1>3 DEF Linking, Freeing
<1>5. \A u \in Pushers : u # t => pc[u] \notin {"link", "advance", "unlock"}
  BY DEF EndsLocked, PushLink
<1>6. CASE tmp[t] = NULL
  <2>1. UNCHANGED next
    <3>1. next[Last(L)] = NULL
      BY InUse DEF Holds, IsList, Last
    <3> QED
      BY <1>1, <1>6, <3>1 DEF PushLink, QueueTypeOK
  <2>2. Linking' = Linking
    BY <1>4, <1>6 DEF Linking
  <2>3. IsList(L)' /\ HeadAt(L)'
    BY <1>3, <2>1 DEF Holds, IsList, HeadAt
  <2>4. TailAt(L)'
    BY <1>3, <1>5, <1>6 DEF PushLink, TailAt
  <2>5. Same(L) /\ Lost(L)' = Lost(L)
    BY <1>3, <1>4, <2>1, <2>2, <2>3, <2>4, QuietStep DEF Holds, ItemsApart, OneOwner
  <2> QED
    BY <1>2, <1>6, <2>5
<1>7. CASE tmp[t] # NULL
  <2> DEFINE n == tmp[t]
  <2>1. t \in Linking /\ t \in Private /\ n \in Node
    BY <1>7 DEF Linking, Private, PushLink, QueueTypeOK, Threads
  <2>2. PICK M \in Seq(Node) : M = Append(L, n)
    BY <2>1, AppendProperties
  <2>3. /\ Len(M) = Len(L) + 1 /\ M # <<>>
        /\ M[Len(L) + 1] = n
        /\ \A i \in 1..Len(L) : M[i] = L[i]
    BY <2>1, <2>2, AppendProperties, LenProperties
  <2>4. /\ Len(L) \in Nat /\ Len(L) > 0
        /\ \A i \in 1..Len(L) : L[i] \in Node
    BY InUse
  <2>5. /\ \A i \in 1..Len(L) : n # L[i]
        /\ \A u \in Private : tmp[u] = n => u = t
        /\ next[n] = NULL
    BY <2>1 DEF Holds, OneOwner
  <2>6. Last(M) = n /\ n # Last(L)
    BY <2>3, <2>4, <2>5 DEF Last
  <2> HIDE DEF n
  <2>7. IsList(M)'
    <3>1. M[1] = head
      BY <2>3, <2>4 DEF Holds, IsList
    <3>2. \A i \in 1..Len(M) : i \in 1..Len(L) \/ i = Len(L) + 1
      BY <2>3, <2>4
    <3>3. \A i, j \in 1..Len(M) : M[i] = M[j] => i = j
      BY <2>3, <2>4, <2>5, <3>2 DEF Holds, IsList
    <3>4. \A i \in 1..Len(M) : next'[M[i]] = IF i = Len(M) THEN NULL ELSE M[i + 1]
      <4> SUFFICES ASSUME NEW i \in 1..Len(M)
                   PROVE  next'[M[i]] = IF i = Len(M) THEN NULL ELSE M[i + 1]
        OBVIOUS
      <4>1. CASE i = Len(L) + 1
        BY <1>3, <2>1, <2>3, <2>4, <2>5, <2>6, <4>1
      <4>2. CASE i = Len(L)
        BY <1>3, <2>3, <2>4, <4>2 DEF Last, n
      <4>3. CASE i \in 1..Len(L) /\ i # Len(L)
        <5>1. next[L[i]] = L[i + 1] /\ i + 1 \in 1..Len(L) /\ L[i] # Last(L)
          BY <2>4, <4>3 DEF Holds, IsList, Last
        <5> QED
          BY <1>3, <2>3, <2>4, <4>3, <5>1
      <4> QED
        BY <3>2, <4>1, <4>2, <4>3
    <3> QED
      BY <1>3, <2>3, <3>1, <3>3, <3>4 DEF IsList
  <2>8. TailAt(M)'
    BY <1>1, <1>3, <1>5, <2>6, QueueAssumption DEF TailAt, n
  <2>9. HeadAt(M)'
    BY <1>3, <2>3, <2>4 DEF Holds, HeadAt
  <2>10. Private' = Private \ {t}
    BY <1>4, QueueAssumption DEF Private, Freeing
  <2>11. {M[i] : i \in 1..Len(M)} = {L[i] : i \in 1..Len(L)} \cup {n}
    <3>1. 1..Len(M) = (1..Len(L)) \cup {Len(L) + 1}
      BY <2>3, <2>4
    <3> QED
      BY <2>3, <3>1
  <2>12. OneOwner(M)'
    <3>1. live' = {M[i] : i \in 1..Len(M)} \cup {tmp'[u] : u \in Private'}
      <4>1. {tmp[u] : u \in Private} = {tmp'[u] : u \in Private'} \cup {n}
        BY <1>3, <2>1, <2>10 DEF n
      <4>2. live' = {L[i] : i \in 1..Len(L)} \cup {tmp[u] : u \in Private}
        BY <1>3 DEF Holds, OneOwner
      <4> QED
        BY <2>11, <4>1, <4>2
    <3>2. \A u \in Private' : tmp'[u] # NULL /\ \A i \in 1..Len(M) : tmp'[u] # M[i]
      <4>1. \A u \in Private' : tmp'[u] # NULL /\ tmp'[u] # n
                                 /\ \A i \in 1..Len(L) : tmp'[u] # L[i]
        BY <1>3, <2>5, <2>10 DEF Holds, OneOwner
      <4>2. \A i \in 1..Len(M) : M[i] = n \/ \E j \in 1..Len(L) : M[i] = L[j]
        BY <2>11
      <4> QED
        BY <4>1, <4>2
    <3>3. \A u, v \in Private' : tmp'[u] = tmp'[v] => u = v
      BY <1>3, <2>10 DEF Holds, OneOwner
    <3>4. \A u \in Linking' : next'[tmp'[u]] = NULL
      <4>1. \A u \in Linking' : tmp[u] \in Node /\ tmp[u] # Last(L)
        <5>1. \A u \in Linking' : u \in Private /\ u \in Threads /\ tmp[u] # NULL
          BY <1>4 DEF Linking, Private, Threads
        <5>2. \A u \in Linking' : tmp[u] # L[Len(L)]
          BY <2>4, <5>1 DEF Holds, OneOwner
        <5> QED
          BY <5>1, <5>2 DEF QueueTypeOK, Last
      <4> QED
        BY <1>3, <1>4, <4>1 DEF Holds, OneOwner
    <3>5. \A u \in Pushers : pc'[u] = "idle" => tmp'[u] = NULL
      BY <1>3 DEF Holds, OneOwner
    <3> QED
      BY <3>1, <3>2, <3>3, <3>4, <3>5 DEF OneOwner
  <2>13. Full(M)' = Full(L)
    <3>1. 2..Len(M) = (2..Len(L)) \cup {Len(L) + 1}
      BY <2>3, <2>4
    <3>2. \A i \in 2..Len(L) : M[i] = L[i]
      BY <2>3, <2>4
    <3>3. {M[i] : i \in 2..Len(M)} = {L[i] : i \in 2..Len(L)} \cup {n}
      BY <2>3, <3>1, <3>2
    <3>4. {tmp'[u] : u \in Linking'} \cup {n} = {tmp[u] : u \in Linking}
      BY <1>3, <1>4, <2>1 DEF n
    <3> QED
      BY <3>3, <3>4 DEF Full
  <2>14. \A u \in Poppers : pc[u] = "swing" => M[2] = L[2]
    BY <2>3, <2>4 DEF Holds, HeadAt
  <2>15. ItemsApart(M)'
    BY <1>3, <1>4, <2>13, <2>14 DEF Holds, ItemsApart
  <2>16. Holds(M)'
    BY <2>7, <2>8, <2>9, <2>12, <2>15 DEF Holds
  <2>17. Lost(M)' = Lost(L) /\ UNCHANGED <<InHands, popped>>
    BY <1>3, <1>4, <2>13 DEF Lost, InHands
  <2>18. ItemsOf(M)' = Append(ItemsOf(L), p[n])
    <3>1. /\ Len(ItemsOf(L)) = Len(L) - 1 /\ DOMAIN ItemsOf(L) = 1..(Len(L) - 1)
          /\ ItemsOf(L) \in Seq({p[m] : m \in Node})
      <4>1. \A i \in 1..(Len(L) - 1) : L[i + 1] \in Node
        BY <2>4
      <4>2. ItemsOf(L) \in [1..(Len(L) - 1) -> {p[m] : m \in Node}]
        BY <4>1 DEF ItemsOf
      <4> QED
        BY <2>4, <4>2, SeqDef
    <3>2. /\ DOMAIN Append(ItemsOf(L), p[n]) = 1..Len(L)
          /\ \A i \in 1..(Len(L) - 1) : Append(ItemsOf(L), p[n])[i] = p[L[i + 1]]
          /\ Append(ItemsOf(L), p[n])[Len(L)] = p[n]
          /\ Append(ItemsOf(L), p[n]) = [i \in 1..Len(L) |-> Append(ItemsOf(L), p[n])[i]]
      BY <2>1, <2>4, <3>1, AppendProperties DEF ItemsOf
    <3>3. ItemsOf(M)' = [i \in 1..Len(L) |-> p[M[i + 1]]]
      BY <1>3, <2>3, <2>4 DEF ItemsOf
    <3>4. \A i \in 1..Len(L) : p[M[i + 1]] = Append(ItemsOf(L), p[n])[i]
      <4> SUFFICES ASSUME NEW i \in 1..Len(L)
                   PROVE  p[M[i + 1]] = Append(ItemsOf(L), p[n])[i]
        OBVIOUS
      <4>1. CASE i = Len(L)
        BY <2>3, <3>2, <4>1
      <4>2. CASE i # Len(L)
        <5>1. i + 1 \in 1..Len(L) /\ i \in 1..(Len(L) - 1)
          BY <2>4, <4>2
        <5>2. M[i + 1] = L[i + 1]
          BY <2>3, <5>1
        <5> QED
          BY <3>2, <5>1, <5>2
      <4> QED
        BY <4>1, <4>2
    <3> QED
      BY <3>2, <3>3, <3>4
  <2>19. Linked(L, M, n)
    BY <2>16, <2>17, <2>18 DEF Linked
  <2> QED
    BY <1>2, <1>7, <2>1, <2>19 DEF n
<1> QED
  BY <1>6, <1>7

\* The tail is the last node again, or null after a push without memory.
LEMMA PushAdvanceStep ==
  ASSUME QueueTypeOK, EndsLocked, NEW L \in Seq(Node), Holds(L),
         NEW t \in Pushers, PushAdvance(t)
  PROVE  QueueTypeOK' /\ EndsLocked' /\ Same(L) /\ Lost(L)' = Lost(L)
<1> USE DEF Goto
<1>1. QueueTypeOK' /\ EndsLocked'
  BY QueueAssumption DEF PushAdvance, QueueTypeOK, EndsLocked, locks, heap, locals, Threads
<1>2. /\ UNCHANGED <<live, p, next, tmp, got, newHead, pushed, popped, head>>
      /\ \A u \in Poppers : pc'[u] = pc[u]
      /\ \A u \in Pushers : pc'[u] = IF u = t THEN "unlock" ELSE pc[u]
      /\ pc[t] = "advance" /\ tail' = tmp[t]
  BY QueueAssumption DEF PushAdvance, heap, locals, QueueTypeOK, Threads
<1>3. Linking' = Linking /\ Freeing' = Freeing
  BY <1>2 DEF Linking, Freeing
<1>4. \A u \in Pushers : u # t => pc[u] # "advance"
  BY <1>2 DEF EndsLocked
<1>5. IsList(L)' /\ HeadAt(L)' /\ TailAt(L)'
  BY <1>2, <1>4 DEF Holds, IsList, HeadAt, TailAt
<1>6. /\ \A u \in Poppers : pc'[u] = "swing" => got'[u] = p[L[2]]
      /\ \A u \in Pushers : pc'[u] = "idle" => tmp'[u] = NULL
  BY <1>2 DEF Holds, ItemsApart, OneOwner
<1>7. Same(L) /\ Lost(L)' = Lost(L)
  BY <1>2, <1>3, <1>5, <1>6, QuietStep
<1> QED
  BY <1>1, <1>7

\* The mutex of the tail is freed.
LEMMA PushUnlockStep ==
  ASSUME QueueTypeOK, EndsLocked, NEW L \in Seq(Node), Holds(L),
         NEW t \in Pushers, PushUnlock(t)
  PROVE  QueueTypeOK' /\ EndsLocked' /\ Same(L) /\ Lost(L)' = Lost(L)
<1> USE DEF Goto, Return
<1>1. QueueTypeOK' /\ EndsLocked'
  BY QueueAssumption DEF PushUnlock, QueueTypeOK, EndsLocked, ends, heap, Threads
<1>2. /\ UNCHANGED <<live, p, next, got, newHead, pushed, popped, head, tail>>
      /\ \A u \in Poppers : pc'[u] = pc[u] /\ tmp'[u] = tmp[u]
      /\ \A u \in Pushers : /\ pc'[u] = IF u = t THEN "idle" ELSE pc[u]
                            /\ tmp'[u] = IF u = t THEN NULL ELSE tmp[u]
      /\ pc[t] = "unlock"
  BY QueueAssumption DEF PushUnlock, ends, heap, QueueTypeOK, Threads
<1>3. Linking' = Linking /\ Freeing' = Freeing
  BY <1>2 DEF Linking, Freeing
<1>4. IsList(L)' /\ HeadAt(L)' /\ TailAt(L)'
  BY <1>2 DEF Holds, IsList, HeadAt, TailAt
<1>5. /\ \A u \in Poppers : pc'[u] = "swing" => got'[u] = p[L[2]]
      /\ \A u \in Pushers : pc'[u] = "idle" => tmp'[u] = NULL
      /\ \A u \in Private : tmp'[u] = tmp[u]
  BY <1>2, QueueAssumption DEF Holds, ItemsApart, OneOwner, Private, Linking, Freeing
<1>6. Same(L) /\ Lost(L)' = Lost(L)
  BY <1>2, <1>3, <1>4, <1>5, QuietStep
<1> QED
  BY <1>1, <1>6

-----------------------------------------------------------------------------
(* The steps of a pop.                                                     *)

\* The mutex of the head is taken.
LEMMA PopLockStep ==
  ASSUME QueueTypeOK, EndsLocked, NEW L \in Seq(Node), Holds(L),
         NEW t \in Poppers, PopLock(t)
  PROVE  QueueTypeOK' /\ EndsLocked' /\ Same(L) /\ Lost(L)' = Lost(L)
<1> USE DEF Goto
<1>1. QueueTypeOK' /\ EndsLocked'
  BY QueueAssumption DEF PopLock, QueueTypeOK, EndsLocked, ends, heap, locals, Threads
<1>2. /\ UNCHANGED <<live, p, next, tmp, got, newHead, pushed, popped, head, tail>>
      /\ \A u \in Pushers : pc'[u] = pc[u]
      /\ \A u \in Poppers : pc'[u] = IF u = t THEN "first" ELSE pc[u]
      /\ pc[t] = "idle"
  BY QueueAssumption DEF PopLock, ends, heap, locals, QueueTypeOK, Threads
<1>3. Linking' = Linking /\ Freeing' = Freeing
  BY <1>2 DEF Linking, Freeing
<1>4. IsList(L)' /\ HeadAt(L)' /\ TailAt(L)'
  BY <1>2 DEF Holds, IsList, HeadAt, TailAt
<1>5. /\ \A u \in Poppers : pc'[u] = "swing" => got'[u] = p[L[2]]
      /\ \A u \in Pushers : pc'[u] = "idle" => tmp'[u] = NULL
  BY <1>2 DEF Holds, ItemsApart, OneOwner
<1>6. Same(L) /\ Lost(L)' = Lost(L)
  BY <1>2, <1>3, <1>4, <1>5, QuietStep
<1> QED
  BY <1>1, <1>6

\* What is behind the head is the second node, or nothing.
LEMMA PopFirstStep ==
  ASSUME QueueTypeOK, EndsLocked, NEW L \in Seq(Node), Holds(L),
         NEW t \in Poppers, PopFirst(t)
  PROVE  QueueTypeOK' /\ EndsLocked' /\ Same(L) /\ Lost(L)' = Lost(L)
<1> USE DEF Goto
<1>1. QueueTypeOK' /\ EndsLocked'
  BY QueueAssumption DEF PopFirst, QueueTypeOK, EndsLocked, ends, locks, heap, Threads
<1>2. /\ UNCHANGED <<live, p, next, got, pushed, popped, head, tail>>
      /\ \A u \in Pushers : pc'[u] = pc[u] /\ tmp'[u] = tmp[u]
      /\ \A u \in Poppers : u # t => /\ pc'[u] = pc[u] /\ tmp'[u] = tmp[u]
                                     /\ newHead'[u] = newHead[u]
      /\ pc[t] = "first" /\ tmp'[t] = head /\ newHead'[t] = next[head]
      /\ pc'[t] = IF next[head] = NULL THEN "empty" ELSE "copy"
  BY QueueAssumption DEF PopFirst, ends, heap, QueueTypeOK, Threads
<1>3. Linking' = Linking /\ Freeing' = Freeing
  BY <1>2 DEF Linking, Freeing
<1>4. next[head] # NULL => Len(L) > 1 /\ next[head] = L[2]
  BY InUse DEF Holds, IsList
<1>5. HeadAt(L)'
  BY <1>2, <1>4 DEF Holds, HeadAt
<1>6. IsList(L)' /\ TailAt(L)'
  BY <1>2 DEF Holds, IsList, TailAt
<1>7. /\ \A u \in Poppers : pc'[u] = "swing" => got'[u] = p[L[2]]
      /\ \A u \in Pushers : pc'[u] = "idle" => tmp'[u] = NULL
      /\ \A u \in Private : tmp'[u] = tmp[u]
  BY <1>2, QueueAssumption DEF Holds, ItemsApart, OneOwner, Private, Linking, Freeing
<1>8. Same(L) /\ Lost(L)' = Lost(L)
  BY <1>2, <1>3, <1>5, <1>6, <1>7, QuietStep
<1> QED
  BY <1>1, <1>8

\* A pop of nothing changes nothing.
LEMMA PopEmptyStep ==
  ASSUME QueueTypeOK, EndsLocked, NEW L \in Seq(Node), Holds(L),
         NEW t \in Poppers, PopEmpty(t)
  PROVE  QueueTypeOK' /\ EndsLocked' /\ Same(L) /\ Lost(L)' = Lost(L)
<1> USE DEF Goto, Return
<1>1. QueueTypeOK' /\ EndsLocked'
  BY QueueAssumption DEF PopEmpty, QueueTypeOK, EndsLocked, ends, heap, Threads
<1>2. /\ UNCHANGED <<live, p, next, pushed, popped, head, tail>>
      /\ \A u \in Pushers : pc'[u] = pc[u] /\ tmp'[u] = tmp[u]
      /\ \A u \in Poppers : u # t => /\ pc'[u] = pc[u] /\ tmp'[u] = tmp[u] /\ got'[u] = got[u]
                                     /\ newHead'[u] = newHead[u]
      /\ pc[t] = "empty" /\ pc'[t] = "idle"
  BY QueueAssumption DEF PopEmpty, ends, heap, QueueTypeOK, Threads
<1>3. Linking' = Linking /\ Freeing' = Freeing
  BY <1>2 DEF Linking, Freeing
<1>4. IsList(L)' /\ HeadAt(L)' /\ TailAt(L)'
  BY <1>2 DEF Holds, IsList, HeadAt, TailAt
<1>5. /\ \A u \in Poppers : pc'[u] = "swing" => got'[u] = p[L[2]]
      /\ \A u \in Pushers : pc'[u] = "idle" => tmp'[u] = NULL
      /\ \A u \in Private : tmp'[u] = tmp[u]
      /\ \A u \in Freeing : got'[u] = got[u]
  BY <1>2, QueueAssumption DEF Holds, ItemsApart, OneOwner, Private, Linking, Freeing
<1>6. Same(L) /\ Lost(L)' = Lost(L)
  BY <1>2, <1>3, <1>4, <1>5, QuietStep
<1> QED
  BY <1>1, <1>6

\* The item is copied while its node is still in the list.
LEMMA PopCopyStep ==
  ASSUME QueueTypeOK, EndsLocked, NEW L \in Seq(Node), Holds(L),
         NEW t \in Poppers, PopCopy(t)
  PROVE  QueueTypeOK' /\ EndsLocked' /\ Same(L) /\ Lost(L)' = Lost(L)
<1> USE DEF Goto
<1>1. newHead[t] = L[2] /\ L[2] \in Node
  BY InUse DEF PopCopy, Holds, HeadAt
<1>2. QueueTypeOK' /\ EndsLocked'
  BY <1>1, QueueAssumption DEF PopCopy, QueueTypeOK, EndsLocked, ends, locks, heap, Threads
<1>3. /\ UNCHANGED <<live, p, next, tmp, newHead, pushed, popped, head, tail>>
      /\ \A u \in Pushers : pc'[u] = pc[u]
      /\ \A u \in Poppers : u # t => pc'[u] = pc[u] /\ got'[u] = got[u]
      /\ pc[t] = "copy" /\ pc'[t] = "swing" /\ got'[t] = p[L[2]]
  BY <1>1, QueueAssumption DEF PopCopy, ends, heap, QueueTypeOK, Threads
<1>4. Linking' = Linking /\ Freeing' = Freeing
  BY <1>3 DEF Linking, Freeing
<1>5. IsList(L)' /\ HeadAt(L)' /\ TailAt(L)'
  BY <1>3 DEF Holds, IsList, HeadAt, TailAt
<1>6. /\ \A u \in Poppers : pc'[u] = "swing" => got'[u] = p[L[2]]
      /\ \A u \in Pushers : pc'[u] = "idle" => tmp'[u] = NULL
      /\ \A u \in Freeing : got'[u] = got[u]
  BY <1>3 DEF Holds, ItemsApart, OneOwner, Freeing
<1>7. Same(L) /\ Lost(L)' = Lost(L)
  BY <1>3, <1>4, <1>5, <1>6, QuietStep
<1> QED
  BY <1>2, <1>7

\* A step that takes the first item of the list into the hands of popper t.
Moved(L, M, t) ==
  /\ Holds(M)'
  /\ ItemsOf(L) # <<>> /\ ItemsOf(M)' = Tail(ItemsOf(L))
  /\ InHands[t] = NoItem /\ InHands' = [InHands EXCEPT ![t] = Head(ItemsOf(L))]
  /\ UNCHANGED popped
  /\ Lost(M)' = Lost(L)

\* The first node leaves the list and belongs to the pop; its successor, whose
\* item has been copied, is the dummy from then on.
LEMMA PopSwingStep ==
  ASSUME QueueTypeOK, EndsLocked, NEW L \in Seq(Node), Holds(L),
         NEW t \in Poppers, PopSwing(t)
  PROVE  /\ QueueTypeOK' /\ EndsLocked'
         /\ \E M \in Seq(Node) : Moved(L, M, t)
<1> USE DEF Goto
<1>1. /\ Len(L) > 1 /\ Len(L) \in Nat /\ newHead[t] = L[2] /\ L[2] \in Node
      /\ tmp[t] = L[1] /\ got[t] = p[L[2]]
  BY InUse DEF PopSwing, Holds, HeadAt, ItemsApart
<1>2. QueueTypeOK' /\ EndsLocked'
  BY <1>1, QueueAssumption
     DEF PopSwing, QueueTypeOK, EndsLocked, ends, locks, heap, locals, Threads
<1>3. /\ UNCHANGED <<live, p, next, tmp, got, newHead, pushed, popped, tail>>
      /\ head' = L[2]
      /\ \A u \in Pushers : pc'[u] = pc[u]
      /\ \A u \in Poppers : pc'[u] = IF u = t THEN "unlock" ELSE pc[u]
      /\ pc[t] = "swing"
  BY <1>1, QueueAssumption DEF PopSwing, heap, locals, QueueTypeOK, Threads
<1>4. /\ Linking' = Linking /\ Freeing' = Freeing \cup {t} /\ t \notin Private
      /\ Private' = Private \cup {t}
  BY <1>3, QueueAssumption DEF Linking, Freeing, Private
<1>5. \A u \in Poppers : u # t => pc[u] \notin {"first", "empty", "copy", "swing", "unlock"}
  BY <1>3 DEF EndsLocked
<1>6. PICK M \in Seq(Node) : M = Tail(L)
  <2>1. L # <<>>
    BY <1>1, EmptySeq
  <2>2. Tail(L) \in Seq(Node)
    BY <2>1, HeadTailProperties
  <2> QED
    BY <2>2
<1>7. /\ Len(M) = Len(L) - 1
      /\ \A i \in 1..Len(M) : M[i] = L[i + 1]
  <2>1. L # <<>>
    BY <1>1, EmptySeq
  <2>2. /\ Len(Tail(L)) = Len(L) - 1
        /\ \A i \in 1..Len(Tail(L)) : Tail(L)[i] = L[i + 1]
    BY <2>1, HeadTailProperties
  <2> QED
    BY <1>6, <2>2
<1>8. /\ Len(M) \in Nat /\ Len(M) > 0 /\ M # <<>>
      /\ M[1] = L[2] /\ Last(M) = Last(L)
  BY <1>1, <1>7, EmptySeq DEF Last
<1>9. /\ \A i \in 1..Len(L) : L[i] \in Node
      /\ \A i, j \in 1..Len(L) : L[i] = L[j] => i = j
      /\ \A i \in 1..Len(L) : next[L[i]] = IF i = Len(L) THEN NULL ELSE L[i + 1]
  BY InUse DEF Holds, IsList
<1>10. IsList(M)'
  <2>1. \A i \in 1..Len(M) : i + 1 \in 1..Len(L) /\ (i + 1 = Len(L) <=> i = Len(M))
                             /\ (i # Len(M) => i + 1 \in 1..Len(M))
    BY <1>1, <1>7
  <2>2. \A i \in 1..Len(M) : next[M[i]] = IF i = Len(M) THEN NULL ELSE M[i + 1]
    BY <1>7, <1>9, <2>1
  <2>3. \A i, j \in 1..Len(M) : M[i] = M[j] => i = j
    <3> SUFFICES ASSUME NEW i \in 1..Len(M), NEW j \in 1..Len(M), M[i] = M[j]
                 PROVE  i = j
      OBVIOUS
    <3>1. i + 1 = j + 1
      BY <1>7, <1>9, <2>1
    <3> QED
      BY <1>8, <3>1
  <2> QED
    BY <1>3, <1>8, <2>2, <2>3 DEF IsList
<1>11. TailAt(M)' /\ HeadAt(M)'
  BY <1>3, <1>5, <1>8 DEF Holds, TailAt, HeadAt
<1>12. {L[i] : i \in 1..Len(L)} = {M[i] : i \in 1..Len(M)} \cup {L[1]}
  <2>1. \A i \in 1..Len(L) : i = 1 \/ i - 1 \in 1..Len(M)
    BY <1>1, <1>7
  <2>2. \A i \in 1..Len(L) : i # 1 => L[i] = M[i - 1]
    BY <1>7, <2>1
  <2>3. 1 \in 1..Len(L) /\ \A i \in 1..Len(M) : i + 1 \in 1..Len(L)
    BY <1>1, <1>7
  <2>4. \A i \in 1..Len(M) : M[i] \in {L[j] : j \in 1..Len(L)}
    BY <1>7, <2>3
  <2>5. \A i \in 1..Len(L) : L[i] \in {M[j] : j \in 1..Len(M)} \cup {L[1]}
    BY <2>1, <2>2
  <2> QED
    BY <2>3, <2>4, <2>5
<1>13. OneOwner(M)'
  <2>1. live' = {M[i] : i \in 1..Len(M)} \cup {tmp'[u] : u \in Private'}
    BY <1>1, <1>3, <1>4, <1>12 DEF Holds, OneOwner
  <2>2. \A i \in 1..Len(M) : M[i] # L[1]
    <3> SUFFICES ASSUME NEW i \in 1..Len(M) PROVE M[i] # L[1]
      OBVIOUS
    <3>1. i + 1 \in 1..Len(L) /\ 1 \in 1..Len(L) /\ i + 1 # 1
      BY <1>1, <1>7
    <3> QED
      BY <1>7, <1>9, <3>1
  <2>3. \A u \in Private' : tmp'[u] # NULL /\ \A i \in 1..Len(M) : tmp'[u] # M[i]
    <3>1. \A i \in 1..Len(M) : i + 1 \in 1..Len(L)
      BY <1>1, <1>7
    <3>2. L[1] # NULL
      BY <1>1, <1>9, QueueAssumption
    <3> QED
      BY <1>1, <1>3, <1>4, <1>7, <2>2, <3>1, <3>2 DEF Holds, OneOwner
  <2>4. \A u \in Private : tmp[u] # tmp[t]
    <3>1. 1 \in 1..Len(L)
      BY <1>1
    <3> QED
      BY <1>1, <3>1 DEF Holds, OneOwner
  <2>5. \A u, v \in Private' : tmp'[u] = tmp'[v] => u = v
    BY <1>3, <1>4, <2>4 DEF Holds, OneOwner
  <2>6. /\ \A u \in Linking' : next'[tmp'[u]] = NULL
        /\ \A u \in Pushers : pc'[u] = "idle" => tmp'[u] = NULL
    BY <1>3, <1>4 DEF Holds, OneOwner
  <2> QED
    BY <2>1, <2>3, <2>5, <2>6 DEF OneOwner
<1>14. L[2] \in Full(L)
  BY <1>1 DEF Full
<1>15. /\ Full(M)' \subseteq Full(L)
       /\ L[2] \notin Full(M)'
  <2>1. \A i \in 2..Len(M) : M[i] = L[i + 1] /\ i + 1 \in 2..Len(L) /\ M[i] # L[2]
    BY <1>1, <1>7, <1>9
  <2>2. 2 \in 1..Len(L) /\ Linking \subseteq Private
    BY <1>1 DEF Private
  <2>3. \A u \in Linking : tmp[u] # L[2]
    BY <2>2 DEF Holds, OneOwner
  <2> QED
    BY <1>3, <1>4, <2>1, <2>3 DEF Full
<1>16. ItemsApart(M)'
  <2>1. /\ popped' \subseteq pushed'
        /\ \A n \in Full(M)' : p'[n] \in pushed' \ popped'
        /\ \A n, m \in Full(M)' : p'[n] = p'[m] => n = m
    BY <1>3, <1>15 DEF Holds, ItemsApart
  <2>2. \A u \in Poppers : pc'[u] # "swing"
    BY <1>3, <1>5
  <2>3. \A u \in Freeing' : /\ got'[u] \in pushed' \ popped'
                            /\ \A n \in Full(M)' : got'[u] # p'[n]
    BY <1>1, <1>3, <1>4, <1>14, <1>15 DEF Holds, ItemsApart
  <2>4. \A u, v \in Freeing' : got'[u] = got'[v] => u = v
    BY <1>1, <1>3, <1>4, <1>14 DEF Holds, ItemsApart
  <2> QED
    BY <2>1, <2>2, <2>3, <2>4 DEF ItemsApart
<1>17. Lost(M)' = Lost(L)
  <2>1. Full(L) = Full(M)' \cup {L[2]}
    <3>1. \A i \in 2..Len(L) : i = 2 \/ i - 1 \in 2..Len(M)
      BY <1>1, <1>7
    <3>2. \A i \in 2..Len(M) : i \in 1..Len(M)
      BY <1>8
    <3>3. \A i \in 2..Len(L) : i # 2 => L[i] = M[i - 1]
      BY <1>1, <1>7, <3>1, <3>2
    <3>4. \A i \in 2..Len(L) : L[i] \in {M[j] : j \in 2..Len(M)} \cup {L[2]}
      BY <3>1, <3>3
    <3>5. {tmp'[u] : u \in Linking'} = {tmp[u] : u \in Linking}
      BY <1>3, <1>4
    <3> QED
      BY <1>14, <1>15, <3>4, <3>5 DEF Full
  <2>2. {p[m] : m \in Full(L)} = {p'[m] : m \in Full(M)'} \cup {p[L[2]]}
    BY <1>3, <2>1
  <2>3. {got'[u] : u \in Freeing'} = {got[u] : u \in Freeing} \cup {p[L[2]]}
    BY <1>1, <1>3, <1>4
  <2> QED
    BY <1>3, <2>2, <2>3 DEF Lost
<1> DEFINE S == ItemsOf(L)
<1>18. /\ S \in Seq({p[m] : m \in Node}) /\ Len(S) = Len(L) - 1 /\ S # <<>>
       /\ \A i \in 1..(Len(L) - 1) : S[i] = p[L[i + 1]]
  <2>1. \A i \in 1..(Len(L) - 1) : i + 1 \in 1..Len(L)
    BY <1>1
  <2>2. S \in [1..(Len(L) - 1) -> {p[m] : m \in Node}]
    BY <1>9, <2>1 DEF ItemsOf
  <2>3. S \in Seq({p[m] : m \in Node}) /\ Len(S) = Len(L) - 1
    BY <1>1, <2>2, SeqDef
  <2>4. S # <<>>
    BY <1>1, <2>3, EmptySeq
  <2> QED
    BY <2>3, <2>4 DEF ItemsOf
<1> HIDE DEF S
<1>19. /\ Head(S) = S[1] /\ Tail(S) \in Seq({p[m] : m \in Node})
       /\ Len(Tail(S)) = Len(S) - 1
       /\ \A i \in 1..Len(Tail(S)) : Tail(S)[i] = S[i + 1]
  BY <1>18, HeadTailProperties
<1>20. ItemsOf(M)' = Tail(S)
  <2>1. ItemsOf(M)' = [i \in 1..(Len(L) - 2) |-> p[M[i + 1]]]
    BY <1>1, <1>3, <1>7 DEF ItemsOf
  <2>2. \A i \in 1..(Len(L) - 2) : p[M[i + 1]] = Tail(S)[i]
    <3> SUFFICES ASSUME NEW i \in 1..(Len(L) - 2) PROVE p[M[i + 1]] = Tail(S)[i]
      OBVIOUS
    <3>1. /\ i + 1 \in 1..Len(M) /\ i + 1 \in 1..(Len(L) - 1) /\ i \in 1..Len(Tail(S))
          /\ (i + 1) + 1 = i + 2
      BY <1>1, <1>7, <1>18, <1>19
    <3>2. M[i + 1] = L[i + 2] /\ Tail(S)[i] = S[i + 1] /\ S[i + 1] = p[L[i + 2]]
      BY <1>7, <1>18, <1>19, <3>1
    <3> QED
      BY <3>2
  <2>3. DOMAIN Tail(S) = 1..(Len(L) - 2) /\ Tail(S) = [i \in DOMAIN Tail(S) |-> Tail(S)[i]]
    <3>1. Len(Tail(S)) = Len(L) - 2
      BY <1>1, <1>18, <1>19
    <3>2. Tail(S) \in [1..Len(Tail(S)) -> {p[m] : m \in Node}]
      BY <1>19, LenProperties, ElementOfSeq
    <3> QED
      BY <3>1, <3>2
  <2> QED
    BY <2>1, <2>2, <2>3
<1>21. InHands[t] = NoItem /\ InHands' = [InHands EXCEPT ![t] = Head(S)]
  <2>1. Head(S) = got[t]
    BY <1>1, <1>18, <1>19
  <2>2. InHands' = [u \in Poppers |-> IF u = t THEN Head(S) ELSE InHands[u]]
    BY <1>3, <1>4, <2>1 DEF InHands
  <2>3. InHands[t] = NoItem
    BY <1>4 DEF InHands, Private
  <2> QED
    BY <2>2, <2>3 DEF InHands
<1>22. Moved(L, M, t)
  BY <1>3, <1>10, <1>11, <1>13, <1>16, <1>17, <1>18, <1>20, <1>21 DEF Holds, Moved, S
<1> QED
  BY <1>2, <1>22

\* The mutex of the head is freed, and the old dummy belongs to the pop.
LEMMA PopUnlockStep ==
  ASSUME QueueTypeOK, EndsLocked, NEW L \in Seq(Node), Holds(L),
         NEW t \in Poppers, PopUnlock(t)
  PROVE  QueueTypeOK' /\ EndsLocked' /\ Same(L) /\ Lost(L)' = Lost(L)
<1> USE DEF Goto
<1>1. QueueTypeOK' /\ EndsLocked'
  BY QueueAssumption DEF PopUnlock, QueueTypeOK, EndsLocked, ends, heap, locals, Threads
<1>2. /\ UNCHANGED <<live, p, next, tmp, got, newHead, pushed, popped, head, tail>>
      /\ \A u \in Pushers : pc'[u] = pc[u]
      /\ \A u \in Poppers : pc'[u] = IF u = t THEN "free" ELSE pc[u]
      /\ pc[t] = "unlock"
  BY QueueAssumption DEF PopUnlock, ends, heap, locals, QueueTypeOK, Threads
<1>3. Linking' = Linking /\ Freeing' = Freeing
  BY <1>2 DEF Linking, Freeing
<1>4. IsList(L)' /\ HeadAt(L)' /\ TailAt(L)'
  BY <1>2 DEF Holds, IsList, HeadAt, TailAt
<1>5. /\ \A u \in Poppers : pc'[u] = "swing" => got'[u] = p[L[2]]
      /\ \A u \in Pushers : pc'[u] = "idle" => tmp'[u] = NULL
  BY <1>2 DEF Holds, ItemsApart, OneOwner
<1>6. Same(L) /\ Lost(L)' = Lost(L)
  BY <1>2, <1>3, <1>4, <1>5, QuietStep
<1> QED
  BY <1>1, <1>6

\* A step with which popper t hands out the item it has.
Returned(L, t) ==
  /\ Holds(L)' /\ ItemsOf(L)' = ItemsOf(L)
  /\ InHands[t] # NoItem /\ InHands' = [InHands EXCEPT ![t] = NoItem]
  /\ popped' = popped \cup {InHands[t]}
  /\ Lost(L)' = Lost(L)

\* The node that is freed is in nobody else's hands.
LEMMA PopFreeStep ==
  ASSUME QueueTypeOK, EndsLocked, NEW L \in Seq(Node), Holds(L),
         NEW t \in Poppers, PopFree(t)
  PROVE  QueueTypeOK' /\ EndsLocked' /\ Returned(L, t)
<1> USE DEF Goto, Return
<1>1. /\ t \in Freeing /\ t \in Private /\ got[t] \in Item
      /\ tmp[t] \in live /\ tmp[t] \in Node
  BY InUse DEF PopFree, Freeing, Private, Holds, ItemsApart, QueueTypeOK
<1>2. QueueTypeOK' /\ EndsLocked'
  BY <1>1, QueueAssumption DEF PopFree, QueueTypeOK, EndsLocked, ends, locks, Threads
<1>3. /\ UNCHANGED <<pushed, head, tail>>
      /\ live' = live \ {tmp[t]} /\ popped' = popped \cup {got[t]}
      /\ \A u \in Pushers : pc'[u] = pc[u] /\ tmp'[u] = tmp[u]
      /\ \A u \in Poppers : u # t => /\ pc'[u] = pc[u] /\ tmp'[u] = tmp[u] /\ got'[u] = got[u]
                                     /\ newHead'[u] = newHead[u]
      /\ \A n \in Node : n # tmp[t] => next'[n] = next[n] /\ p'[n] = p[n]
      /\ pc[t] = "free" /\ pc'[t] = "idle"
  BY QueueAssumption DEF PopFree, ends, QueueTypeOK, Threads
<1>4. Linking' = Linking /\ Freeing' = Freeing \ {t} /\ Private' = Private \ {t}
  BY <1>3, QueueAssumption DEF Linking, Freeing, Private
<1>5. /\ \A u \in Private' : tmp'[u] = tmp[u] /\ tmp[u] # tmp[t]
      /\ \A i \in 1..Len(L) : L[i] # tmp[t]
  <2>1. \A u \in Private' : tmp'[u] = tmp[u]
    BY <1>3, <1>4 DEF Private, Linking, Freeing
  <2> QED
    BY <1>1, <1>4, <2>1 DEF Holds, OneOwner
<1>6. IsList(L)' /\ HeadAt(L)' /\ TailAt(L)'
  BY <1>3, <1>5, InUse DEF Holds, IsList, HeadAt, TailAt
<1>7. Full(L)' = Full(L) /\ \A n \in Full(L) : n \in Node /\ n # tmp[t]
  <2>1. 2..Len(L) \subseteq 1..Len(L)
    BY InUse
  <2>2. Full(L)' = Full(L)
    BY <1>4, <1>5, QueueAssumption DEF Full, Private, Linking, Freeing
  <2>3. \A u \in Linking : tmp[u] # tmp[t]
    BY <1>4, <1>5, QueueAssumption DEF Private, Linking, Freeing
  <2>4. Full(L) \subseteq Node
    BY InUse DEF QueueTypeOK
  <2> QED
    BY <1>5, <2>1, <2>2, <2>3, <2>4 DEF Full
<1>8. OneOwner(L)'
  <2>1. live' = {L[i] : i \in 1..Len(L)} \cup {tmp'[u] : u \in Private'}
    BY <1>1, <1>3, <1>4, <1>5 DEF Holds, OneOwner
  <2>2. /\ \A u \in Private' : tmp'[u] # NULL /\ \A i \in 1..Len(L) : tmp'[u] # L[i]
        /\ \A u, v \in Private' : tmp'[u] = tmp'[v] => u = v
    BY <1>4, <1>5 DEF Holds, OneOwner
  <2>3. \A u \in Linking' : next'[tmp'[u]] = NULL
    <3>1. \A u \in Linking : tmp[u] \in Node /\ tmp[u] # tmp[t]
      BY <1>7 DEF Full
    <3> QED
      BY <1>3, <1>4, <3>1 DEF Holds, OneOwner, Linking
  <2>4. \A u \in Pushers : pc'[u] = "idle" => tmp'[u] = NULL
    BY <1>3 DEF Holds, OneOwner
  <2> QED
    BY <2>1, <2>2, <2>3, <2>4 DEF OneOwner
<1>9. ItemsApart(L)'
  <2>1. \A n \in Full(L) : p'[n] = p[n] /\ p[n] # got[t]
    BY <1>1, <1>3, <1>7 DEF Holds, ItemsApart
  <2>2. /\ popped' \subseteq pushed'
        /\ \A n \in Full(L)' : p'[n] \in pushed' \ popped'
        /\ \A n, m \in Full(L)' : p'[n] = p'[m] => n = m
    BY <1>1, <1>3, <1>7, <2>1 DEF Holds, ItemsApart
  <2>3. \A u \in Poppers : pc'[u] = "swing" => got'[u] = p'[L[2]]
    <3>1. \A u \in Poppers : pc[u] = "swing" => L[2] \in Full(L)
      BY InUse DEF Holds, HeadAt, Full
    <3> QED
      BY <1>3, <2>1, <3>1 DEF Holds, ItemsApart
  <2>4. \A u \in Freeing' : got'[u] = got[u] /\ u \in Freeing /\ u # t
    BY <1>3, <1>4 DEF Freeing
  <2>5. /\ \A u \in Freeing' : /\ got'[u] \in pushed' \ popped'
                               /\ \A n \in Full(L)' : got'[u] # p'[n]
        /\ \A u, v \in Freeing' : got'[u] = got'[v] => u = v
    BY <1>1, <1>3, <1>7, <2>1, <2>4 DEF Holds, ItemsApart
  <2> QED
    BY <2>2, <2>3, <2>5 DEF ItemsApart
<1>10. ItemsOf(L)' = ItemsOf(L)
  <2>1. \A i \in 1..(Len(L) - 1) : i + 1 \in 1..Len(L)
    BY InUse
  <2>2. \A i \in 1..(Len(L) - 1) : p'[L[i + 1]] = p[L[i + 1]]
    BY <1>3, <1>5, <2>1, InUse
  <2> QED
    BY <2>2 DEF ItemsOf
<1>11. /\ InHands[t] = got[t] /\ got[t] # NoItem
       /\ InHands' = [InHands EXCEPT ![t] = NoItem]
  <2>1. InHands' = [u \in Poppers |-> IF u = t THEN NoItem ELSE InHands[u]]
    BY <1>3, <1>4 DEF InHands
  <2>2. InHands[t] = got[t] /\ got[t] # NoItem
    BY <1>1, QueueAssumption DEF InHands
  <2> QED
    BY <2>1, <2>2 DEF InHands
<1>12. Lost(L)' = Lost(L)
  <2>1. {p'[m] : m \in Full(L)'} = {p[m] : m \in Full(L)}
    BY <1>3, <1>7
  <2>2. {got'[u] : u \in Freeing'} \cup {got[t]} = {got[u] : u \in Freeing}
    <3>1. \A u \in Freeing' : got'[u] = got[u] /\ u \in Freeing
      BY <1>3, <1>4 DEF Freeing
    <3>2. \A u \in Freeing : u = t \/ u \in Freeing'
      BY <1>4
    <3> QED
      BY <1>1, <3>1, <3>2
  <2>3. popped' \cup {got'[u] : u \in Freeing'} = popped \cup {got[u] : u \in Freeing}
    BY <1>3, <2>2
  <2> QED
    BY <1>3, <2>1, <2>3 DEF Lost
<1>13. Returned(L, t)
  BY <1>3, <1>6, <1>8, <1>9, <1>10, <1>11, <1>12 DEF Holds, Returned
<1> QED
  BY <1>2, <1>13

-----------------------------------------------------------------------------
(* Memory safety.                                                          *)

\* Steps of a push that neither lose an item nor move the tail.
LEMMA NoNodeOfPush ==
  ASSUME QueueTypeOK, NEW t \in Pushers,
         PushAlloc(t) \/ PushLock(t) \/ PushFaults(t) \/ PushLink(t) \/ PushUnlock(t)
  PROVE  UNCHANGED <<NoNode, tail>>
<1> USE QueueAssumption
    DEF QueueTypeOK, Threads, NoNode, Goto, Return, ends, locks, heap, locals
<1>1. CASE PushAlloc(t)
  BY <1>1 DEF PushAlloc
<1>2. CASE PushLock(t) \/ PushFaults(t)
  BY <1>2 DEF PushLock, PushFaults
<1>3. CASE PushLink(t)
  BY <1>3 DEF PushLink
<1>4. CASE PushUnlock(t)
  BY <1>4 DEF PushUnlock
<1> QED
  BY <1>1, <1>2, <1>3, <1>4

\* A pop has no part in the loss of items.
LEMMA NoNodeOfPop ==
  ASSUME QueueTypeOK, NEW t \in Poppers, Pop(t)
  PROVE  UNCHANGED <<NoNode, tail>>
<1>1. /\ tail' = tail
      /\ \A u \in Pushers : pc'[u] = pc[u] /\ tmp'[u] = tmp[u]
  BY QueueAssumption
     DEF Pop, PopLock, PopFirst, PopEmpty, PopCopy, PopSwing, PopUnlock, PopFree,
         QueueTypeOK, Threads, Goto, Return, ends, locals
<1> QED
  BY <1>1 DEF NoNode

\* A push without memory loses its item and has no node for it.
LEMMA LossStep ==
  ASSUME QueueTypeOK, NEW L \in Seq(Node), Accounted(L), NEW t \in Pushers,
         PushAllocFails(t), tmp[t] = NULL,
         \E item : item \notin Lost(L) /\ Lost(L)' = Lost(L) \cup {item}
  PROVE  Accounted(L)'
<1>1. t \notin NoNode /\ NoNode' = NoNode \cup {t} /\ tail' = tail
  BY QueueAssumption
     DEF PushAllocFails, NoNode, Goto, QueueTypeOK, Threads, locals, ends
<1>2. /\ IsFiniteSet(NoNode')
      /\ Cardinality(NoNode') = Cardinality(NoNode) + 1
      /\ IsFiniteSet(Lost(L)')
      /\ Cardinality(Lost(L)') = Cardinality(Lost(L)) + 1
  BY <1>1, FS_AddElement DEF Accounted
<1>3. Cardinality(NoNode) \in Nat /\ Cardinality(Lost(L)) \in Nat
  BY FS_CardinalityType DEF Accounted
<1> QED
  BY <1>1, <1>2, <1>3 DEF Accounted

\* A push without a node makes the tail null when it moves it.
LEMMA AdvanceLoses ==
  ASSUME QueueTypeOK, NEW L \in Seq(Node), Holds(L), Accounted(L), NEW t \in Pushers,
         PushAdvance(t), Lost(L)' = Lost(L)
  PROVE  Accounted(L)'
<1>1. tail # NULL /\ tail' = tmp[t]
  BY DEF PushAdvance, Holds, TailAt
<1>2. NoNode' = IF tmp[t] = NULL THEN NoNode \ {t} ELSE NoNode
  BY QueueAssumption DEF PushAdvance, NoNode, Goto, QueueTypeOK, Threads, locals
<1>3. CASE tmp[t] = NULL
  <2>1. t \in NoNode
    BY <1>3 DEF PushAdvance, NoNode
  <2>2. IsFiniteSet(NoNode') /\ Cardinality(NoNode') = Cardinality(NoNode) - 1
    BY <1>2, <1>3, <2>1, FS_RemoveElement DEF Accounted
  <2>3. Cardinality(NoNode) \in Nat
    BY FS_CardinalityType DEF Accounted
  <2> QED
    BY <1>1, <1>3, <2>2, <2>3 DEF Accounted
<1>4. CASE tmp[t] # NULL
  BY <1>1, <1>2, <1>4 DEF Accounted
<1> QED
  BY <1>3, <1>4

\* One node each and every item accounted for, always.
THEOREM QueueInvHolds == QueueSpec => []QueueInv
<1>1. QueueInv /\ [QueueNext]_queueVars => QueueInv'
  <2> SUFFICES ASSUME QueueInv, [QueueNext]_queueVars PROVE QueueInv'
    OBVIOUS
  <2>1. PICK L \in Seq(Node) : Holds(L) /\ Accounted(L)
    BY DEF QueueInv
  <2>2. QueueTypeOK /\ EndsLocked
    BY DEF QueueInv
  <2>3. ASSUME NEW t \in Pushers, Push(t) PROVE QueueInv'
    <3>1. CASE PushAllocFails(t)
      <4>1. QueueTypeOK' /\ EndsLocked' /\ Holds(L)'
        BY <2>1, <2>2, <3>1, PushAllocFailsStep DEF Same
      <4>2. Accounted(L)'
        BY <2>1, <2>2, <3>1, PushAllocFailsStep, LossStep
      <4> QED
        BY <4>1, <4>2 DEF QueueInv
    <3>2. CASE PushAdvance(t)
      <4>1. QueueTypeOK' /\ EndsLocked' /\ Holds(L)' /\ Lost(L)' = Lost(L)
        BY <2>1, <2>2, <3>2, PushAdvanceStep DEF Same
      <4>2. Accounted(L)'
        BY <2>1, <2>2, <3>2, <4>1, AdvanceLoses
      <4> QED
        BY <4>1, <4>2 DEF QueueInv
    <3>3. CASE PushAlloc(t) \/ PushLock(t) \/ PushFaults(t) \/ PushLink(t) \/ PushUnlock(t)
      <4>1. UNCHANGED <<NoNode, tail>>
        BY <2>2, <3>3, NoNodeOfPush
      <4>2. /\ QueueTypeOK' /\ EndsLocked'
            /\ \E M \in Seq(Node) : Holds(M)' /\ Lost(M)' = Lost(L)
        BY <2>1, <2>2, <3>3, PushAllocStep, PushLockStep, PushLinkStep, PushUnlockStep
           DEF Same, Linked
      <4> QED
        BY <2>1, <4>1, <4>2 DEF Accounted, QueueInv
    <3> QED
      BY <2>3, <3>1, <3>2, <3>3 DEF Push
  <2>4. ASSUME NEW t \in Poppers, Pop(t) PROVE QueueInv'
    <3>1. UNCHANGED <<NoNode, tail>>
      BY <2>2, <2>4, NoNodeOfPop
    <3>2. /\ QueueTypeOK' /\ EndsLocked'
          /\ \E M \in Seq(Node) : Holds(M)' /\ Lost(M)' = Lost(L)
      BY <2>1, <2>2, <2>4, PopLockStep, PopFirstStep, PopEmptyStep, PopCopyStep,
         PopSwingStep, PopUnlockStep, PopFreeStep DEF Pop, Same, Moved, Returned
    <3> QED
      BY <2>1, <3>1, <3>2 DEF Accounted, QueueInv
  <2>5. CASE UNCHANGED queueVars
    <3>1. QueueTypeOK' /\ EndsLocked'
      BY <2>2, <2>5 DEF QueueTypeOK, EndsLocked, queueVars, ends, locks, heap, locals
    <3>2. Holds(L)'
      BY <2>1, <2>5 DEF queueVars, ends, locks, heap, locals, Holds, IsList, TailAt, HeadAt,
                        OneOwner, ItemsApart, Full, Private, Linking, Freeing
    <3>3. Accounted(L)'
      BY <2>1, <2>5 DEF queueVars, ends, locks, heap, locals, Accounted, Lost, NoNode,
                        Full, Linking, Freeing
    <3> QED
      BY <3>1, <3>2, <3>3 DEF QueueInv
  <2> QED
    BY <2>3, <2>4, <2>5 DEF QueueNext, Killed
<1> QED
  BY <1>1, QueueInvInit, PTL DEF QueueSpec

\* No thread touches a node that has been freed, though the tail may point to
\* one for a while.
THEOREM NothingUsedAfterFree == QueueSpec => []NoUseAfterFree
<1>1. QueueInv => NoUseAfterFree
  <2> SUFFICES ASSUME QueueInv PROVE NoUseAfterFree
    OBVIOUS
  <2>1. PICK L \in Seq(Node) : Holds(L)
    BY DEF QueueInv
  <2>2. ASSUME NEW t \in Pushers, pc[t] = "link"
        PROVE  tail \in live \cup {NULL} /\ tmp[t] \in live \cup {NULL}
    <3>1. \A u \in Pushers : pc[u] # "advance"
      BY <2>2 DEF QueueInv, EndsLocked
    <3>2. tail \in {NULL, Last(L)}
      BY <2>1, <3>1 DEF Holds, TailAt
    <3>3. Last(L) \in live
      BY <2>1, InUse DEF Last
    <3>4. tmp[t] = NULL \/ t \in Private
      BY <2>2 DEF Private, Linking
    <3> QED
      BY <2>1, <3>2, <3>3, <3>4, InUse
  <2>3. ASSUME NEW t \in Poppers
        PROVE  /\ pc[t] = "first" => head \in live
               /\ pc[t] \in {"copy", "swing"} => newHead[t] \in live
               /\ pc[t] \in {"swing", "unlock", "free"} => tmp[t] \in live
    <3>1. head \in live
      BY <2>1, InUse
    <3>2. pc[t] \in {"copy", "swing"} => newHead[t] \in live /\ tmp[t] \in live
      BY <2>1, <3>1, InUse DEF Holds, HeadAt
    <3>3. pc[t] \in {"unlock", "free"} => tmp[t] \in live
      BY <2>1, InUse DEF Private, Freeing
    <3> QED
      BY <3>1, <3>2, <3>3
  <2> QED
    BY <2>2, <2>3 DEF NoUseAfterFree
<1> QED
  BY <1>1, QueueInvHolds, PTL


-----------------------------------------------------------------------------
(* What the queue holds.                                                   *)

\* The list has no more nodes than the memory, since none comes twice.
LEMMA ListFits ==
  ASSUME NEW L \in Seq(Node), Holds(L)
  PROVE  /\ Len(L) \in Nat /\ Len(L) > 0 /\ Cardinality(Node) \in Nat
         /\ Len(L) <= Cardinality(Node)
         /\ Cardinality({L[i] : i \in 1..Len(L)}) = Len(L)
<1>1. Len(L) \in Nat /\ Len(L) > 0 /\ \A i \in 1..Len(L) : L[i] \in Node
  BY InUse
<1>2. \A i, j \in 1..Len(L) : L[i] = L[j] => i = j
  BY DEF Holds, IsList
<1> DEFINE S == {L[i] : i \in 1..Len(L)}
           f == [i \in 1..Len(L) |-> L[i]]
<1>3. f \in Bijection(1..Len(L), S)
  BY <1>2 DEF Bijection, Injection, Surjection, IsInjective
<1>4. IsFiniteSet(1..Len(L)) /\ Cardinality(1..Len(L)) = Len(L)
  BY <1>1, FS_Interval
<1>5. ExistsBijection(1..Len(L), S)
  BY <1>3 DEF ExistsBijection
<1>6. Cardinality(S) = Len(L)
  BY <1>4, <1>5, FS_Bijection
<1>7. S \subseteq Node
  BY <1>1
<1>8. Cardinality(S) <= Cardinality(Node) /\ Cardinality(Node) \in Nat
  BY <1>7, FS_Subset, FS_CardinalityType, QueueAssumption
<1> QED
  BY <1>1, <1>6, <1>8

\* Walking from the head meets the nodes of the list and then nothing.
LEMMA WalkOfList ==
  ASSUME NEW L \in Seq(Node), Holds(L)
  PROVE  \A i \in 0..Cardinality(Node) : Walk[i] = IF i < Len(L) THEN L[i + 1] ELSE NULL
<1> DEFINE C == Cardinality(Node)
           It(w) == w = [i \in 0..C |->
                           IF i = 0 THEN head
                           ELSE IF w[i - 1] = NULL THEN NULL ELSE next[w[i - 1]]]
           W == [i \in 0..C |-> IF i < Len(L) THEN L[i + 1] ELSE NULL]
<1>1. /\ Len(L) \in Nat /\ Len(L) > 0 /\ C \in Nat /\ head = L[1]
      /\ \A i \in 1..Len(L) : L[i] # NULL
      /\ \A i \in 1..Len(L) : next[L[i]] = IF i = Len(L) THEN NULL ELSE L[i + 1]
  BY ListFits, InUse, QueueAssumption DEF Holds, IsList
<1> HIDE DEF C
<1>2. \A i \in 0..C : W[i] = IF i < Len(L) THEN L[i + 1] ELSE NULL
  OBVIOUS
<1>3. \A i \in 0..C : i # 0 => i - 1 \in 0..C /\ (i - 1) + 1 = i
  BY <1>1
<1>4. \A i \in 0..C : W[i] = IF i = 0 THEN head
                             ELSE IF W[i - 1] = NULL THEN NULL ELSE next[W[i - 1]]
  <2> SUFFICES ASSUME NEW i \in 0..C
               PROVE  W[i] = IF i = 0 THEN head
                             ELSE IF W[i - 1] = NULL THEN NULL ELSE next[W[i - 1]]
    OBVIOUS
  <2>1. CASE i = 0
    BY <1>1, <1>2, <2>1
  <2>2. CASE i # 0 /\ i - 1 < Len(L)
    <3>1. W[i - 1] = L[i] /\ i \in 1..Len(L)
      BY <1>1, <1>2, <1>3, <2>2
    <3>2. W[i] = next[L[i]]
      BY <1>1, <1>2, <2>2, <3>1
    <3> QED
      BY <1>1, <2>2, <3>1, <3>2
  <2>3. CASE i # 0 /\ ~(i - 1 < Len(L))
    <3>1. W[i - 1] = NULL /\ W[i] = NULL
      BY <1>1, <1>2, <1>3, <2>3
    <3> QED
      BY <2>3, <3>1
  <2> QED
    BY <2>1, <2>2, <2>3
<1>5. It(W)
  BY <1>4
<1>6. Walk = CHOOSE w : It(w)
  BY Zenon DEF Walk, C
<1> HIDE DEF W, It
<1>7. It(Walk)
  BY <1>5, <1>6
<1>8. \A i \in 0..C : Walk[i] = IF i = 0 THEN head
                                ELSE IF Walk[i - 1] = NULL THEN NULL ELSE next[Walk[i - 1]]
  <2> DEFINE V == [i \in 0..C |->
                     IF i = 0 THEN head
                     ELSE IF Walk[i - 1] = NULL THEN NULL ELSE next[Walk[i - 1]]]
  <2>1. Walk = V
    BY <1>7 DEF It
  <2>2. \A i \in 0..C : V[i] = IF i = 0 THEN head
                               ELSE IF Walk[i - 1] = NULL THEN NULL ELSE next[Walk[i - 1]]
    OBVIOUS
  <2> HIDE DEF V
  <2> QED
    BY <2>1, <2>2, Zenon
<1> DEFINE S == {i \in Nat : i <= C => Walk[i] = W[i]}
<1>9. 0 \in S
  BY <1>1, <1>4, <1>8
<1>10. \A i \in Nat : i \in S => i + 1 \in S
  <2> SUFFICES ASSUME NEW i \in Nat, i \in S, i + 1 <= C PROVE Walk[i + 1] = W[i + 1]
    OBVIOUS
  <2>1. i \in 0..C /\ i + 1 \in 0..C /\ i + 1 # 0 /\ (i + 1) - 1 = i /\ i <= C
    BY <1>1
  <2>2. Walk[i] = W[i]
    BY <2>1
  <2> QED
    BY <1>4, <1>8, <2>1, <2>2
<1>11. \A i \in Nat : i \in S
  <2>1. S \in SUBSET Nat /\ \A i \in S : i + 1 \in S
    BY <1>10
  <2> HIDE DEF S
  <2> QED
    BY <1>9, <2>1, NatSetInduction
<1>12. \A i \in 0..C : Walk[i] = W[i]
  BY <1>1, <1>11
<1> QED
  BY <1>2, <1>12 DEF C

\* What the queue holds is the items of the list that the invariant speaks of.
LEMMA ContentsAreItems == \A L \in Seq(Node) : Holds(L) => Contents = ItemsOf(L)
<1> SUFFICES ASSUME NEW L \in Seq(Node), Holds(L) PROVE Contents = ItemsOf(L)
  OBVIOUS
<1> DEFINE C == Cardinality(Node)
           Is(k) == Walk[k] # NULL /\ (k = C \/ Walk[k + 1] = NULL)
           n == CHOOSE k \in 0..C : Is(k)
<1>1. /\ Len(L) \in Nat /\ Len(L) > 0 /\ C \in Nat /\ Len(L) <= C
      /\ \A i \in 1..Len(L) : L[i] # NULL
  BY ListFits, InUse, QueueAssumption
<1>2. \A i \in 0..C : Walk[i] = IF i < Len(L) THEN L[i + 1] ELSE NULL
  BY WalkOfList
<1>3. Contents = [i \in 1..n |-> p[Walk[i]]]
  BY Zenon DEF Contents
<1> HIDE DEF C
<1>4. Len(L) - 1 \in 0..C /\ Is(Len(L) - 1)
  <2>1. Len(L) - 1 \in 0..C /\ Len(L) \in 0..C /\ (Len(L) - 1) + 1 = Len(L)
    BY <1>1
  <2>2. Walk[Len(L) - 1] = L[Len(L)] /\ Walk[Len(L)] = NULL
    BY <1>1, <1>2, <2>1
  <2>3. L[Len(L)] # NULL
    BY <1>1
  <2>4. Walk[(Len(L) - 1) + 1] = NULL
    BY <2>1, <2>2
  <2> QED
    BY <2>1, <2>2, <2>3, <2>4
<1>5. \A k \in 0..C : Is(k) => k = Len(L) - 1
  <2> SUFFICES ASSUME NEW k \in 0..C, Is(k) PROVE k = Len(L) - 1
    OBVIOUS
  <2>1. k < Len(L)
    BY <1>2
  <2>2. k # C /\ k + 1 \in 0..C
    BY <1>1, <2>1
  <2>3. ~(k + 1 < Len(L))
    <3>1. CASE k + 1 < Len(L)
      <4>1. Walk[k + 1] = L[(k + 1) + 1] /\ (k + 1) + 1 \in 1..Len(L)
        BY <1>1, <1>2, <2>2, <3>1
      <4> QED
        BY <1>1, <2>2, <4>1
    <3> QED
      BY <3>1
  <2> QED
    BY <1>1, <2>1, <2>3
<1> HIDE DEF Is
<1>6. n = Len(L) - 1
  BY <1>4, <1>5
<1> HIDE DEF n
<1>7. \A i \in 1..(Len(L) - 1) : Walk[i] = L[i + 1]
  BY <1>1, <1>2
<1> QED
  BY <1>3, <1>6, <1>7 DEF ItemsOf

\* Each item of the list is one that has been pushed and not popped, and none
\* comes twice.
ItemsApartIn(L) ==
  /\ ItemsOf(L) \in Seq(Item)
  /\ Len(ItemsOf(L)) = Len(L) - 1 /\ DOMAIN ItemsOf(L) = 1..(Len(L) - 1)
  /\ \A i, j \in DOMAIN ItemsOf(L) : ItemsOf(L)[i] = ItemsOf(L)[j] => i = j
  /\ {ItemsOf(L)[i] : i \in DOMAIN ItemsOf(L)} = {p[L[i]] : i \in 2..Len(L)}

\* No item is in the queue twice.
LEMMA ItemsDiffer == \A L \in Seq(Node) : QueueTypeOK /\ Holds(L) => ItemsApartIn(L)
<1> SUFFICES ASSUME NEW L \in Seq(Node), QueueTypeOK, Holds(L) PROVE ItemsApartIn(L)
  OBVIOUS
<1>1. /\ Len(L) \in Nat /\ Len(L) > 0
      /\ \A i, j \in 1..Len(L) : L[i] = L[j] => i = j
  BY InUse DEF Holds, IsList
<1>2. \A i \in 2..Len(L) : p[L[i]] \in Item
  BY DEF Holds, ItemsApart, Full, QueueTypeOK
<1>3. \A i, j \in 2..Len(L) : p[L[i]] = p[L[j]] => i = j
  <2>1. \A i, j \in 2..Len(L) : p[L[i]] = p[L[j]] => L[i] = L[j]
    BY DEF Holds, ItemsApart, Full
  <2>2. \A i \in 2..Len(L) : i \in 1..Len(L)
    BY <1>1
  <2> QED
    BY <1>1, <2>1, <2>2
<1>4. \A i \in 1..(Len(L) - 1) : i + 1 \in 2..Len(L) /\ ItemsOf(L)[i] = p[L[i + 1]]
  BY <1>1 DEF ItemsOf
<1>5. ItemsOf(L) \in [1..(Len(L) - 1) -> Item]
  BY <1>2, <1>4 DEF ItemsOf
<1>6. /\ ItemsOf(L) \in Seq(Item) /\ Len(ItemsOf(L)) = Len(L) - 1
      /\ DOMAIN ItemsOf(L) = 1..(Len(L) - 1)
  BY <1>1, <1>5, SeqDef
<1>7. \A i, j \in DOMAIN ItemsOf(L) : ItemsOf(L)[i] = ItemsOf(L)[j] => i = j
  <2> SUFFICES ASSUME NEW i \in 1..(Len(L) - 1), NEW j \in 1..(Len(L) - 1),
                      ItemsOf(L)[i] = ItemsOf(L)[j]
               PROVE  i = j
    BY <1>6
  <2>1. i + 1 = j + 1
    BY <1>3, <1>4
  <2> QED
    BY <1>1, <2>1
<1>8. {ItemsOf(L)[i] : i \in DOMAIN ItemsOf(L)} = {p[L[i]] : i \in 2..Len(L)}
  <2>1. \A i \in 2..Len(L) : i - 1 \in 1..(Len(L) - 1) /\ ItemsOf(L)[i - 1] = p[L[i]]
    BY <1>1 DEF ItemsOf
  <2> QED
    BY <1>4, <1>6, <2>1
<1> QED
  BY <1>6, <1>7, <1>8 DEF ItemsApartIn

\* Between the calls the nodes in use are those of the list.
THEOREM NothingLeaks == QueueSpec => []NoLeak
<1>1. QueueInv => NoLeak
  <2> SUFFICES ASSUME QueueInv, \A t \in Pushers \cup Poppers : pc[t] = "idle"
               PROVE  /\ live = {Walk[i] : i \in 0..Cardinality(Node)} \ {NULL}
                      /\ Cardinality(live) = 1 + Len(Contents)
    BY DEF NoLeak
  <2>1. PICK L \in Seq(Node) : Holds(L)
    BY DEF QueueInv
  <2>2. Private = {}
    BY DEF Private, Linking, Freeing
  <2>3. live = {L[i] : i \in 1..Len(L)}
    BY <2>1, <2>2 DEF Holds, OneOwner
  <2>4. /\ Len(L) \in Nat /\ Len(L) > 0 /\ Len(L) <= Cardinality(Node)
        /\ Cardinality(Node) \in Nat /\ Cardinality(live) = Len(L)
        /\ \A i \in 1..Len(L) : L[i] # NULL
    BY <2>1, <2>3, ListFits, InUse, QueueAssumption
  <2>5. \A i \in 0..Cardinality(Node) : Walk[i] = IF i < Len(L) THEN L[i + 1] ELSE NULL
    BY <2>1, WalkOfList
  <2>6. live = {Walk[i] : i \in 0..Cardinality(Node)} \ {NULL}
    <3>1. \A i \in 1..Len(L) : i - 1 \in 0..Cardinality(Node) /\ Walk[i - 1] = L[i]
      BY <2>4, <2>5
    <3>2. \A i \in 0..Cardinality(Node) :
            Walk[i] # NULL => i + 1 \in 1..Len(L) /\ Walk[i] = L[i + 1]
      BY <2>4, <2>5
    <3>3. \A n \in live : n # NULL /\ n \in {Walk[i] : i \in 0..Cardinality(Node)}
      BY <2>3, <2>4, <3>1
    <3>4. \A i \in 0..Cardinality(Node) : Walk[i] # NULL => Walk[i] \in live
      BY <2>3, <3>2
    <3> QED
      BY <3>3, <3>4
  <2>7. Len(Contents) = Len(L) - 1
    BY <2>1, ContentsAreItems, ItemsDiffer DEF QueueInv, ItemsApartIn
  <2> QED
    BY <2>4, <2>6, <2>7
<1> QED
  BY <1>1, QueueInvHolds, PTL

\* Between the calls one item at most is lost, that of a push without memory,
\* and then the tail is null.
THEOREM OneItemLost == QueueSpec => []OneLost
<1>1. QueueInv => OneLost
  <2> SUFFICES ASSUME QueueInv, \A t \in Pushers \cup Poppers : pc[t] = "idle"
               PROVE  Cardinality(pushed \ (popped \cup {Contents[i] : i \in DOMAIN Contents}))
                        = IF tail = NULL THEN 1 ELSE 0
    BY DEF OneLost
  <2>0. QueueTypeOK
    BY DEF QueueInv
  <2>1. PICK L \in Seq(Node) : Holds(L) /\ Accounted(L)
    BY DEF QueueInv
  <2>2. Linking = {} /\ Freeing = {} /\ NoNode = {}
    BY DEF Linking, Freeing, NoNode
  <2>3. {Contents[i] : i \in DOMAIN Contents} = {p[L[i]] : i \in 2..Len(L)}
    <3>1. Contents = ItemsOf(L)
      BY <2>1, ContentsAreItems
    <3>2. {ItemsOf(L)[i] : i \in DOMAIN ItemsOf(L)} = {p[L[i]] : i \in 2..Len(L)}
      BY <2>0, <2>1, ItemsDiffer DEF ItemsApartIn
    <3> QED
      BY <3>1, <3>2, Zenon
  <2>4. {p[L[i]] : i \in 2..Len(L)} = {p[m] : m \in Full(L)}
    BY <2>2 DEF Full
  <2>5. Lost(L) = pushed \ (popped \cup {Contents[i] : i \in DOMAIN Contents})
    BY <2>2, <2>3, <2>4 DEF Lost
  <2>6. Cardinality(Lost(L)) = IF tail = NULL THEN 1 ELSE 0
    BY <2>1, <2>2, FS_EmptySet DEF Accounted
  <2> QED
    BY <2>5, <2>6
<1> QED
  BY <1>1, QueueInvHolds, PTL

-----------------------------------------------------------------------------
(* The queue implements PacketFlow.                                        *)

\* Linking a node is one production: its item joins at the end, for the first
\* time.
LEMMA LinkProduces ==
  ASSUME QueueTypeOK, NEW L \in Seq(Node), Holds(L), QueueTypeOK',
         NEW M \in Seq(Node), NEW t \in Linking, Linked(L, M, tmp[t]),
         Contents = ItemsOf(L), Contents' = ItemsOf(M)',
         ItemsApartIn(L), ItemsApartIn(M)'
  PROVE  Fifo!Produce
<1> DEFINE x == p[tmp[t]]
           q == ItemsOf(L)
           r == Append(q, x)
           new == {r[i] : i \in (Len(q) + 1)..Len(r)}
<1>1. tmp[t] \in Full(L)
  BY DEF Full
<1>2. /\ x \in Item /\ x \notin popped /\ x # NoItem
      /\ \A u \in Freeing : got[u] # x
  BY <1>1, QueueAssumption DEF Holds, ItemsApart, QueueTypeOK
<1>3. q \in Seq(Item)
  BY DEF ItemsApartIn
<1>4. Contents = q /\ Contents' = r
  BY DEF Linked
<1>5. \A i, j \in DOMAIN r : r[i] = r[j] => i = j
  BY <1>4 DEF ItemsApartIn
<1> HIDE DEF x, q
<1>6. /\ r \in Seq(Item) /\ Len(r) = Len(q) + 1 /\ r[Len(q) + 1] = x
      /\ \A i \in 1..Len(q) : r[i] = q[i]
      /\ Len(q) \in Nat
  BY <1>2, <1>3, AppendProperties, LenProperties
<1> HIDE DEF r
<1>7. Fifo!IsPrefix(q, r)
  <2>1. /\ \A i \in 1..Len(q) : q[i] \in Item /\ r[i] \in Item
        /\ 1..Len(q) \subseteq 1..Len(r)
    BY <1>3, <1>6, ElementOfSeq
  <2>2. /\ SubSeq(q, 1, Len(q)) \in Seq(Item)
        /\ Len(SubSeq(q, 1, Len(q))) = Len(q)
        /\ \A i \in 1..Len(q) : SubSeq(q, 1, Len(q))[i] = q[i]
    BY <1>6, <2>1, SubSeqProperties
  <2>3. /\ SubSeq(r, 1, Len(q)) \in Seq(Item)
        /\ Len(SubSeq(r, 1, Len(q))) = Len(q)
        /\ \A i \in 1..Len(q) : SubSeq(r, 1, Len(q))[i] = r[i]
    BY <1>6, <2>1, SubSeqProperties
  <2>4. SubSeq(q, 1, Len(q)) = SubSeq(r, 1, Len(q))
    BY <1>6, <2>2, <2>3, SeqEqual
  <2> QED
    BY <1>6, <2>4 DEF Fifo!IsPrefix
<1>8. Fifo!IsInjective(r)
  BY <1>5 DEF Fifo!IsInjective
<1>9. new = {x}
  BY <1>6
<1>10. new \subseteq Item /\ new \cap (popped \cup {InHands[u] : u \in Poppers}) = {}
  BY <1>2, <1>9 DEF InHands
<1>11. InHands = [u \in Poppers |-> IF pc[u] \in {"unlock", "free"} THEN got[u] ELSE NoItem]
  BY DEF InHands, Freeing
<1>12. UNCHANGED <<InHands, popped>>
  BY DEF Linked
<1> QED
  BY <1>4, <1>7, <1>8, <1>10, <1>11, <1>12 DEF Fifo!Produce, InHands, Freeing

\* Every step of the queue is a production, a take, a finish or none of the
\* three.
LEMMA FifoStep ==
  ASSUME QueueInv, QueueInv', [QueueNext]_queueVars,
         (\A L \in Seq(Node) : Holds(L) => Contents = ItemsOf(L))',
         (\A L \in Seq(Node) : QueueTypeOK /\ Holds(L) => ItemsApartIn(L))'
  PROVE  [Fifo!Next]_(Fifo!flowVars)
<1>1. PICK L \in Seq(Node) : Holds(L)
  BY DEF QueueInv
<1>2. QueueTypeOK /\ EndsLocked /\ QueueTypeOK'
  BY DEF QueueInv
<1>3. Contents = ItemsOf(L) /\ ItemsApartIn(L)
  BY <1>1, <1>2, ContentsAreItems, ItemsDiffer
<1>4. InHands = [u \in Poppers |-> IF pc[u] \in {"unlock", "free"} THEN got[u] ELSE NoItem]
  BY DEF InHands, Freeing
<1>5. InHands' = [u \in Poppers |-> IF pc[u] \in {"unlock", "free"} THEN got[u] ELSE NoItem]'
  BY DEF InHands, Freeing
<1>6. ASSUME Same(L) PROVE UNCHANGED Fifo!flowVars
  <2>1. Contents' = ItemsOf(L)'
    BY <1>6 DEF Same
  <2> QED
    BY <1>3, <1>4, <1>5, <1>6, <2>1 DEF Same, Fifo!flowVars
<1>7. ASSUME NEW t \in Linking, NEW M \in Seq(Node), Linked(L, M, tmp[t])
      PROVE  Fifo!Next
  <2>1. Contents' = ItemsOf(M)' /\ ItemsApartIn(M)'
    BY <1>2, <1>7 DEF Linked
  <2>2. Fifo!Produce
    BY <1>1, <1>2, <1>3, <1>7, <2>1, LinkProduces
  <2> QED
    BY <2>2 DEF Fifo!Next
<1>8. ASSUME NEW t \in Poppers, NEW M \in Seq(Node), Moved(L, M, t)
      PROVE  Fifo!Next
  <2>1. Contents' = ItemsOf(M)'
    BY <1>8 DEF Moved
  <2>2. Fifo!Take(t)
    BY <1>3, <1>4, <1>5, <1>8, <2>1 DEF Moved, Fifo!Take
  <2> QED
    BY <2>2 DEF Fifo!Next
<1>9. ASSUME NEW t \in Poppers, Returned(L, t)
      PROVE  Fifo!Next
  <2>1. Contents' = ItemsOf(L)'
    BY <1>9 DEF Returned
  <2>2. Fifo!Finish(t)
    BY <1>3, <1>4, <1>5, <1>9, <2>1 DEF Returned, Fifo!Finish
  <2> QED
    BY <2>2 DEF Fifo!Next
<1>10. ASSUME NEW t \in Pushers, Push(t)
       PROVE  \/ Same(L)
              \/ t \in Linking /\ \E M \in Seq(Node) : Linked(L, M, tmp[t])
  <2>1. CASE PushLink(t)
    BY <1>1, <1>2, <2>1, PushLinkStep
  <2>2. CASE ~PushLink(t)
    BY <1>1, <1>2, <1>10, <2>2, PushAllocStep, PushAllocFailsStep, PushLockStep,
       PushAdvanceStep, PushUnlockStep DEF Push
  <2> QED
    BY <2>1, <2>2
<1>11. ASSUME NEW t \in Poppers, Pop(t)
       PROVE  Same(L) \/ (\E M \in Seq(Node) : Moved(L, M, t)) \/ Returned(L, t)
  BY <1>1, <1>2, <1>11, PopLockStep, PopFirstStep, PopEmptyStep, PopCopyStep,
     PopSwingStep, PopUnlockStep, PopFreeStep DEF Pop
<1>12. CASE UNCHANGED queueVars
  <2>1. Holds(L)' /\ ItemsOf(L)' = ItemsOf(L) /\ UNCHANGED <<InHands, popped>>
    BY <1>1, <1>12 DEF queueVars, ends, locks, heap, locals, Holds, IsList, TailAt, HeadAt,
                       OneOwner, ItemsApart, Full, Private, Linking, Freeing, ItemsOf, InHands
  <2> QED
    BY <1>6, <2>1 DEF Same
<1> QED
  BY <1>6, <1>7, <1>8, <1>9, <1>10, <1>11, <1>12 DEF QueueNext, Killed

\* The queue is a FIFO that hands out each item once, for any number of
\* threads at either end.
THEOREM QueueImplementsFifo == QueueSpec => FifoSpec
<1>1. QueueInit => Fifo!Init
  <2> SUFFICES ASSUME QueueInit PROVE Fifo!Init
    OBVIOUS
  <2>1. PICK d \in Node : head = d /\ tail = d /\ live = {d}
    BY DEF QueueInit
  <2>2. QueueInv
    BY QueueInvInit
  <2>3. PICK L \in Seq(Node) : Holds(L)
    BY <2>2 DEF QueueInv
  <2>4. Len(L) = 1
    <3>1. \A t \in Private : FALSE
      BY DEF QueueInit, Private, Linking, Freeing
    <3>2. \A i \in 1..Len(L) : L[i] = d
      BY <2>1, <2>3, <3>1 DEF Holds, OneOwner
    <3>3. \A i \in 1..Len(L) : i = 1
      BY <2>3, <3>2, InUse DEF Holds, IsList
    <3>4. Len(L) \in Nat /\ Len(L) > 0
      BY <2>3, InUse
    <3>5. Len(L) \in 1..Len(L)
      BY <3>4
    <3> QED
      BY <3>3, <3>5
  <2>5. Contents = ItemsOf(L) /\ ItemsOf(L) \in Seq(Item) /\ Len(ItemsOf(L)) = 0
    BY <2>2, <2>3, <2>4, ContentsAreItems, ItemsDiffer DEF QueueInv, ItemsApartIn
  <2>6. Contents = <<>>
    BY <2>5, EmptySeq
  <2> QED
    BY <2>6 DEF QueueInit, Fifo!Init
<1>2. QueueInv /\ QueueInv' /\ [QueueNext]_queueVars
      /\ (\A L \in Seq(Node) : Holds(L) => Contents = ItemsOf(L))'
      /\ (\A L \in Seq(Node) : QueueTypeOK /\ Holds(L) => ItemsApartIn(L))'
        => [Fifo!Next]_(Fifo!flowVars)
  BY FifoStep
<1> QED
  BY <1>1, <1>2, QueueInvHolds, ContentsAreItems, ItemsDiffer, PTL
     DEF QueueSpec, FifoSpec, Fifo!Spec
=============================================================================
