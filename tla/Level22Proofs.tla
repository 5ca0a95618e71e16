--------------------------- MODULE Level22Proofs ---------------------------
(***************************************************************************)
(* Proofs about level22.c: what survives of the table, the queue and the   *)
(* counter without a common lock, for any number of consumers, any files,  *)
(* any hash and however many pops fail.                                    *)
(***************************************************************************)
EXTENDS Level22, FiniteSetTheorems, FunctionTheorems, TLAPS

-----------------------------------------------------------------------------
(* The invariant of the table.                                             *)

Places ==
  {"none", "bucket", "head", "first", "next", "advance", "compare", "decide", "lone",
   "set", "link", "reset", "sum"}

Buckets == {Bucket[p] : p \in Payload}

TableType ==
  /\ table \in [Buckets -> Nat]
  /\ nodes \in Seq([p : Payload, next : Nat])
  /\ at \in [Consumers -> Places]
  /\ item \in [Consumers -> Payload]
  /\ head \in [Consumers -> Nat]
  /\ matchFound \in [Consumers -> BOOLEAN]
  /\ cacheHits \in Nat
  /\ duplicates \in Nat
  /\ overlap \subseteq Consumers

\* A pointer within the chain of bucket b.
Pointer(n, b) == n = NULL \/ (n \in DOMAIN nodes /\ Bucket[nodes[n].p] = b)

\* Whatever the interleaving, no chain ever runs into another bucket's.
ChainsApart ==
  /\ \A b \in Buckets : Pointer(table[b], b)
  /\ \A n \in DOMAIN nodes : Pointer(nodes[n].next, Bucket[nodes[n].p])
  /\ \A c \in Consumers : /\ Pointer(head[c], Bucket[item[c]])
                          /\ at[c] = "none" => head[c] = NULL

\* Where a lookup that is alone in its bucket has got to.
OnTrack(c) ==
  /\ at[c] = "head" => Cursor(c) # NULL
  /\ at[c] = "first" => Cursor(c) = head[c] /\ Cursor(c) # NULL
  /\ at[c] \in {"next", "advance", "compare", "decide", "link", "reset"} =>
       Cursor(c) \in Reach(head[c])
  /\ at[c] \in {"decide", "link"} => nodes[Cursor(c)].next = NULL
  /\ at[c] = "advance" => nodes[Cursor(c)].next # NULL
  /\ at[c] \in {"lone", "set"} => Cursor(c) = NULL

AloneOnTrack ==
  \A c \in Busy \ overlap :
    /\ \A d \in Busy \ {c} : Bucket[item[d]] # Bucket[item[c]]
    /\ OnTrack(c)

Found == {c \in Consumers : matchFound[c]}

\* Consumers that may find their payload a second time.
MayHitAgain == {c \in Found : at[c] # "sum"}

HitsInv ==
  /\ \A c \in Consumers : at[c] \in {"none", "bucket", "head", "first"} => ~matchFound[c]
  /\ duplicates + Cardinality(Found) <= cacheHits
  /\ cacheHits + Cardinality(MayHitAgain) <= 2 * (duplicates + Cardinality(Found))

TableInv == TableType /\ ChainsApart /\ AloneOnTrack /\ HitsInv

-----------------------------------------------------------------------------
(* The invariant of the threads.                                           *)

ThreadType ==
  /\ pcMain \in {"open", "join", "killed"}
  /\ pcProd \in {"start", "room", "waiting", "lock", "push", "unlock", "count", "signal",
                 "finish", "done"}
  /\ pcCons \in [Consumers -> {"test", "complete", "zero", "while", "wait", "waiting",
                               "awake", "lock", "pop", "unlock", "count", "retnval",
                               "lookup", "done"}]
  /\ count \in Int /\ failed \in Int
  /\ buffer \in Seq(Entry)
  /\ packet \in [Consumers -> Entry \cup {NoPacket}]
  /\ file \in Nat \ {0} /\ rec \in Nat /\ win \in Nat
  /\ pushed \in SUBSET Entry /\ processed \in SUBSET Entry /\ abandoned \in SUBSET Entry
  /\ IsFiniteSet(pushed) /\ IsFiniteSet(processed) /\ IsFiniteSet(abandoned)

Pushing == {"lock", "push", "unlock", "count", "signal"}

\* Where the producer is in the file, the record made up behind it included.
ReaderPlace ==
  /\ pcMain = "open" => /\ pcProd = "done"
                        /\ \A c \in Consumers : pcCons[c] = "done"
                        /\ rec = 0
  /\ pcMain # "open" => file \in DOMAIN Files
  /\ pcMain # "open" /\ pcProd \in {"start", "room", "waiting"} => rec <= Records
  /\ pcProd \in Pushing => rec \in 1..(Records + 1) /\ win \in 1..Windows(file, rec)

\* Windows are pushed in the order of the files, so that none is pushed twice.
PushedBefore ==
  \A e \in pushed :
    /\ e[1] < file \/ (pcMain # "open" /\ e[1] = file /\ e[2] <= rec)
    /\ e[1] = file /\ e[2] = rec /\ pcProd \in Pushing =>
         IF pcProd \in {"lock", "push"} THEN e[3] < win ELSE e[3] <= win

InHand == {"unlock", "count", "retnval", "lookup"}

NothingLeftOver ==
  \A c \in Consumers : pcCons[c] \notin InHand => packet[c] = NoPacket

\* A window is in one place only.
OnePlace ==
  /\ \A i, j \in DOMAIN buffer : buffer[i] = buffer[j] => i = j
  /\ \A c, d \in Consumers : packet[c] = packet[d] /\ packet[c] # NoPacket => c = d
  /\ \A i \in DOMAIN buffer : /\ \A c \in Consumers : buffer[i] # packet[c]
                              /\ buffer[i] \notin processed \cup abandoned
  /\ \A c \in Consumers : packet[c] \notin processed \cup abandoned
  /\ processed \cap abandoned = {}

ThreadInv ==
  ThreadType /\ ReaderPlace /\ PushedBefore /\ NothingLeftOver /\ OnePlace /\ Delivery
    /\ CountDrifts

-----------------------------------------------------------------------------
(* One step of a lookup.                                                   *)

\* What a consumer does to the table in one step.
TableNext(c) ==
  \/ \E p \in Payload : Begin(c, p)
  \/ LookupStep(c)
  \/ \E aligned \in BOOLEAN : Decide(c, aligned)
  \/ Sum(c)

\* No payload needs to be named: the set is not empty.
LEMMA PayloadExists == AnyPayload \in Payload
BY TableAssumption DEF AnyPayload

\* The bucket of a payload is one of the table.
LEMMA BucketOf == \A p \in Payload : Bucket[p] \in Buckets
BY DEF Buckets

\* The node a busy consumer points at, if any, is of its bucket.
LEMMA CursorOf ==
  ASSUME TableType, ChainsApart, NEW c \in Consumers
  PROVE  /\ Bucket[item[c]] \in Buckets
         /\ Cursor(c) \in Nat
         /\ Pointer(Cursor(c), Bucket[item[c]])
         /\ Cursor(c) # NULL => /\ Cursor(c) \in DOMAIN nodes
                                /\ Cursor(c) \in 1..Len(nodes)
                                /\ Bucket[nodes[Cursor(c)].p] = Bucket[item[c]]
                                /\ nodes[Cursor(c)] \in [p : Payload, next : Nat]
<1>1. item[c] \in Payload
  BY DEF TableType
<1>2. Bucket[item[c]] \in Buckets
  BY <1>1, BucketOf
<1>3. Cursor(c) \in Nat /\ Pointer(Cursor(c), Bucket[item[c]])
  BY <1>2 DEF TableType, ChainsApart, Cursor
<1> DEFINE Node == [p : Payload, next : Nat]
<1>4. nodes \in Seq(Node)
  BY DEF TableType
<1>5. DOMAIN nodes = 1..Len(nodes) /\ \A n \in DOMAIN nodes : nodes[n] \in Node
  <2> HIDE DEF Node
  <2> QED BY <1>4
<1> QED BY <1>2, <1>3, <1>5 DEF Pointer

\* Every step keeps the types.
LEMMA TableTypeStep ==
  ASSUME TableType, ChainsApart, NEW c \in Consumers, TableNext(c)
  PROVE  TableType'
<1> DEFINE Node == [p : Payload, next : Nat]
<1>t. /\ table \in [Buckets -> Nat] /\ nodes \in Seq(Node) /\ at \in [Consumers -> Places]
      /\ item \in [Consumers -> Payload] /\ head \in [Consumers -> Nat]
      /\ matchFound \in [Consumers -> BOOLEAN] /\ cacheHits \in Nat /\ duplicates \in Nat
      /\ overlap \subseteq Consumers
  BY DEF TableType
<1>c. /\ Bucket[item[c]] \in Buckets /\ Cursor(c) \in Nat
      /\ Cursor(c) # NULL => Cursor(c) \in 1..Len(nodes) /\ nodes[Cursor(c)] \in Node
  BY CursorOf
<1>g. \A place \in Places : Goto(c, place) => at' \in [Consumers -> Places]
  BY <1>t DEF Goto
<1>s. \A n \in Nat : SetCursor(c, n) => table' \in [Buckets -> Nat]
  BY <1>t, <1>c DEF SetCursor
<1>m. CountMatch(c) => matchFound' \in [Consumers -> BOOLEAN] /\ cacheHits' \in Nat
  <2> SUFFICES ASSUME CountMatch(c)
               PROVE  matchFound' \in [Consumers -> BOOLEAN] /\ cacheHits' \in Nat
    OBVIOUS
  <2>1. CASE nodes[Cursor(c)].p = item[c]
    <3>1. matchFound' = [matchFound EXCEPT ![c] = TRUE] /\ cacheHits' = cacheHits + 1
      BY <2>1 DEF CountMatch
    <3>2. matchFound' \in [Consumers -> BOOLEAN]
      BY <3>1, <1>t, Zenon
    <3> QED BY <3>1, <3>2, <1>t
  <2>2. CASE nodes[Cursor(c)].p # item[c]
    BY <2>2, <1>t DEF CountMatch
  <2> QED BY <2>1, <2>2
<1>n. [p |-> item[c], next |-> NULL] \in Node /\ NULL \in Nat
  BY <1>t DEF NULL
<1>l. Len(nodes) \in Nat /\ Len(nodes) + 1 \in Nat
  BY <1>t
<1>1. CASE \E p \in Payload : Begin(c, p)
  <2>1. PICK p \in Payload : Begin(c, p)
    BY <1>1
  <2>2. at' \in [Consumers -> Places]
    BY <2>1, <1>g DEF Begin, Places
  <2>3. overlap' \subseteq Consumers
    BY <2>1, <1>t DEF Begin, Busy
  <2> QED BY <2>1, <2>2, <2>3, <1>t DEF Begin, TableType
<1>2. CASE ReadBucket(c)
  <2>1. at' \in [Consumers -> Places]
    BY <1>2, <1>g DEF ReadBucket, Places
  <2> QED BY <2>1, <1>2, <1>t DEF ReadBucket, TableType
<1>3. CASE TakeHead(c)
  <2>1. at' \in [Consumers -> Places]
    BY <1>3, <1>g DEF TakeHead, Places
  <2> QED BY <2>1, <1>3, <1>t, <1>c DEF TakeHead, TableType
<1>4. CASE CompareFirst(c)
  <2>1. at' \in [Consumers -> Places]
    BY <1>4, <1>g DEF CompareFirst, Places
  <2> QED BY <2>1, <1>4, <1>t, <1>m DEF CompareFirst, TableType
<1>5. CASE TestNext(c)
  <2>1. at' \in [Consumers -> Places]
    BY <1>5, <1>g DEF TestNext, Places
  <2> QED BY <2>1, <1>5, <1>t DEF TestNext, TableType
<1>6. CASE Advance(c)
  <2>1. at' \in [Consumers -> Places]
    BY <1>6, <1>g DEF Advance, Places
  <2>2. table' \in [Buckets -> Nat]
    BY <1>6, <1>s, <1>c DEF Advance
  <2> QED BY <2>1, <2>2, <1>6, <1>t DEF Advance, TableType
<1>7. CASE CompareLater(c)
  <2>1. at' \in [Consumers -> Places]
    BY <1>7, <1>g DEF CompareLater, Places
  <2> QED BY <2>1, <1>7, <1>t, <1>m DEF CompareLater, TableType
<1>8. CASE \E aligned \in BOOLEAN : Decide(c, aligned)
  <2>1. at' \in [Consumers -> Places]
    BY <1>8, <1>g DEF Decide, Places
  <2> QED BY <2>1, <1>8, <1>t DEF Decide, TableType
<1>9. CASE SetBucket(c)
  <2>1. at' \in [Consumers -> Places]
    BY <1>9, <1>g DEF SetBucket, Places
  <2>2. nodes' \in Seq(Node)
    BY <1>9, <1>t, <1>n DEF SetBucket
  <2>3. table' \in [Buckets -> Nat]
    BY <2>2, <1>9, <1>s DEF SetBucket
  <2> QED BY <2>1, <2>2, <2>3, <1>9, <1>t DEF SetBucket, TableType
<1>10. CASE LinkNode(c)
  <2>1. at' \in [Consumers -> Places]
    BY <1>10, <1>g DEF LinkNode, Places
  <2> DEFINE linked == [nodes EXCEPT ![Cursor(c)].next = Len(nodes) + 1]
  <2>2. Cursor(c) \in 1..Len(nodes) /\ nodes[Cursor(c)] \in Node
    BY <1>10, <1>c DEF LinkNode
  <2>3. [nodes[Cursor(c)] EXCEPT !.next = Len(nodes) + 1] \in Node
    BY <2>2, <1>l
  <2>4. linked \in Seq(Node)
    BY <2>2, <2>3, <1>t
  <2>5. nodes' \in Seq(Node)
    BY <1>10, <2>4, <1>n DEF LinkNode
  <2> QED BY <2>1, <2>5, <1>10, <1>t DEF LinkNode, TableType
<1>11. CASE ResetHead(c)
  <2>1. at' \in [Consumers -> Places]
    BY <1>11, <1>g DEF ResetHead, Places
  <2>2. table' \in [Buckets -> Nat]
    BY <1>11, <1>s, <1>t DEF ResetHead
  <2> QED BY <2>1, <2>2, <1>11, <1>t DEF ResetHead, TableType
<1>12. CASE Sum(c)
  <2>1. at' \in [Consumers -> Places]
    BY <1>12, <1>g DEF Sum, Places
  <2>2. duplicates' \in Nat
    BY <1>12, <1>t DEF Sum
  <2> QED BY <2>1, <2>2, <1>12, <1>t, <1>n, PayloadExists DEF Sum, TableType
<1> QED BY <1>1, <1>2, <1>3, <1>4, <1>5, <1>6, <1>7, <1>8, <1>9, <1>10, <1>11, <1>12
        DEF TableNext, LookupStep

\* Linking a node: it is the last one, and no other field changes.
LEMMA LinkedNodes ==
  ASSUME TableType, ChainsApart, NEW c \in Consumers, LinkNode(c)
  PROVE  /\ Cursor(c) \in DOMAIN nodes
         /\ DOMAIN nodes = 1..Len(nodes)
         /\ DOMAIN nodes' = 1..(Len(nodes) + 1)
         /\ \A n \in DOMAIN nodes :
              n \in DOMAIN nodes' /\ nodes'[n].p = nodes[n].p /\ (n # Cursor(c) => nodes'[n] = nodes[n])
         /\ nodes'[Cursor(c)].next = Len(nodes) + 1
         /\ nodes'[Len(nodes) + 1] = [p |-> item[c], next |-> NULL]
<1> DEFINE Node == [p : Payload, next : Nat]
<1>t. nodes \in Seq(Node)
  BY DEF TableType
<1>c. Cursor(c) # NULL => /\ Cursor(c) \in 1..Len(nodes) /\ nodes[Cursor(c)] \in Node
                          /\ Bucket[nodes[Cursor(c)].p] = Bucket[item[c]]
  BY CursorOf
<1> DEFINE linked == [nodes EXCEPT ![Cursor(c)].next = Len(nodes) + 1]
<1>1. Cursor(c) \in 1..Len(nodes) /\ nodes[Cursor(c)] \in Node
        /\ Bucket[nodes[Cursor(c)].p] = Bucket[item[c]]
  BY <1>c DEF LinkNode
<1>2. linked \in Seq(Node) /\ Len(linked) = Len(nodes) /\ DOMAIN linked = DOMAIN nodes
  <2>0. Len(nodes) \in Nat /\ Len(nodes) + 1 \in Nat
    BY <1>t
  <2>1. [nodes[Cursor(c)] EXCEPT !.next = Len(nodes) + 1] \in Node
    BY <1>1, <2>0
  <2>2. linked \in Seq(Node) /\ DOMAIN linked = DOMAIN nodes
    BY <2>1, <1>1, <1>t
  <2>3. DOMAIN linked = 1..Len(linked) /\ DOMAIN nodes = 1..Len(nodes)
        /\ Len(linked) \in Nat
    <3> HIDE DEF linked, Node
    <3> QED BY <2>2, <1>t
  <2>4. Len(linked) = Len(nodes)
    <3>1. \A i, j \in Nat : 1..i = 1..j => i = j
      <4> SUFFICES ASSUME NEW i \in Nat, NEW j \in Nat, 1..i = 1..j, i < j
                   PROVE  FALSE
        OBVIOUS
      <4>1. j \in 1..j /\ j \notin 1..i
        OBVIOUS
      <4> QED BY <4>1
    <3> HIDE DEF linked, Node
    <3> QED BY <3>1, <2>0, <2>2, <2>3
  <2> QED BY <2>2, <2>4
<1>3. \A n \in DOMAIN nodes :
        linked[n].p = nodes[n].p /\ (n # Cursor(c) => linked[n] = nodes[n])
  <2>0. DOMAIN nodes = 1..Len(nodes)
    BY <1>t
  <2>1. linked[Cursor(c)] = [nodes[Cursor(c)] EXCEPT !.next = Len(nodes) + 1]
    BY <2>0, <1>1
  <2>2. linked[Cursor(c)].p = nodes[Cursor(c)].p
    BY <2>1, <1>1
  <2>3. \A n \in DOMAIN nodes : n # Cursor(c) => linked[n] = nodes[n]
    BY <1>1, <1>t
  <2> QED BY <2>2, <2>3
<1>4. nodes' = Append(linked, [p |-> item[c], next |-> NULL])
  BY DEF LinkNode
<1>5. /\ DOMAIN nodes' = 1..(Len(nodes) + 1)
      /\ \A n \in 1..Len(nodes) : nodes'[n] = linked[n]
      /\ nodes'[Len(nodes) + 1] = [p |-> item[c], next |-> NULL]
  <2> HIDE DEF linked, Node
  <2> QED BY <1>2, <1>4
<1>6. DOMAIN nodes = 1..Len(nodes) /\ Len(nodes) \in Nat /\ Len(nodes) + 1 \in Nat
  BY <1>t
<1>7. nodes'[Cursor(c)].next = Len(nodes) + 1
  <2>1. linked[Cursor(c)] = [nodes[Cursor(c)] EXCEPT !.next = Len(nodes) + 1]
    BY <1>6, <1>1
  <2>2. linked[Cursor(c)].next = Len(nodes) + 1
    BY <2>1, <1>1
  <2> QED BY <2>2, <1>5, <1>1
<1>8. \A n \in DOMAIN nodes : n \in DOMAIN nodes'
  BY <1>5, <1>6
<1> HIDE DEF linked
<1> QED BY <1>1, <1>3, <1>5, <1>6, <1>7, <1>8

\* What one consumer's step leaves to the others: their places and locals, the
\* other buckets and the nodes in them; the payload of no node ever changes,
\* and a node that is new is in the consumer's bucket.
LEMMA Elsewhere ==
  ASSUME TableType, ChainsApart, NEW c \in Consumers, TableNext(c)
  PROVE  /\ \A b \in Buckets : b # Bucket[item[c]] => table'[b] = table[b]
         /\ \A n \in DOMAIN nodes :
              /\ n \in DOMAIN nodes'
              /\ nodes'[n].p = nodes[n].p
              /\ Bucket[nodes[n].p] # Bucket[item[c]] => nodes'[n] = nodes[n]
         /\ \A d \in Consumers \ {c} : at'[d] = at[d] /\ item'[d] = item[d] /\ head'[d] = head[d]
         /\ \A d \in Consumers \ {c} : d \in overlap => d \in overlap'
<1> DEFINE Node == [p : Payload, next : Nat]
<1>t. /\ table \in [Buckets -> Nat] /\ nodes \in Seq(Node) /\ at \in [Consumers -> Places]
      /\ item \in [Consumers -> Payload] /\ head \in [Consumers -> Nat]
  BY DEF TableType
<1>c. /\ Bucket[item[c]] \in Buckets
      /\ Cursor(c) # NULL => /\ Cursor(c) \in 1..Len(nodes) /\ nodes[Cursor(c)] \in Node
                             /\ Bucket[nodes[Cursor(c)].p] = Bucket[item[c]]
  BY CursorOf
<1>g. \A place : Goto(c, place) => \A d \in Consumers \ {c} : at'[d] = at[d]
  BY <1>t DEF Goto
<1>s. \A n : SetCursor(c, n) =>
         \A b \in Buckets : b # Bucket[item[c]] => table'[b] = table[b]
  BY <1>t DEF SetCursor
<1>1. CASE \E p \in Payload : Begin(c, p)
  BY <1>1, <1>g, <1>t DEF Begin
<1>2. CASE ReadBucket(c)
  BY <1>2, <1>g, <1>t DEF ReadBucket
<1>3. CASE TakeHead(c)
  BY <1>3, <1>g, <1>t DEF TakeHead
<1>4. CASE CompareFirst(c)
  BY <1>4, <1>g, <1>t DEF CompareFirst
<1>5. CASE TestNext(c)
  BY <1>5, <1>g, <1>t DEF TestNext
<1>6. CASE Advance(c)
  BY <1>6, <1>g, <1>s, <1>t DEF Advance
<1>7. CASE CompareLater(c)
  BY <1>7, <1>g, <1>t DEF CompareLater
<1>8. CASE \E aligned \in BOOLEAN : Decide(c, aligned)
  BY <1>8, <1>g, <1>t DEF Decide
<1>9. CASE SetBucket(c)
  <2>1. \A n \in DOMAIN nodes : n \in DOMAIN nodes' /\ nodes'[n] = nodes[n]
    BY <1>9, <1>t DEF SetBucket
  <2>2. \A b \in Buckets : b # Bucket[item[c]] => table'[b] = table[b]
    BY <1>9, <1>s DEF SetBucket
  <2> QED BY <2>1, <2>2, <1>9, <1>g, <1>t DEF SetBucket
<1>10. CASE LinkNode(c)
  <2>1. \A n \in DOMAIN nodes :
          n \in DOMAIN nodes' /\ nodes'[n].p = nodes[n].p /\ (n # Cursor(c) => nodes'[n] = nodes[n])
    BY <1>10, LinkedNodes
  <2>2. Bucket[nodes[Cursor(c)].p] = Bucket[item[c]]
    BY <1>10, <1>c DEF LinkNode
  <2> QED BY <2>1, <2>2, <1>10, <1>g, <1>t DEF LinkNode
<1>11. CASE ResetHead(c)
  BY <1>11, <1>g, <1>s, <1>t DEF ResetHead
<1>12. CASE Sum(c)
  BY <1>12, <1>g, <1>t DEF Sum
<1> QED BY <1>1, <1>2, <1>3, <1>4, <1>5, <1>6, <1>7, <1>8, <1>9, <1>10, <1>11, <1>12
        DEF TableNext, LookupStep

\* Chains stay in their buckets: a pointer is only ever set to a node that was
\* reached through the same bucket, or is new there.
LEMMA ChainsApartStep ==
  ASSUME TableType, ChainsApart, NEW c \in Consumers, TableNext(c)
  PROVE  ChainsApart'
<1> DEFINE Node == [p : Payload, next : Nat]
           PointerNext(n, b) == n = NULL \/ (n \in DOMAIN nodes' /\ Bucket[nodes'[n].p] = b)
<1>t. /\ table \in [Buckets -> Nat] /\ nodes \in Seq(Node) /\ at \in [Consumers -> Places]
      /\ item \in [Consumers -> Payload] /\ head \in [Consumers -> Nat]
  BY DEF TableType
<1>c. /\ Bucket[item[c]] \in Buckets /\ Cursor(c) \in Nat
      /\ Pointer(Cursor(c), Bucket[item[c]])
      /\ Cursor(c) # NULL => /\ Cursor(c) \in DOMAIN nodes
                             /\ Bucket[nodes[Cursor(c)].p] = Bucket[item[c]]
  BY CursorOf
<1>a. /\ \A b \in Buckets : Pointer(table[b], b)
      /\ \A n \in DOMAIN nodes : Pointer(nodes[n].next, Bucket[nodes[n].p])
      /\ \A d \in Consumers : Pointer(head[d], Bucket[item[d]]) /\ (at[d] = "none" => head[d] = NULL)
  BY DEF ChainsApart
<1>k. \A n, b : Pointer(n, b) => PointerNext(n, b)
  BY Elsewhere DEF Pointer
<1>o. \A d \in Consumers \ {c} : at'[d] = at[d] /\ item'[d] = item[d] /\ head'[d] = head[d]
  BY Elsewhere
<1>b. \A b \in Buckets : b # Bucket[item[c]] => table'[b] = table[b]
  BY Elsewhere
<1>g. \A place : Goto(c, place) => at'[c] = place
  BY <1>t DEF Goto
<1>s. \A n : SetCursor(c, n) => table'[Bucket[item[c]]] = n
  BY <1>t, <1>c DEF SetCursor
\* It is enough to look at the consumer's own bucket, at the nodes and at its head.
<1>q. ASSUME PointerNext(table'[Bucket[item[c]]], Bucket[item[c]]),
             \A n \in DOMAIN nodes' : PointerNext(nodes'[n].next, Bucket[nodes'[n].p]),
             PointerNext(head'[c], Bucket[item'[c]]),
             at'[c] = "none" => head'[c] = NULL
      PROVE  ChainsApart'
  <2>1. \A b \in Buckets : PointerNext(table'[b], b)
    BY <1>q, <1>b, <1>a, <1>k
  <2>2. \A d \in Consumers : PointerNext(head'[d], Bucket[item'[d]])
    BY <1>q, <1>o, <1>a, <1>k
  <2>3. \A d \in Consumers : at'[d] = "none" => head'[d] = NULL
    BY <1>q, <1>o, <1>a
  <2> QED BY <1>q, <2>1, <2>2, <2>3 DEF ChainsApart, Pointer
<1>h. PointerNext(table[Bucket[item[c]]], Bucket[item[c]]) /\ PointerNext(head[c], Bucket[item[c]])
  BY <1>a, <1>k, <1>c
<1>n. nodes' = nodes => \A n \in DOMAIN nodes' : PointerNext(nodes'[n].next, Bucket[nodes'[n].p])
  BY <1>a, <1>k
<1>1. CASE \E p \in Payload : Begin(c, p)
  <2>1. at[c] = "none" /\ nodes' = nodes /\ head' = head /\ table' = table
    BY <1>1 DEF Begin
  <2>2. head'[c] = NULL
    BY <2>1, <1>a
  <2> QED BY <2>1, <2>2, <1>q, <1>n, <1>h
<1>2. CASE ReadBucket(c) \/ CompareFirst(c) \/ TestNext(c) \/ CompareLater(c)
           \/ \E aligned \in BOOLEAN : Decide(c, aligned)
  <2>1. table' = table /\ nodes' = nodes /\ head' = head /\ item' = item
    BY <1>2 DEF ReadBucket, CompareFirst, TestNext, CompareLater, Decide
  <2>2. at'[c] # "none"
    BY <1>2, <1>g DEF ReadBucket, CompareFirst, TestNext, CompareLater, Decide
  <2> QED BY <2>1, <2>2, <1>q, <1>n, <1>h
<1>3. CASE TakeHead(c)
  <2>1. table' = table /\ nodes' = nodes /\ item' = item /\ head'[c] = Cursor(c) /\ at'[c] # "none"
    BY <1>3, <1>g, <1>t DEF TakeHead
  <2>2. PointerNext(head'[c], Bucket[item'[c]])
    BY <2>1, <1>c, <1>k
  <2> QED BY <2>1, <2>2, <1>q, <1>n, <1>h
<1>4. CASE Advance(c)
  <2>1. nodes' = nodes /\ item' = item /\ head' = head /\ at'[c] # "none"
        /\ table'[Bucket[item[c]]] = nodes[Cursor(c)].next
    BY <1>4, <1>g, <1>s DEF Advance
  <2>2. PointerNext(nodes[Cursor(c)].next, Bucket[item[c]])
    BY <1>4, <1>c, <1>a, <1>k DEF Advance
  <2> QED BY <2>1, <2>2, <1>q, <1>n, <1>h
<1>5. CASE SetBucket(c)
  <2>1. /\ DOMAIN nodes = 1..Len(nodes) /\ DOMAIN nodes' = 1..(Len(nodes) + 1)
        /\ Len(nodes') = Len(nodes) + 1 /\ Len(nodes) \in Nat
        /\ \A n \in DOMAIN nodes : nodes'[n] = nodes[n]
        /\ nodes'[Len(nodes) + 1] = [p |-> item[c], next |-> NULL]
    BY <1>5, <1>t DEF SetBucket
  <2>2. item' = item /\ head' = head /\ at'[c] # "none"
        /\ table'[Bucket[item[c]]] = Len(nodes) + 1
    BY <1>5, <1>g, <1>s, <2>1 DEF SetBucket
  <2>3. PointerNext(Len(nodes) + 1, Bucket[item[c]])
    BY <2>1
  <2>4. ASSUME NEW n \in DOMAIN nodes'
        PROVE  PointerNext(nodes'[n].next, Bucket[nodes'[n].p])
    <3>1. CASE n = Len(nodes) + 1
      BY <3>1, <2>1
    <3>2. CASE n # Len(nodes) + 1
      <4>1. n \in DOMAIN nodes
        BY <3>2, <2>1
      <4> QED BY <4>1, <2>1, <1>a, <1>k
    <3> QED BY <3>1, <3>2
  <2> QED BY <2>2, <2>3, <2>4, <1>q, <1>h
<1>6. CASE LinkNode(c)
  <2>1. /\ Cursor(c) \in DOMAIN nodes
        /\ DOMAIN nodes = 1..Len(nodes)
        /\ DOMAIN nodes' = 1..(Len(nodes) + 1)
        /\ \A n \in DOMAIN nodes : n \in DOMAIN nodes' /\ nodes'[n].p = nodes[n].p
                                   /\ (n # Cursor(c) => nodes'[n] = nodes[n])
        /\ nodes'[Cursor(c)].next = Len(nodes) + 1
        /\ nodes'[Len(nodes) + 1] = [p |-> item[c], next |-> NULL]
    BY <1>6, LinkedNodes
  <2>2. item' = item /\ head' = head /\ table' = table /\ at'[c] # "none"
    BY <1>6, <1>g DEF LinkNode
  <2>3. PointerNext(Len(nodes) + 1, Bucket[item[c]])
    <3>1. Len(nodes) + 1 \in 1..(Len(nodes) + 1)
      BY <1>t
    <3> QED BY <3>1, <2>1
  <2>4. ASSUME NEW n \in DOMAIN nodes'
        PROVE  PointerNext(nodes'[n].next, Bucket[nodes'[n].p])
    <3>1. CASE n = Len(nodes) + 1
      BY <3>1, <2>1
    <3>2. CASE n = Cursor(c)
      <4>1. Bucket[nodes'[n].p] = Bucket[item[c]]
        BY <3>2, <2>1, <1>c, <1>6 DEF LinkNode
      <4> QED BY <4>1, <3>2, <2>1, <2>3
    <3>3. CASE n # Len(nodes) + 1 /\ n # Cursor(c)
      <4>1. n \in DOMAIN nodes
        BY <3>3, <2>1, <1>t
      <4> QED BY <4>1, <3>3, <2>1, <1>a, <1>k
    <3> QED BY <3>1, <3>2, <3>3
  <2> QED BY <2>2, <2>4, <1>q, <1>h
<1>7. CASE ResetHead(c)
  <2>1. nodes' = nodes /\ item' = item /\ head' = head /\ at'[c] # "none"
        /\ table'[Bucket[item[c]]] = head[c]
    BY <1>7, <1>g, <1>s DEF ResetHead
  <2> QED BY <2>1, <1>q, <1>n, <1>h
<1>8. CASE Sum(c)
  <2>1. table' = table /\ nodes' = nodes /\ head'[c] = NULL
    BY <1>8, <1>t DEF Sum
  <2> QED BY <2>1, <1>q, <1>n, <1>h
<1> QED BY <1>1, <1>2, <1>3, <1>4, <1>5, <1>6, <1>7, <1>8 DEF TableNext, LookupStep

-----------------------------------------------------------------------------
(* A lookup that is alone in its bucket.                                   *)

\* What can be reached stays so as long as nobody changes the nodes of the bucket.
LEMMA ReachStays ==
  ASSUME TableType, ChainsApart, NEW d \in Consumers, NEW m \in Reach(head[d]),
         head'[d] = head[d],
         \A n \in DOMAIN nodes :
           n \in DOMAIN nodes' /\ (Bucket[nodes[n].p] = Bucket[item[d]] => nodes'[n] = nodes[n])
  PROVE  (m \in Reach(head[d]))'
<1> DEFINE b == Bucket[item[d]]
           ClosedNext(S) == \A n \in S : nodes'[n].next \in S \cup {NULL}
<1>1. m \in DOMAIN nodes /\ m \in DOMAIN nodes'
  BY DEF Reach
<1>2. ASSUME NEW S \in SUBSET DOMAIN nodes', head[d] \in S \cup {NULL}, ClosedNext(S)
      PROVE  m \in S
  <2> DEFINE T == {n \in DOMAIN nodes : n \in S /\ Bucket[nodes[n].p] = b}
  <2>1. T \in SUBSET DOMAIN nodes
    OBVIOUS
  <2>2. Pointer(head[d], b)
    BY DEF ChainsApart
  <2>3. head[d] \in T \cup {NULL}
    BY <1>2, <2>2 DEF Pointer
  <2>4. ASSUME NEW n \in T
        PROVE  nodes[n].next \in T \cup {NULL}
    <3>1. nodes'[n] = nodes[n] /\ nodes'[n].next \in S \cup {NULL}
      BY <1>2
    <3>2. Pointer(nodes[n].next, b)
      BY DEF ChainsApart
    <3> QED BY <3>1, <3>2 DEF Pointer
  <2>5. Closed(T)
    BY <2>4 DEF Closed
  <2>6. m \in T
    <3> HIDE DEF T
    <3> QED BY <2>1, <2>3, <2>5 DEF Reach
  <2> QED BY <2>6
<1>3. (\A S \in SUBSET DOMAIN nodes : head[d] \in S \cup {NULL} /\ Closed(S) => m \in S)'
  BY <1>2 DEF Closed
<1> QED BY <1>1, <1>3 DEF Reach

\* A lookup on its track goes on along it.
LEMMA OwnStep ==
  ASSUME TableType, ChainsApart, NEW c \in Consumers, OnTrack(c),
         LookupStep(c) \/ \E aligned \in BOOLEAN : Decide(c, aligned)
  PROVE  OnTrack(c)'
<1> DEFINE Node == [p : Payload, next : Nat]
<1>t. /\ table \in [Buckets -> Nat] /\ nodes \in Seq(Node) /\ at \in [Consumers -> Places]
      /\ item \in [Consumers -> Payload] /\ head \in [Consumers -> Nat]
  BY DEF TableType
<1>c. /\ Bucket[item[c]] \in Buckets
      /\ Cursor(c) # NULL => /\ Cursor(c) \in DOMAIN nodes
                             /\ Bucket[nodes[Cursor(c)].p] = Bucket[item[c]]
  BY CursorOf
<1>g. \A place : Goto(c, place) => at'[c] = place
  BY <1>t DEF Goto
<1>r. ASSUME table' = table, nodes' = nodes, head' = head, item' = item
      PROVE  Cursor(c)' = Cursor(c) /\ Reach(head[c])' = Reach(head[c])
  BY <1>r DEF Cursor, Reach, Closed
<1>1. CASE ReadBucket(c)
  <2>1. table' = table /\ nodes' = nodes /\ head' = head /\ item' = item
        /\ at'[c] = IF Cursor(c) = NULL THEN "lone" ELSE "head"
    BY <1>1, <1>g DEF ReadBucket
  <2> QED BY <2>1, <1>r DEF OnTrack
<1>2. CASE TakeHead(c)
  <2>1. table' = table /\ item' = item /\ at[c] = "head" /\ at'[c] = "first"
        /\ head'[c] = Cursor(c)
    BY <1>2, <1>g, <1>t DEF TakeHead
  <2>2. Cursor(c)' = Cursor(c) /\ Cursor(c) # NULL
    BY <2>1 DEF Cursor, OnTrack
  <2> QED BY <2>1, <2>2 DEF OnTrack
<1>3. CASE CompareFirst(c)
  <2>1. table' = table /\ nodes' = nodes /\ head' = head /\ item' = item
        /\ at[c] = "first" /\ at'[c] = "next"
    BY <1>3, <1>g DEF CompareFirst
  <2>2. Cursor(c) = head[c] /\ Cursor(c) # NULL
    BY <2>1 DEF OnTrack
  <2>3. Cursor(c) \in Reach(head[c])
    BY <2>2, <1>c DEF Reach
  <2> QED BY <2>1, <2>3, <1>r DEF OnTrack
<1>4. CASE TestNext(c)
  <2>1. table' = table /\ nodes' = nodes /\ head' = head /\ item' = item
        /\ at[c] = "next" /\ at'[c] = IF nodes[Cursor(c)].next = NULL THEN "decide" ELSE "advance"
    BY <1>4, <1>g DEF TestNext
  <2> QED BY <2>1, <1>r DEF OnTrack
<1>5. CASE Advance(c)
  <2> DEFINE next == nodes[Cursor(c)].next
  <2>1. nodes' = nodes /\ head' = head /\ item' = item /\ at[c] = "advance"
        /\ at'[c] = "compare" /\ Cursor(c) # NULL /\ table'[Bucket[item[c]]] = next
    BY <1>5, <1>g, <1>t, <1>c DEF Advance, SetCursor
  <2>2. Cursor(c)' = next
    BY <2>1 DEF Cursor
  <2>3. next # NULL /\ Cursor(c) \in Reach(head[c])
    BY <2>1 DEF OnTrack
  <2>4. next \in DOMAIN nodes
    BY <2>1, <2>3, <1>c DEF ChainsApart, Pointer
  <2>5. next \in Reach(head[c])
    BY <2>3, <2>4 DEF Reach, Closed
  <2>6. Reach(head[c])' = Reach(head[c])
    BY <2>1 DEF Reach, Closed
  <2> QED BY <2>1, <2>2, <2>5, <2>6 DEF OnTrack
<1>6. CASE CompareLater(c)
  <2>1. table' = table /\ nodes' = nodes /\ head' = head /\ item' = item
        /\ at[c] = "compare" /\ at'[c] \in {"sum", "next"}
    BY <1>6, <1>g DEF CompareLater
  <2> QED BY <2>1, <1>r DEF OnTrack
<1>7. CASE \E aligned \in BOOLEAN : Decide(c, aligned)
  <2>1. /\ table' = table /\ nodes' = nodes /\ head' = head /\ item' = item
        /\ \/ at'[c] = "sum"
           \/ at[c] = "lone" /\ at'[c] = "set"
           \/ at[c] = "decide" /\ at'[c] = "link"
    BY <1>7, <1>g DEF Decide
  <2> QED BY <2>1, <1>r DEF OnTrack
<1>8. CASE SetBucket(c) \/ ResetHead(c)
  <2>1. at'[c] = "sum"
    BY <1>8, <1>g DEF SetBucket, ResetHead
  <2> QED BY <2>1 DEF OnTrack
<1>9. CASE LinkNode(c)
  <2>1. table' = table /\ head' = head /\ item' = item /\ at[c] = "link" /\ at'[c] = "reset"
    BY <1>9, <1>g DEF LinkNode
  <2>2. /\ Cursor(c) \in DOMAIN nodes
        /\ \A n \in DOMAIN nodes :
             n \in DOMAIN nodes' /\ (n # Cursor(c) => nodes'[n] = nodes[n])
    BY <1>9, LinkedNodes
  <2>3. nodes[Cursor(c)].next = NULL /\ Cursor(c) \in Reach(head[c])
    BY <2>1 DEF OnTrack
  <2>4. Cursor(c)' = Cursor(c)
    BY <2>1 DEF Cursor
  <2>5. ASSUME NEW S \in SUBSET DOMAIN nodes', head[c] \in S \cup {NULL},
               \A n \in S : nodes'[n].next \in S \cup {NULL}
        PROVE  Cursor(c) \in S
    <3> DEFINE T == {n \in DOMAIN nodes : n \in S}
    <3>1. T \in SUBSET DOMAIN nodes
      OBVIOUS
    <3>2. head[c] \in T \cup {NULL}
      BY <2>5 DEF ChainsApart, Pointer
    <3>3. ASSUME NEW n \in T
          PROVE  nodes[n].next \in T \cup {NULL}
      <4>1. CASE n = Cursor(c)
        BY <4>1, <2>3
      <4>2. CASE n # Cursor(c)
        <5>1. nodes[n].next \in S \cup {NULL}
          BY <4>2, <2>2, <2>5
        <5> QED BY <5>1 DEF ChainsApart, Pointer
      <4> QED BY <4>1, <4>2
    <3>4. Closed(T)
      BY <3>3 DEF Closed
    <3>5. Cursor(c) \in T
      <4> HIDE DEF T
      <4> QED BY <2>3, <3>1, <3>2, <3>4 DEF Reach
    <3> QED BY <3>5
  <2>6. (Cursor(c) \in Reach(head[c]))'
    BY <2>1, <2>2, <2>4, <2>5 DEF Reach, Closed
  <2> QED BY <2>1, <2>6 DEF OnTrack
<1> QED BY <1>1, <1>2, <1>3, <1>4, <1>5, <1>6, <1>7, <1>8, <1>9 DEF LookupStep

\* The cursor of a lookup that is alone in its bucket keeps to the chain that
\* it came upon, and meets no null pointer.
LEMMA AloneStep ==
  ASSUME TableType, ChainsApart, AloneOnTrack, NEW c \in Consumers, TableNext(c)
  PROVE  AloneOnTrack'
<1> DEFINE Node == [p : Payload, next : Nat]
<1>t. /\ table \in [Buckets -> Nat] /\ nodes \in Seq(Node) /\ at \in [Consumers -> Places]
      /\ item \in [Consumers -> Payload] /\ head \in [Consumers -> Nat]
  BY DEF TableType
<1>e. /\ \A b \in Buckets : b # Bucket[item[c]] => table'[b] = table[b]
      /\ \A n \in DOMAIN nodes :
           n \in DOMAIN nodes' /\ (Bucket[nodes[n].p] # Bucket[item[c]] => nodes'[n] = nodes[n])
      /\ \A d \in Consumers \ {c} : at'[d] = at[d] /\ item'[d] = item[d] /\ head'[d] = head[d]
      /\ \A d \in Consumers \ {c} : d \in overlap => d \in overlap'
  BY Elsewhere
<1>g. \A place : Goto(c, place) => at'[c] = place
  BY <1>t DEF Goto
<1>p. \A d \in Consumers : Bucket[item[d]] \in Buckets
  BY <1>t, BucketOf
<1> DEFINE Begins == \E p \in Payload : Begin(c, p)
           Works  == LookupStep(c) \/ \E aligned \in BOOLEAN : Decide(c, aligned)
<1>w. Works => at[c] # "none" /\ item' = item /\ overlap' = overlap
  BY DEF LookupStep, ReadBucket, TakeHead, CompareFirst, TestNext, Advance, CompareLater,
         Decide, SetBucket, LinkNode, ResetHead
<1>u. Sum(c) => at[c] # "none" /\ at'[c] = "none" /\ table' = table /\ nodes' = nodes
  BY <1>g DEF Sum
<1>b. Begins => at[c] = "none" /\ table' = table /\ nodes' = nodes /\ head' = head
                  /\ at'[c] = "bucket"
  BY <1>g DEF Begin
<1>r. ASSUME NEW p \in Payload, Begin(c, p)
      PROVE  /\ item'[c] = p
             /\ c \notin overlap' => \A e \in Busy : Bucket[item[e]] # Bucket[p]
             /\ \A d \in Busy : Bucket[item[d]] = Bucket[p] => d \in overlap'
  BY <1>r, <1>t DEF Begin
\* The others.
<1>1. ASSUME NEW d \in Consumers, d # c, at'[d] # "none", d \notin overlap'
      PROVE  /\ \A e \in Consumers : e # d /\ at'[e] # "none" => Bucket[item'[e]] # Bucket[item'[d]]
             /\ OnTrack(d)'
  <2>1. at'[d] = at[d] /\ item'[d] = item[d] /\ head'[d] = head[d] /\ d \in Busy \ overlap
    BY <1>1, <1>e DEF Busy
  <2>2. OnTrack(d) /\ \A e \in Busy \ {d} : Bucket[item[e]] # Bucket[item[d]]
    BY <2>1 DEF AloneOnTrack
  <2>3. \A e \in Consumers \ {c} : e # d /\ at'[e] # "none" => Bucket[item'[e]] # Bucket[item'[d]]
    BY <2>1, <2>2, <1>e DEF Busy
  <2>4. at'[c] # "none" => Bucket[item'[c]] # Bucket[item'[d]]
    <3>1. CASE Begins
      BY <3>1, <1>1, <2>1, <1>r
    <3>2. CASE Works
      <4>1. c \in Busy \ {d} /\ item'[c] = item[c]
        BY <3>2, <1>w, <1>1 DEF Busy
      <4> QED BY <4>1, <2>1, <2>2
    <3>3. CASE Sum(c)
      BY <3>3, <1>u
    <3> QED BY <3>1, <3>2, <3>3 DEF TableNext
  <2>5. /\ table'[Bucket[item[d]]] = table[Bucket[item[d]]]
        /\ \A n \in DOMAIN nodes :
             n \in DOMAIN nodes' /\ (Bucket[nodes[n].p] = Bucket[item[d]] => nodes'[n] = nodes[n])
    <3>1. CASE Begins \/ Sum(c)
      BY <3>1, <1>b, <1>u
    <3>2. CASE Works
      <4>1. c \in Busy \ {d}
        BY <3>2, <1>w, <1>1 DEF Busy
      <4>2. Bucket[item[c]] # Bucket[item[d]]
        BY <4>1, <2>2
      <4> QED BY <4>2, <1>e, <1>p
    <3> QED BY <3>1, <3>2 DEF TableNext
  <2>6. Cursor(d)' = Cursor(d)
    BY <2>1, <2>5 DEF Cursor
  <2>7. Cursor(d) # NULL => nodes'[Cursor(d)] = nodes[Cursor(d)]
    BY <2>5, CursorOf
  <2>8. Cursor(d) \in Reach(head[d]) => (Cursor(d) \in Reach(head[d]))'
    <3>1. PICK m : m = Cursor(d)
      OBVIOUS
    <3>2. m \in Reach(head[d]) => (m \in Reach(head[d]))'
      BY <2>1, <2>5, ReachStays
    <3>3. m = Cursor(d)'
      BY <3>1, <2>6
    <3> QED BY <3>1, <3>2, <3>3
  <2>9. at[d] \in {"decide", "link", "advance"} => Cursor(d) # NULL
    BY <2>2 DEF OnTrack, Reach, TableType, NULL
  <2> QED BY <2>1, <2>2, <2>3, <2>4, <2>6, <2>7, <2>8, <2>9 DEF OnTrack
\* The consumer itself.
<1>2. ASSUME at'[c] # "none", c \notin overlap'
      PROVE  /\ \A e \in Consumers : e # c /\ at'[e] # "none" => Bucket[item'[e]] # Bucket[item'[c]]
             /\ OnTrack(c)'
  <2>1. CASE Begins
    <3>1. PICK p \in Payload : Begin(c, p)
      BY <2>1
    <3>2. \A e \in Consumers : e # c /\ at'[e] # "none" => Bucket[item'[e]] # Bucket[item'[c]]
      BY <3>1, <1>r, <1>2, <1>e DEF Busy
    <3>3. OnTrack(c)'
      BY <2>1, <1>b DEF OnTrack
    <3> QED BY <3>2, <3>3
  <2>2. CASE Works
    <3>1. c \in Busy \ overlap /\ item' = item
      BY <2>2, <1>w, <1>2 DEF Busy
    <3>2. OnTrack(c) /\ \A e \in Busy \ {c} : Bucket[item[e]] # Bucket[item[c]]
      BY <3>1 DEF AloneOnTrack
    <3>3. \A e \in Consumers : e # c /\ at'[e] # "none" => Bucket[item'[e]] # Bucket[item'[c]]
      BY <3>1, <3>2, <1>e DEF Busy
    <3>4. OnTrack(c)'
      BY <2>2, <3>1, <3>2, OwnStep
    <3> QED BY <3>3, <3>4
  <2>3. CASE Sum(c)
    BY <2>3, <1>2, <1>u
  <2> QED BY <2>1, <2>2, <2>3 DEF TableNext
<1>3. ASSUME NEW d \in Consumers, at'[d] # "none", d \notin overlap'
      PROVE  /\ \A e \in Consumers : e # d /\ at'[e] # "none" => Bucket[item'[e]] # Bucket[item'[d]]
             /\ OnTrack(d)'
  <2>1. CASE d = c
    BY <2>1, <1>2, <1>3
  <2>2. CASE d # c
    BY <2>2, <1>1, <1>3
  <2> QED BY <2>1, <2>2
<1> QED BY <1>3 DEF AloneOnTrack, Busy

-----------------------------------------------------------------------------
(* Hits.                                                                   *)

\* Sets of consumers are finite.
LEMMA SomeConsumers ==
  ASSUME NEW S \in SUBSET Consumers
  PROVE  IsFiniteSet(S) /\ Cardinality(S) \in Nat
BY TableAssumption, FS_Subset, FS_CardinalityType

\* A lookup counts one hit when it finds its payload, and another one at most.
LEMMA HitsStep ==
  ASSUME TableType, HitsInv, NEW c \in Consumers, TableNext(c)
  PROVE  HitsInv'
<1> DEFINE F == Cardinality(Found)
           M == Cardinality(MayHitAgain)
           Early == {"none", "bucket", "head", "first"}
<1>t. /\ at \in [Consumers -> Places] /\ matchFound \in [Consumers -> BOOLEAN]
      /\ cacheHits \in Nat /\ duplicates \in Nat
  BY DEF TableType
<1>h. /\ \A d \in Consumers : at[d] \in Early => ~matchFound[d]
      /\ duplicates + F <= cacheHits /\ cacheHits + M <= 2 * (duplicates + F)
  BY DEF HitsInv
<1>f. /\ Found \in SUBSET Consumers /\ MayHitAgain \in SUBSET Consumers
      /\ MayHitAgain \subseteq Found
  BY DEF Found, MayHitAgain
<1>n. IsFiniteSet(Found) /\ IsFiniteSet(MayHitAgain) /\ F \in Nat /\ M \in Nat
  BY <1>f, SomeConsumers
<1>g. \A place : Goto(c, place) =>
         at'[c] = place /\ \A d \in Consumers \ {c} : at'[d] = at[d]
  BY <1>t DEF Goto
\* Most steps touch none of it.
<1>q. ASSUME matchFound' = matchFound, cacheHits' = cacheHits, duplicates' = duplicates,
             at[c] # "sum", at'[c] \in Early => ~matchFound[c],
             \A d \in Consumers \ {c} : at'[d] = at[d]
      PROVE  HitsInv'
  <2>1. Found' = Found
    BY <1>q DEF Found
  <2>2. MayHitAgain' \in SUBSET MayHitAgain
    BY <2>1, <1>q, <1>f DEF MayHitAgain
  <2>3. Cardinality(MayHitAgain') \in Nat /\ Cardinality(MayHitAgain') <= M
    BY <2>2, <1>n, FS_Subset, FS_CardinalityType
  <2>4. Cardinality(Found') = F
    BY <2>1
  <2>5. \A d \in Consumers : at'[d] \in Early => ~matchFound'[d]
    BY <1>q, <1>h
  <2>6. duplicates' + Cardinality(Found') <= cacheHits'
        /\ cacheHits' + Cardinality(MayHitAgain') <= 2 * (duplicates' + Cardinality(Found'))
    <3> HIDE DEF F, M
    <3> QED BY <2>3, <2>4, <1>q, <1>h, <1>n, <1>t
  <2> QED BY <2>5, <2>6 DEF HitsInv
<1>m. CountMatch(c) =>
        \/ matchFound' = [matchFound EXCEPT ![c] = TRUE] /\ cacheHits' = cacheHits + 1
             /\ nodes[Cursor(c)].p = item[c]
        \/ matchFound' = matchFound /\ cacheHits' = cacheHits
             /\ nodes[Cursor(c)].p # item[c]
  BY DEF CountMatch
\* The consumer has found its payload.
<1>y. ASSUME matchFound' = [matchFound EXCEPT ![c] = TRUE]
      PROVE  Found' = Found \cup {c}
  BY <1>y, <1>t DEF Found
<1>1. CASE \E p \in Payload : Begin(c, p)
  <2>1. /\ at[c] = "none" /\ matchFound' = [matchFound EXCEPT ![c] = FALSE]
        /\ cacheHits' = cacheHits /\ duplicates' = duplicates /\ at'[c] = "bucket"
        /\ \A d \in Consumers \ {c} : at'[d] = at[d]
    BY <1>1, <1>g DEF Begin
  <2>2. matchFound[c] = FALSE
    BY <2>1, <1>h, <1>t
  <2>3. matchFound' = matchFound
    BY <2>1, <2>2, <1>t
  <2> QED BY <2>1, <2>2, <2>3, <1>q
<1>2. CASE ReadBucket(c) \/ TakeHead(c)
  <2>1. /\ at[c] \in {"bucket", "head"} /\ matchFound' = matchFound
        /\ cacheHits' = cacheHits /\ duplicates' = duplicates
        /\ \A d \in Consumers \ {c} : at'[d] = at[d]
    BY <1>2, <1>g DEF ReadBucket, TakeHead
  <2> QED BY <2>1, <1>h, <1>q
<1>3. CASE TestNext(c) \/ Advance(c) \/ SetBucket(c) \/ LinkNode(c) \/ ResetHead(c)
           \/ \E aligned \in BOOLEAN : Decide(c, aligned)
  <2>1. /\ at[c] # "sum" /\ matchFound' = matchFound
        /\ cacheHits' = cacheHits /\ duplicates' = duplicates
    BY <1>3 DEF TestNext, Advance, SetBucket, LinkNode, ResetHead, Decide
  <2>2. at'[c] \notin Early /\ \A d \in Consumers \ {c} : at'[d] = at[d]
    BY <1>3, <1>g DEF TestNext, Advance, SetBucket, LinkNode, ResetHead, Decide
  <2> QED BY <2>1, <2>2, <1>q
<1>4. CASE CompareFirst(c)
  <2>1. /\ at[c] = "first" /\ at'[c] = "next" /\ duplicates' = duplicates /\ CountMatch(c)
        /\ \A d \in Consumers \ {c} : at'[d] = at[d]
    BY <1>4, <1>g DEF CompareFirst
  <2>2. CASE matchFound' = matchFound /\ cacheHits' = cacheHits
    BY <2>1, <2>2, <1>q
  <2>3. CASE matchFound' = [matchFound EXCEPT ![c] = TRUE] /\ cacheHits' = cacheHits + 1
    <3>1. c \notin Found /\ c \notin MayHitAgain
      BY <2>1, <1>h DEF Found, MayHitAgain
    <3>2. Found' = Found \cup {c}
      BY <2>3, <1>y
    <3>3. MayHitAgain' = MayHitAgain \cup {c}
      BY <3>2, <2>1, <1>f DEF MayHitAgain
    <3>4. Cardinality(Found \cup {c}) = F + 1
      BY <3>1, <1>n, FS_AddElement
    <3>5. Cardinality(MayHitAgain \cup {c}) = M + 1
      BY <3>1, <1>n, FS_AddElement
    <3>6. Cardinality(Found') = F + 1
      BY <3>2, <3>4
    <3>7. Cardinality(MayHitAgain') = M + 1
      BY <3>3, <3>5
    <3>8. \A d \in Consumers : at'[d] \in Early => ~matchFound'[d]
      BY <2>1, <2>3, <1>h, <1>t
    <3>9. duplicates' + Cardinality(Found') <= cacheHits'
          /\ cacheHits' + Cardinality(MayHitAgain') <= 2 * (duplicates' + Cardinality(Found'))
      <4> HIDE DEF F, M
      <4> QED BY <3>6, <3>7, <2>1, <2>3, <1>h, <1>n, <1>t
    <3> QED BY <3>8, <3>9 DEF HitsInv
  <2> QED BY <2>1, <2>2, <2>3, <1>m
<1>5. CASE CompareLater(c)
  <2>1. /\ at[c] = "compare" /\ duplicates' = duplicates /\ CountMatch(c)
        /\ at'[c] = IF nodes[Cursor(c)].p = item[c] THEN "sum" ELSE "next"
        /\ \A d \in Consumers \ {c} : at'[d] = at[d]
    BY <1>5, <1>g DEF CompareLater
  <2>2. CASE matchFound' = matchFound /\ cacheHits' = cacheHits
             /\ nodes[Cursor(c)].p # item[c]
    BY <2>1, <2>2, <1>q
  <2>3. CASE matchFound' = [matchFound EXCEPT ![c] = TRUE] /\ cacheHits' = cacheHits + 1
             /\ nodes[Cursor(c)].p = item[c]
    <3>1. c \in Found => c \in MayHitAgain
      BY <2>1 DEF MayHitAgain
    <3>2. Found' = Found \cup {c}
      BY <2>3, <1>y
    <3>3. MayHitAgain' = MayHitAgain \ {c}
      BY <3>2, <2>1, <2>3, <1>f DEF MayHitAgain
    <3>4. Cardinality(Found \cup {c}) = IF c \in Found THEN F ELSE F + 1
      BY <1>n, FS_AddElement
    <3>5. Cardinality(MayHitAgain \ {c}) = IF c \in MayHitAgain THEN M - 1 ELSE M
      BY <1>n, FS_RemoveElement
    <3>6. Cardinality(Found') = IF c \in Found THEN F ELSE F + 1
      BY <3>2, <3>4
    <3>7. Cardinality(MayHitAgain') = IF c \in Found THEN M - 1 ELSE M
      BY <3>1, <3>3, <3>5, <1>f
    <3>8. \A d \in Consumers : at'[d] \in Early => ~matchFound'[d]
      BY <2>1, <2>3, <1>h, <1>t
    <3>9. c \in Found => M >= 1 /\ duplicates + F + 1 <= cacheHits + 1
      <4>1. ASSUME c \in Found PROVE M # 0
        BY <4>1, <3>1, <1>n, FS_EmptySet
      <4> HIDE DEF F, M
      <4> QED BY <4>1, <1>n, <1>h, <1>t
    <3>10. duplicates' + Cardinality(Found') <= cacheHits'
           /\ cacheHits' + Cardinality(MayHitAgain') <= 2 * (duplicates' + Cardinality(Found'))
      <4> HIDE DEF F, M
      <4> QED BY <3>6, <3>7, <3>9, <2>1, <2>3, <1>h, <1>n, <1>t
    <3> QED BY <3>8, <3>10 DEF HitsInv
  <2> QED BY <2>1, <2>2, <2>3, <1>m
<1>6. CASE Sum(c)
  <2>1. /\ at[c] = "sum" /\ at'[c] = "none" /\ cacheHits' = cacheHits
        /\ matchFound' = [matchFound EXCEPT ![c] = FALSE]
        /\ duplicates' = IF matchFound[c] THEN duplicates + 1 ELSE duplicates
        /\ \A d \in Consumers \ {c} : at'[d] = at[d]
    BY <1>6, <1>g DEF Sum
  <2>2. Found' = Found \ {c}
    BY <2>1, <1>t DEF Found
  <2>3. MayHitAgain' = MayHitAgain
    BY <2>1, <2>2, <1>f DEF MayHitAgain
  <2>4. Cardinality(Found \ {c}) = IF c \in Found THEN F - 1 ELSE F
    BY <1>n, FS_RemoveElement
  <2>5. Cardinality(Found') = IF c \in Found THEN F - 1 ELSE F
    BY <2>2, <2>4
  <2>6. Cardinality(MayHitAgain') = M
    BY <2>3
  <2>7. duplicates' = IF c \in Found THEN duplicates + 1 ELSE duplicates
    BY <2>1 DEF Found
  <2>8. \A d \in Consumers : at'[d] \in Early => ~matchFound'[d]
    BY <2>1, <1>h, <1>t
  <2>9. duplicates' + Cardinality(Found') <= cacheHits'
        /\ cacheHits' + Cardinality(MayHitAgain') <= 2 * (duplicates' + Cardinality(Found'))
    <3> HIDE DEF F, M
    <3> QED BY <2>5, <2>6, <2>7, <2>1, <1>h, <1>n, <1>t
  <2> QED BY <2>8, <2>9 DEF HitsInv
<1> QED BY <1>1, <1>2, <1>3, <1>4, <1>5, <1>6 DEF TableNext, LookupStep

-----------------------------------------------------------------------------
(* The invariant of the table.                                             *)

\* It holds of an empty table.
LEMMA TableInvInit == TableInit => TableInv
<1> SUFFICES ASSUME TableInit PROVE TableInv
  OBVIOUS
<1>1. TableType
  <2>1. <<>> \in Seq([p : Payload, next : Nat])
    OBVIOUS
  <2>2. table \in [Buckets -> Nat]
    BY DEF TableInit, Buckets, NULL
  <2>3. at \in [Consumers -> Places]
    BY DEF TableInit, Places
  <2> QED BY <2>1, <2>2, <2>3, PayloadExists DEF TableInit, TableType, NULL
<1>2. ChainsApart
  <2>1. DOMAIN nodes = {}
    BY DEF TableInit
  <2> QED BY <2>1 DEF TableInit, ChainsApart, Pointer, Buckets
<1>3. Busy = {}
  BY DEF TableInit, Busy
<1>4. Found = {} /\ MayHitAgain = {}
  BY DEF TableInit, Found, MayHitAgain
<1>5. HitsInv
  <2>1. Cardinality(Found) = 0 /\ Cardinality(MayHitAgain) = 0
    BY <1>4, FS_EmptySet
  <2> QED BY <2>1 DEF HitsInv, TableInit
<1> QED BY <1>1, <1>2, <1>3, <1>5 DEF TableInv, AloneOnTrack

\* Every step of a lookup keeps it, and so does every step beside the table.
LEMMA TableInvStep ==
  ASSUME TableInv, (\E c \in Consumers : TableNext(c)) \/ UNCHANGED tableVars
  PROVE  TableInv'
<1>1. CASE \E c \in Consumers : TableNext(c)
  BY <1>1, TableTypeStep, ChainsApartStep, AloneStep, HitsStep DEF TableInv
<1>2. CASE UNCHANGED tableVars
  BY <1>2 DEF tableVars, TableInv, TableType, ChainsApart, AloneOnTrack, HitsInv, Pointer,
      OnTrack, Reach, Closed, Cursor, Busy, Found, MayHitAgain
<1> QED BY <1>1, <1>2

-----------------------------------------------------------------------------
(* Windows and the place of the producer.                                  *)

\* Every file has a record, and every record, read or made up, some windows.
LEMMA WindowsType ==
  ASSUME NEW f \in DOMAIN Files
  PROVE  /\ Len(Files[f]) \in Nat \ {0}
         /\ \A r \in Nat \ {0} : Windows(f, r) \in Nat
<1> DEFINE Captures == Seq(Nat) \ {<<>>}
<1>1. Files[f] \in Captures
  <2>1. Files \in Seq(Captures)
    BY FilesAssumption
  <2> HIDE DEF Captures
  <2> QED BY <2>1
<1>2. Files[f] \in Seq(Nat) /\ Files[f] # <<>>
  BY <1>1
<1>3. Len(Files[f]) \in Nat \ {0}
  BY <1>2
<1>4. \A i \in 1..Len(Files[f]) : Files[f][i] \in Nat
  BY <1>2
<1> QED BY <1>3, <1>4 DEF Windows

\* An entry is a file, a record of it and a window of that record.
LEMMA EntryIs ==
  /\ \A f \in DOMAIN Files : \A r \in 1..(Len(Files[f]) + 1) : \A w \in 1..Windows(f, r) :
       <<f, r, w>> \in Entry
  /\ \A e \in Entry : e[1] \in Nat /\ e[2] \in Nat /\ e[3] \in Nat /\ e = <<e[1], e[2], e[3]>>
<1> DEFINE OfRecord(f, r) == {<<f, r, w>> : w \in 1..Windows(f, r)}
           OfFile(f) == UNION {OfRecord(f, r) : r \in 1..(Len(Files[f]) + 1)}
<1>1. Entry = UNION {OfFile(f) : f \in DOMAIN Files}
  BY DEF Entry
<1>2. ASSUME NEW f \in DOMAIN Files, NEW r \in 1..(Len(Files[f]) + 1), NEW w \in 1..Windows(f, r)
      PROVE  <<f, r, w>> \in Entry
  <2>1. <<f, r, w>> \in OfRecord(f, r)
    OBVIOUS
  <2>2. <<f, r, w>> \in OfFile(f)
    BY <2>1
  <2> QED BY <2>2, <1>1
<1>3. ASSUME NEW e \in Entry
      PROVE  e[1] \in Nat /\ e[2] \in Nat /\ e[3] \in Nat /\ e = <<e[1], e[2], e[3]>>
  <2>1. PICK f \in DOMAIN Files : e \in OfFile(f)
    BY <1>1
  <2>2. PICK r \in 1..(Len(Files[f]) + 1) : e \in OfRecord(f, r)
    BY <2>1
  <2>3. PICK w \in 1..Windows(f, r) : e = <<f, r, w>>
    BY <2>2
  <2>4. f \in Nat
    BY FilesAssumption
  <2>5. r \in Nat /\ w \in Nat
    BY WindowsType
  <2> QED BY <2>3, <2>4, <2>5
<1> QED BY <1>2, <1>3

\* The entry the producer is about to push.
LEMMA EntryInProgress ==
  ASSUME ThreadType, ReaderPlace, pcProd \in Pushing
  PROVE  pcMain # "open" /\ <<file, rec, win>> \in Entry
<1>1. pcMain # "open" /\ file \in DOMAIN Files /\ rec \in 1..(Records + 1)
      /\ win \in 1..Windows(file, rec)
  BY DEF ReaderPlace, Pushing
<1> QED BY <1>1, EntryIs DEF Records

\* The steps of main and of the producer keep the place in the file.
LEMMA ReaderPlaceStep ==
  ASSUME ThreadType, ReaderPlace, pcMain # "killed", ProducerStep \/ MainOpen \/ MainJoin
  PROVE  ReaderPlace'
<1>t. /\ file \in Nat \ {0} /\ rec \in Nat /\ win \in Nat
      /\ pcMain \in {"open", "join", "killed"}
  BY DEF ThreadType
<1>r. /\ pcMain = "open" => pcProd = "done" /\ (\A c \in Consumers : pcCons[c] = "done") /\ rec = 0
      /\ pcMain # "open" => file \in DOMAIN Files
      /\ pcMain # "open" /\ pcProd \in {"start", "room", "waiting"} => rec <= Records
      /\ pcProd \in Pushing => rec \in 1..(Records + 1) /\ win \in 1..Windows(file, rec)
  BY DEF ReaderPlace
<1>w. file \in DOMAIN Files => /\ Records \in Nat \ {0}
                               /\ \A r \in Nat \ {0} : Windows(file, r) \in Nat
  BY WindowsType DEF Records
<1>1. CASE ProducerStep
  <2>1. pcProd # "done" /\ pcMain' = pcMain /\ file' = file
    BY <1>1 DEF ProducerStep, ProdStart, ProdWait, ProdAwake, ProdRead, ProdLock, ProdPush,
           ProdUnlock, ProdCount, ProdSignal, ProdFinish, fileVars
  <2>2. pcMain = "join" /\ pcMain' = "join" /\ file \in DOMAIN Files
    BY <2>1, <1>t, <1>r
  <2>3. Records' = Records /\ \A r : Windows(file, r)' = Windows(file, r)
    BY <2>1 DEF Records, Windows
  <2>q. ASSUME /\ pcProd' \in {"start", "room", "waiting"} => rec' <= Records
               /\ pcProd' \in Pushing => rec' \in 1..(Records + 1) /\ win' \in 1..Windows(file, rec')
        PROVE  ReaderPlace'
    BY <2>q, <2>1, <2>2 DEF ReaderPlace, Records, Windows
  <2>4. CASE ProdStart \/ ProdWait \/ ProdAwake
    BY <2>4, <2>2, <2>q, <1>r DEF ProdStart, ProdWait, ProdAwake, fileVars, Pushing
  <2>5. CASE ProdRead
    <3>1. rec <= Records /\ Records \in Nat \ {0} /\ rec + 1 \in Nat \ {0}
          /\ Windows(file, rec + 1) \in Nat
      BY <2>5, <2>2, <1>r, <1>t, <1>w DEF ProdRead
    <3>2. CASE Windows(file, rec + 1) = 0
      <4>1. pcProd' = "start" /\ rec' = IF rec < Records THEN rec + 1 ELSE rec
        BY <2>5, <3>2 DEF ProdRead
      <4>2. rec' <= Records
        BY <4>1, <3>1, <1>t
      <4> QED BY <4>1, <4>2, <2>q DEF Pushing
    <3>3. CASE Windows(file, rec + 1) # 0
      <4>1. pcProd' = "lock" /\ rec' = rec + 1 /\ win' = 1
        BY <2>5, <3>3 DEF ProdRead
      <4>2. rec' \in 1..(Records + 1) /\ win' \in 1..Windows(file, rec')
        BY <4>1, <3>1, <3>3, <1>t
      <4> QED BY <4>1, <4>2, <2>q
    <3> QED BY <3>2, <3>3
  <2>6. CASE ProdLock \/ ProdPush \/ ProdUnlock \/ ProdCount
    BY <2>6, <2>2, <2>q, <1>r
       DEF ProdLock, ProdPush, ProdUnlock, ProdCount, fileVars, Pushing
  <2>7. CASE ProdSignal
    <3>1. rec' = rec /\ rec \in 1..(Records + 1) /\ win \in 1..Windows(file, rec)
          /\ Records \in Nat /\ Windows(file, rec) \in Nat
      BY <2>7, <2>2, <1>r, <1>w DEF ProdSignal, Pushing
    <3>2. CASE win < Windows(file, rec)
      <4>1. win' = win + 1 /\ pcProd' = "lock"
        BY <2>7, <3>2 DEF ProdSignal
      <4> QED BY <4>1, <3>1, <3>2, <2>q, <1>t
    <3>3. CASE ~(win < Windows(file, rec))
      <4>1. pcProd' \in (IF rec > Records THEN {} ELSE {"start"})
                          \cup (IF rec >= Records THEN {"finish"} ELSE {})
        BY <2>7, <3>3 DEF ProdSignal
      <4>2. pcProd' \in {"start", "finish"} /\ (pcProd' = "start" => rec <= Records)
        BY <4>1, <3>1
      <4> QED BY <4>2, <3>1, <2>q DEF Pushing
    <3> QED BY <3>2, <3>3
  <2>8. CASE ProdFinish
    BY <2>8, <2>q DEF ProdFinish, Pushing
  <2> QED BY <1>1, <2>4, <2>5, <2>6, <2>7, <2>8 DEF ProducerStep
<1>2. CASE MainOpen
  <2>1. /\ pcMain = "open" /\ pcMain' = "join" /\ pcProd' = "start" /\ rec = 0
        /\ file <= Len(Files) /\ file' = file /\ rec' = rec
    BY <1>2, <1>r DEF MainOpen, fileVars
  <2>2. file \in DOMAIN Files
    BY <2>1, <1>t, FilesAssumption
  <2>3. rec' <= Records'
    BY <2>1, <2>2, <1>w DEF Records
  <2> QED BY <2>1, <2>2, <2>3 DEF ReaderPlace, Pushing
<1>3. CASE MainJoin
  BY <1>3 DEF MainJoin, ReaderPlace, Pushing
<1> QED BY <1>1, <1>2, <1>3

\* Windows are pushed in order: what is pushed next has not been pushed.
LEMMA PushedBeforeStep ==
  ASSUME ThreadType, ReaderPlace, PushedBefore, pcMain # "killed",
         ProducerStep \/ MainOpen \/ MainJoin
  PROVE  PushedBefore'
<1>t. /\ file \in Nat \ {0} /\ rec \in Nat /\ win \in Nat /\ pushed \in SUBSET Entry
      /\ pcMain \in {"open", "join", "killed"}
  BY DEF ThreadType
<1>e. \A e \in pushed : e[1] \in Nat /\ e[2] \in Nat /\ e[3] \in Nat
  BY <1>t, EntryIs
<1>b. \A e \in pushed :
        /\ e[1] < file \/ (pcMain # "open" /\ e[1] = file /\ e[2] <= rec)
        /\ e[1] = file /\ e[2] = rec /\ pcProd \in Pushing =>
             IF pcProd \in {"lock", "push"} THEN e[3] < win ELSE e[3] <= win
  BY DEF PushedBefore
<1>1. CASE ProducerStep
  <2>1. pcProd # "done" /\ pcMain' = pcMain /\ file' = file
    BY <1>1 DEF ProducerStep, ProdStart, ProdWait, ProdAwake, ProdRead, ProdLock, ProdPush,
           ProdUnlock, ProdCount, ProdSignal, ProdFinish, fileVars
  <2>2. pcMain # "open"
    BY <2>1 DEF ReaderPlace
  <2>3. CASE ProdStart \/ ProdWait \/ ProdAwake \/ ProdLock \/ ProdUnlock \/ ProdCount \/ ProdFinish
    <3>1. pushed' = pushed /\ rec' = rec /\ win' = win
      BY <2>3 DEF ProdStart, ProdWait, ProdAwake, ProdLock, ProdUnlock, ProdCount, ProdFinish,
             fileVars, queueVars
    <3>2. \/ pcProd' \notin Pushing
          \/ pcProd = "lock" /\ pcProd' = "push"
          \/ pcProd \in {"unlock", "count"} /\ pcProd' \in {"count", "signal"}
      BY <2>3 DEF ProdStart, ProdWait, ProdAwake, ProdLock, ProdUnlock, ProdCount, ProdFinish,
             Pushing
    <3> QED BY <3>1, <3>2, <2>1, <2>2, <1>b DEF PushedBefore, Pushing
  <2>4. CASE ProdRead
    <3>1. pushed' = pushed /\ (rec' = rec + 1 \/ (rec' = rec /\ pcProd' = "start"))
      <4>1. CASE Windows(file, rec + 1) = 0
        <5>1. pcProd' = "start" /\ rec' = IF rec < Records THEN rec + 1 ELSE rec
          BY <2>4, <4>1 DEF ProdRead
        <5> QED BY <5>1, <2>4 DEF ProdRead, queueVars
      <4>2. CASE Windows(file, rec + 1) # 0
        <5>1. rec' = rec + 1
          BY <2>4, <4>2 DEF ProdRead
        <5>2. pushed' = pushed
          BY <2>4 DEF ProdRead, queueVars
        <5> QED BY <5>1, <5>2
      <4> QED BY <4>1, <4>2
    <3>2. pcProd \notin Pushing /\ pcProd' \in {"start", "lock"}
      BY <2>4 DEF ProdRead, Pushing
    <3>3. ASSUME NEW e \in pushed
          PROVE  /\ e[1] < file \/ (e[1] = file /\ e[2] <= rec')
                 /\ e[1] = file /\ e[2] = rec' => pcProd' = "start"
      BY <3>1, <3>2, <1>b, <1>e, <1>t
    <3> QED BY <3>1, <3>2, <3>3, <2>1, <2>2 DEF PushedBefore, Pushing
  <2>5. CASE ProdPush
    <3>1. /\ pushed' = pushed \cup {<<file, rec, win>>} /\ rec' = rec /\ win' = win
          /\ pcProd = "push" /\ pcProd' = "unlock"
      BY <2>5 DEF ProdPush, fileVars
    <3>2. ASSUME NEW e \in pushed'
          PROVE  /\ e[1] < file \/ (e[1] = file /\ e[2] <= rec)
                 /\ e[1] = file /\ e[2] = rec => e[3] <= win
      <4>1. CASE e \in pushed
        BY <4>1, <3>1, <1>b, <1>e, <1>t DEF Pushing
      <4>2. CASE e = <<file, rec, win>>
        BY <4>2, <1>t
      <4> QED BY <4>1, <4>2, <3>1
    <3> QED BY <3>1, <3>2, <2>1, <2>2 DEF PushedBefore, Pushing
  <2>6. CASE ProdSignal
    <3>1. pushed' = pushed /\ rec' = rec /\ pcProd = "signal"
          /\ ((win' = win + 1 /\ pcProd' = "lock") \/ pcProd' \notin Pushing)
      BY <2>6 DEF ProdSignal, queueVars, Pushing
    <3>2. ASSUME NEW e \in pushed
          PROVE  /\ e[1] < file \/ (e[1] = file /\ e[2] <= rec)
                 /\ e[1] = file /\ e[2] = rec => e[3] < win + 1
      BY <3>1, <2>2, <1>b, <1>e, <1>t DEF Pushing
    <3> QED BY <3>1, <3>2, <2>1, <2>2 DEF PushedBefore, Pushing
  <2> QED BY <1>1, <2>3, <2>4, <2>5, <2>6 DEF ProducerStep
<1>2. CASE MainOpen
  <2>1. pcMain = "open" /\ file' = file /\ pushed' = pushed
    BY <1>2 DEF MainOpen, fileVars
  <2>2. \A e \in pushed : e[1] < file
    BY <2>1, <1>b
  <2> QED BY <2>1, <2>2, <1>e, <1>t DEF PushedBefore
<1>3. CASE MainJoin
  <2>1. file' = file + 1 /\ pushed' = pushed
    BY <1>3 DEF MainJoin, queueVars
  <2>2. \A e \in pushed : e[1] < file + 1
    BY <1>b, <1>e, <1>t
  <2> QED BY <2>1, <2>2, <1>e, <1>t DEF PushedBefore
<1> QED BY <1>1, <1>2, <1>3

-----------------------------------------------------------------------------
(* Types of the threads, and what consumers have in hand.                  *)

Points ==
  {"test", "complete", "zero", "while", "wait", "waiting", "awake", "lock", "pop", "unlock",
   "count", "retnval", "lookup", "done"}

\* A consumer works only while main waits for it, and leaves the producer, the
\* file and what has been pushed alone; its own control point is all it moves.
LEMMA ConsumerEffect ==
  ASSUME ThreadType, ReaderPlace, pcMain # "killed", NEW c \in Consumers, ConsumerStep(c)
  PROVE  /\ pcMain = "join" /\ pcMain' \in {"join", "killed"}
         /\ pcProd' = pcProd /\ file' = file /\ rec' = rec /\ win' = win
         /\ pushed' = pushed /\ abandoned' = abandoned
         /\ pcCons' \in [Consumers -> Points]
         /\ \A d \in Consumers \ {c} : pcCons'[d] = pcCons[d]
<1>t. pcCons \in [Consumers -> Points] /\ pcMain \in {"open", "join", "killed"}
  BY DEF ThreadType, Points
<1>s. \A pc \in Points : SetCons(c, pc) => /\ pcCons' \in [Consumers -> Points]
                                           /\ \A d \in Consumers \ {c} : pcCons'[d] = pcCons[d]
  BY <1>t DEF SetCons
<1>1. pcCons[c] # "done"
  BY DEF ConsumerStep, ConsTest, ConsTestBoth, ConsWhile, ConsWait, ConsAwake, ConsLock, ConsPop,
         ConsUnlock, ConsCount, ConsLookup, ConsInLookup, ConsSum, SpuriousCons, Crash
<1>2. pcMain = "join"
  BY <1>1, <1>t DEF ReaderPlace
<1>3. pcMain' = pcMain \/ pcMain' = "killed"
  BY DEF ConsumerStep, ConsTest, ConsTestBoth, ConsWhile, ConsWait, ConsAwake, ConsLock, ConsPop,
         ConsUnlock, ConsCount, ConsLookup, ConsInLookup, ConsSum, SpuriousCons, Crash, ConsGoes,
         threadVars
<1>4. pcProd' = pcProd /\ file' = file /\ rec' = rec /\ win' = win
      /\ pushed' = pushed /\ abandoned' = abandoned
  BY DEF ConsumerStep, ConsTest, ConsTestBoth, ConsWhile, ConsWait, ConsAwake, ConsLock, ConsPop,
         ConsUnlock, ConsCount, ConsLookup, ConsInLookup, ConsSum, SpuriousCons, Crash, ConsGoes,
         threadVars, fileVars, queueVars
<1>5. pcCons' = pcCons \/ \E pc \in Points : SetCons(c, pc)
  <2>1. CASE ConsTest(c)
    BY <2>1 DEF ConsTest, ConsGoes, Points
  <2>2. CASE ConsTestBoth(c) \/ ConsWhile(c)
    BY <2>2 DEF ConsTestBoth, ConsWhile, ConsGoes, Points
  <2>3. CASE ConsWait(c) \/ ConsAwake(c) \/ ConsLock(c) \/ ConsPop(c) \/ ConsUnlock(c)
    BY <2>3 DEF ConsWait, ConsAwake, ConsLock, ConsPop, ConsUnlock, Points
  <2>4. CASE ConsCount(c) \/ ConsSum(c) \/ SpuriousCons(c)
    BY <2>4 DEF ConsCount, ConsSum, SpuriousCons, ConsGoes, Points
  <2>5. CASE ConsLookup(c)
    BY <2>5 DEF ConsLookup, Points
  <2>6. CASE ConsInLookup(c) \/ Crash(c)
    BY <2>6 DEF ConsInLookup, Crash, threadVars
  <2> QED BY <2>1, <2>2, <2>3, <2>4, <2>5, <2>6 DEF ConsumerStep
<1>6. /\ pcCons' \in [Consumers -> Points]
      /\ \A d \in Consumers \ {c} : pcCons'[d] = pcCons[d]
  BY <1>5, <1>s, <1>t
<1> QED BY <1>2, <1>3, <1>4, <1>6

\* A consumer wakes nobody but itself; a signal wakes one that sleeps.
LEMMA SignalWakes ==
  ASSUME ThreadType, SignalFill
  PROVE  /\ pcCons' \in [Consumers -> Points]
         /\ \A d \in Consumers :
              pcCons'[d] = pcCons[d] \/ (pcCons[d] = "waiting" /\ pcCons'[d] = "awake")
<1>t. pcCons \in [Consumers -> Points]
  BY DEF ThreadType, Points
<1>1. CASE pcCons' = pcCons
  BY <1>1, <1>t
<1>2. CASE \E c \in {d \in Consumers : pcCons[d] = "waiting"} : SetCons(c, "awake")
  BY <1>2, <1>t DEF SetCons, Points
<1> QED BY <1>1, <1>2 DEF SignalFill

\* What a pop does to the queue and to the consumer's packet.
LEMMA PopEffect ==
  ASSUME ThreadType, NEW c \in Consumers, queue_pop(c)
  PROVE  /\ buffer' \in Seq(Entry) /\ packet' \in [Consumers -> Entry \cup {NoPacket}]
         /\ \A d \in Consumers \ {c} : packet'[d] = packet[d]
         /\ buffer = <<>> => buffer' = <<>> /\ packet'[c] = NoPacket
         /\ buffer # <<>> => /\ packet'[c] = buffer[1] /\ buffer[1] \in Entry
                             /\ Len(buffer') = Len(buffer) - 1
                             /\ \A i \in DOMAIN buffer' : i + 1 \in DOMAIN buffer
                                                          /\ buffer'[i] = buffer[i + 1]
                             /\ 1 \in DOMAIN buffer
                             /\ \A i \in DOMAIN buffer : i = 1 \/ i - 1 \in DOMAIN buffer'
<1>t. buffer \in Seq(Entry) /\ packet \in [Consumers -> Entry \cup {NoPacket}]
  BY DEF ThreadType
<1>1. CASE buffer = <<>>
  BY <1>1, <1>t DEF queue_pop
<1>2. CASE buffer # <<>>
  <2>1. buffer' = Tail(buffer) /\ packet' = [packet EXCEPT ![c] = Head(buffer)]
    BY <1>2 DEF queue_pop
  <2>2. /\ Tail(buffer) \in Seq(Entry) /\ Head(buffer) = buffer[1] /\ Head(buffer) \in Entry
        /\ Len(Tail(buffer)) = Len(buffer) - 1 /\ Len(buffer) \in Nat \ {0}
        /\ DOMAIN buffer = 1..Len(buffer) /\ DOMAIN Tail(buffer) = 1..(Len(buffer) - 1)
    BY <1>2, <1>t
  <2>3. \A i \in 1..(Len(buffer) - 1) : Tail(buffer)[i] = buffer[i + 1]
    BY <1>2, <1>t
  <2>4. packet' \in [Consumers -> Entry \cup {NoPacket}] /\ packet'[c] = buffer[1]
        /\ \A d \in Consumers \ {c} : packet'[d] = packet[d]
    BY <2>1, <2>2, <1>t
  <2>5. /\ \A i \in DOMAIN buffer' : i + 1 \in DOMAIN buffer /\ buffer'[i] = buffer[i + 1]
        /\ 1 \in DOMAIN buffer
        /\ \A i \in DOMAIN buffer : i = 1 \/ i - 1 \in DOMAIN buffer'
    BY <2>1, <2>2, <2>3
  <2> QED BY <1>2, <2>1, <2>2, <2>4, <2>5
<1> QED BY <1>1, <1>2

\* The items of a sequence are finitely many; as many as it is long if none is
\* there twice.
LEMMA ItemsOfSequence ==
  ASSUME NEW S, NEW s \in Seq(S)
  PROVE  LET items == {s[i] : i \in DOMAIN s}
         IN  /\ items \in SUBSET S
             /\ IsFiniteSet(items)
             /\ (\A i, j \in DOMAIN s : s[i] = s[j] => i = j) => Cardinality(items) = Len(s)
<1> DEFINE items == {s[i] : i \in DOMAIN s}
<1>1. DOMAIN s = 1..Len(s) /\ Len(s) \in Nat /\ items \in SUBSET S
  OBVIOUS
<1>2. IsFiniteSet(DOMAIN s) /\ Cardinality(DOMAIN s) = Len(s)
  BY <1>1, FS_Interval
<1>3. s \in [DOMAIN s -> items]
  OBVIOUS
<1>4. \A y \in items : \E i \in DOMAIN s : s[i] = y
  OBVIOUS
<1>5. s \in Surjection(DOMAIN s, items)
  <2> HIDE DEF items
  <2> QED BY <1>3, <1>4, Fun_IsSurj
<1>6. IsFiniteSet(items) /\ (Cardinality(items) = Cardinality(DOMAIN s) <=> s \in Injection(DOMAIN s, items))
  <2> HIDE DEF items
  <2> QED BY <1>2, <1>5, FS_Surjection
<1>7. ASSUME \A i, j \in DOMAIN s : s[i] = s[j] => i = j
      PROVE  s \in Injection(DOMAIN s, items)
  <2> HIDE DEF items
  <2> QED BY <1>3, <1>7, Fun_IsInj
<1> QED BY <1>1, <1>2, <1>6, <1>7

\* Types are kept.
LEMMA ThreadTypeStep ==
  ASSUME ThreadType, ReaderPlace, Next
  PROVE  ThreadType'
<1>t. /\ pcMain \in {"open", "join", "killed"}
      /\ pcProd \in {"start", "room", "waiting", "lock", "push", "unlock", "count", "signal",
                     "finish", "done"}
      /\ pcCons \in [Consumers -> Points]
      /\ count \in Int /\ failed \in Int
      /\ buffer \in Seq(Entry)
      /\ packet \in [Consumers -> Entry \cup {NoPacket}]
      /\ file \in Nat \ {0} /\ rec \in Nat /\ win \in Nat
      /\ pushed \in SUBSET Entry /\ processed \in SUBSET Entry /\ abandoned \in SUBSET Entry
      /\ IsFiniteSet(pushed) /\ IsFiniteSet(processed) /\ IsFiniteSet(abandoned)
  BY DEF ThreadType, Points
<1>n. pcMain # "killed"
  BY DEF Next
<1>1. CASE ProdStart \/ ProdWait \/ ProdAwake \/ ProdLock \/ ProdUnlock \/ ProdFinish
  BY <1>1, <1>t DEF ProdStart, ProdWait, ProdAwake, ProdLock, ProdUnlock, ProdFinish,
       countVars, fileVars, queueVars, ThreadType, Points
<1>2. CASE ProdRead
  <2>1. rec' \in Nat /\ pcProd' \in {"start", "lock"}
    <3>1. CASE Windows(file, rec + 1) = 0
      <4>1. pcProd' = "start" /\ rec' = IF rec < Records THEN rec + 1 ELSE rec
        BY <1>2, <3>1 DEF ProdRead
      <4> QED BY <4>1, <1>t
    <3>2. CASE Windows(file, rec + 1) # 0
      <4>1. pcProd' = "lock" /\ rec' = rec + 1
        BY <1>2, <3>2 DEF ProdRead
      <4> QED BY <4>1, <1>t
    <3> QED BY <3>1, <3>2
  <2> QED BY <2>1, <1>2, <1>t DEF ProdRead, countVars, queueVars, ThreadType, Points
<1>3. CASE ProdPush
  <2>1. <<file, rec, win>> \in Entry
    BY <1>3, EntryInProgress DEF ProdPush, Pushing
  <2>2. buffer' \in Seq(Entry) /\ pushed' \in SUBSET Entry
    BY <2>1, <1>3, <1>t DEF ProdPush
  <2>3. IsFiniteSet(pushed')
    BY <1>3, <1>t, FS_AddElement DEF ProdPush
  <2> QED BY <2>2, <2>3, <1>3, <1>t DEF ProdPush, countVars, fileVars, ThreadType, Points
<1>4. CASE ProdCount
  BY <1>4, <1>t DEF ProdCount, fileVars, queueVars, ThreadType, Points
<1>5. CASE ProdSignal
  <2>1. pcCons' \in [Consumers -> Points]
    BY <1>5, SignalWakes DEF ProdSignal
  <2>2. win' \in Nat /\ pcProd' \in {"lock", "start", "finish"}
    <3>1. CASE win < Windows(file, rec)
      BY <3>1, <1>5, <1>t DEF ProdSignal
    <3>2. CASE ~(win < Windows(file, rec))
      BY <3>2, <1>5, <1>t DEF ProdSignal
    <3> QED BY <3>1, <3>2
  <2> QED BY <2>1, <2>2, <1>5, <1>t DEF ProdSignal, countVars, queueVars, ThreadType, Points
<1>6. CASE MainOpen
  <2>1. failed' \in Int
    BY <1>6, <1>t DEF MainOpen
  <2>2. {buffer[i] : i \in DOMAIN buffer} \in SUBSET Entry
        /\ IsFiniteSet({buffer[i] : i \in DOMAIN buffer})
    BY <1>t, ItemsOfSequence
  <2>3. abandoned' \in SUBSET Entry /\ IsFiniteSet(abandoned')
    BY <2>2, <1>6, <1>t, FS_Union DEF MainOpen
  <2>4. buffer' \in Seq(Entry) /\ pcCons' \in [Consumers -> Points]
    BY <1>6 DEF MainOpen, Points
  <2> QED BY <2>1, <2>3, <2>4, <1>6, <1>t DEF MainOpen, fileVars, ThreadType, Points
<1>7. CASE MainJoin
  BY <1>7, <1>t DEF MainJoin, countVars, queueVars, ThreadType, Points
<1>8. ASSUME NEW c \in Consumers, ConsumerStep(c)
      PROVE  ThreadType'
  <2>e. /\ pcMain' \in {"join", "killed"} /\ pcCons' \in [Consumers -> Points]
        /\ pcProd' = pcProd /\ file' = file /\ rec' = rec /\ win' = win
        /\ pushed' = pushed /\ abandoned' = abandoned
    BY <1>8, <1>n, ConsumerEffect
  <2>1. CASE ConsPop(c)
    <3>1. buffer' \in Seq(Entry) /\ packet' \in [Consumers -> Entry \cup {NoPacket}]
      BY <2>1, PopEffect DEF ConsPop
    <3> QED BY <3>1, <2>1, <2>e, <1>t DEF ConsPop, countVars, ThreadType, Points
  <2>2. CASE ConsCount(c)
    <3>1. count' \in Int /\ failed' \in Int
      BY <2>2, <1>t DEF ConsCount
    <3> QED BY <3>1, <2>2, <2>e, <1>t DEF ConsCount, queueVars, ThreadType, Points
  <2>3. CASE ConsSum(c)
    <3>1. processed' \in SUBSET Entry /\ IsFiniteSet(processed')
      <4>1. {packet[c]} \ {NoPacket} \in SUBSET Entry /\ IsFiniteSet({packet[c]} \ {NoPacket})
        <5>1. packet[c] \in Entry \cup {NoPacket}
          BY <1>t
        <5>2. IsFiniteSet({packet[c]})
          BY FS_Singleton
        <5>3. IsFiniteSet({packet[c]} \ {NoPacket})
          BY <5>2, FS_RemoveElement, Zenon
        <5> QED BY <5>1, <5>3
      <4> QED BY <4>1, <2>3, <1>t, FS_Union DEF ConsSum
    <3>2. packet' \in [Consumers -> Entry \cup {NoPacket}]
      BY <2>3, <1>t DEF ConsSum
    <3> QED BY <3>1, <3>2, <2>3, <2>e, <1>t DEF ConsSum, countVars, ThreadType, Points
  <2>4. CASE ~(ConsPop(c) \/ ConsCount(c) \/ ConsSum(c))
    <3>1. UNCHANGED <<count, failed, buffer, packet, processed>>
      BY <2>4, <1>8 DEF ConsumerStep, ConsTest, ConsTestBoth, ConsWhile, ConsWait, ConsAwake,
           ConsLock, ConsUnlock, ConsLookup, ConsInLookup, SpuriousCons, Crash, ConsGoes,
           countVars, queueVars
    <3> QED BY <3>1, <2>e, <1>t DEF ThreadType, Points
  <2> QED BY <2>1, <2>2, <2>3, <2>4
<1> QED BY <1>1, <1>2, <1>3, <1>4, <1>5, <1>6, <1>7, <1>8 DEF Next, ProducerStep

\* A consumer has a packet only between its pop and the end of its lookup.
LEMMA NothingLeftOverStep ==
  ASSUME ThreadType, ReaderPlace, NothingLeftOver, Next
  PROVE  NothingLeftOver'
<1>t. pcCons \in [Consumers -> Points] /\ packet \in [Consumers -> Entry \cup {NoPacket}]
  BY DEF ThreadType, Points
<1>h. \A d \in Consumers : pcCons[d] \notin InHand => packet[d] = NoPacket
  BY DEF NothingLeftOver
<1>n. pcMain # "killed"
  BY DEF Next
<1>1. CASE ProducerStep \/ MainJoin
  <2>1. packet' = packet
    BY <1>1 DEF ProducerStep, ProdStart, ProdWait, ProdAwake, ProdRead, ProdLock, ProdPush,
           ProdUnlock, ProdCount, ProdSignal, ProdFinish, MainJoin, queueVars
  <2>2. \A d \in Consumers : pcCons'[d] = pcCons[d] \/ (pcCons[d] = "waiting" /\ pcCons'[d] = "awake")
    BY <1>1, SignalWakes DEF ProducerStep, ProdStart, ProdWait, ProdAwake, ProdRead, ProdLock,
           ProdPush, ProdUnlock, ProdCount, ProdSignal, ProdFinish, MainJoin
  <2> QED BY <2>1, <2>2, <1>h DEF NothingLeftOver, InHand
<1>2. CASE MainOpen
  <2>1. packet' = packet /\ \A d \in Consumers : pcCons[d] = "done"
    BY <1>2 DEF MainOpen, ReaderPlace
  <2> QED BY <2>1, <1>h DEF NothingLeftOver, InHand
<1>3. ASSUME NEW c \in Consumers, ConsumerStep(c)
      PROVE  NothingLeftOver'
  <2>e. \A d \in Consumers \ {c} : pcCons'[d] = pcCons[d]
    BY <1>3, <1>n, ConsumerEffect
  <2>s. \A pc : SetCons(c, pc) => pcCons'[c] = pc
    BY <1>t DEF SetCons
  <2>1. CASE ConsPop(c)
    <3>1. pcCons'[c] = "unlock" /\ \A d \in Consumers \ {c} : packet'[d] = packet[d]
      BY <2>1, <2>s, PopEffect DEF ConsPop
    <3> QED BY <3>1, <2>e, <1>h DEF NothingLeftOver, InHand
  <2>2. CASE ConsSum(c)
    <3>1. packet'[c] = NoPacket /\ \A d \in Consumers \ {c} : packet'[d] = packet[d]
      BY <2>2, <1>t DEF ConsSum
    <3> QED BY <3>1, <2>e, <1>h DEF NothingLeftOver
  <2>3. CASE ConsLookup(c)
    <3>1. packet' = packet
      BY <2>3 DEF ConsLookup, queueVars
    <3>2. packet[c] = NoPacket \/ pcCons'[c] = "lookup"
      BY <2>3, <2>s DEF ConsLookup
    <3> QED BY <3>1, <3>2, <2>e, <1>h DEF NothingLeftOver, InHand
  <2>4. CASE ConsUnlock(c) \/ ConsCount(c)
    <3>1. packet' = packet /\ pcCons'[c] \in InHand
      BY <2>4, <2>s DEF ConsUnlock, ConsCount, queueVars, InHand
    <3> QED BY <3>1, <2>e, <1>h DEF NothingLeftOver
  <2>5. CASE ConsInLookup(c) \/ Crash(c)
    BY <2>5, <1>h DEF ConsInLookup, Crash, threadVars, queueVars, NothingLeftOver
  <2>6. CASE ConsTest(c) \/ ConsTestBoth(c) \/ ConsWhile(c) \/ ConsWait(c) \/ ConsAwake(c)
               \/ ConsLock(c) \/ SpuriousCons(c)
    <3>1. packet' = packet /\ pcCons[c] \notin InHand
      BY <2>6 DEF ConsTest, ConsTestBoth, ConsWhile, ConsWait, ConsAwake, ConsLock, SpuriousCons,
             ConsGoes, queueVars, InHand
    <3> QED BY <3>1, <2>e, <1>h DEF NothingLeftOver
  <2> QED BY <1>3, <2>1, <2>2, <2>3, <2>4, <2>5, <2>6 DEF ConsumerStep
<1> QED BY <1>1, <1>2, <1>3 DEF Next

-----------------------------------------------------------------------------
(* Every window pushed is in one place.                                    *)

Queued == {buffer[i] : i \in DOMAIN buffer}
Holders == {c \in Consumers : packet[c] # NoPacket}

\* Windows keep to one place, whoever frees whose mutex: queue_push and
\* queue_pop have locks of their own.
LEMMA DeliveryStep ==
  ASSUME ThreadType, ReaderPlace, PushedBefore, NothingLeftOver, OnePlace, Delivery, Next
  PROVE  OnePlace' /\ Delivery'
<1>t. /\ buffer \in Seq(Entry) /\ packet \in [Consumers -> Entry \cup {NoPacket}]
      /\ pushed \in SUBSET Entry /\ processed \in SUBSET Entry /\ abandoned \in SUBSET Entry
      /\ IsFiniteSet(pushed) /\ IsFiniteSet(processed) /\ IsFiniteSet(abandoned)
  BY DEF ThreadType
<1>l. DOMAIN buffer = 1..Len(buffer) /\ Len(buffer) \in Nat
  BY <1>t
<1>o. /\ \A i, j \in DOMAIN buffer : buffer[i] = buffer[j] => i = j
      /\ \A c, d \in Consumers : packet[c] = packet[d] /\ packet[c] # NoPacket => c = d
      /\ \A i \in DOMAIN buffer : /\ \A c \in Consumers : buffer[i] # packet[c]
                                  /\ buffer[i] \notin processed \cup abandoned
      /\ \A c \in Consumers : packet[c] \notin processed \cup abandoned
      /\ processed \cap abandoned = {}
  BY DEF OnePlace
<1>d. /\ Queued \cup Held \cup processed \cup abandoned = pushed
      /\ Len(buffer) + Cardinality(Holders) + Cardinality(processed)
           + Cardinality(abandoned) = Cardinality(pushed)
  BY DEF Delivery, Queued, Holders
<1>f. /\ IsFiniteSet(Holders) /\ Cardinality(Holders) \in Nat /\ Cardinality(processed) \in Nat
      /\ Cardinality(abandoned) \in Nat /\ Cardinality(pushed) \in Nat
  <2>1. Holders \in SUBSET Consumers
    BY DEF Holders
  <2> QED BY <2>1, <1>t, SomeConsumers, FS_CardinalityType
<1>x. NoPacket \notin Entry
  BY ContentAssumption
<1>n. pcMain # "killed"
  BY DEF Next
<1>q. ASSUME UNCHANGED <<buffer, packet, pushed, processed, abandoned>>
      PROVE  OnePlace' /\ Delivery'
  <2>1. OnePlace'
    BY <1>q DEF OnePlace
  <2>2. Delivery'
    BY <1>q DEF Delivery, Held
  <2> QED BY <2>1, <2>2
<1>g. ASSUME /\ Queued' \cup Held' \cup processed' \cup abandoned' = pushed'
             /\ Len(buffer') + Cardinality(Holders') + Cardinality(processed')
                  + Cardinality(abandoned') = Cardinality(pushed')
      PROVE  Delivery'
  BY <1>g DEF Delivery, Queued, Holders
<1>1. CASE ProdPush
  <2> DEFINE e == <<file, rec, win>>
  <2>1. /\ buffer' = Append(buffer, e) /\ pushed' = pushed \cup {e} /\ packet' = packet
        /\ processed' = processed /\ abandoned' = abandoned /\ pcProd = "push"
    BY <1>1 DEF ProdPush
  <2>2. e \in Entry
    BY <2>1, EntryInProgress DEF Pushing
  <2>3. e \notin pushed
    <3>1. ~(win < win)
      BY DEF ThreadType
    <3>2. e[1] = file /\ e[2] = rec /\ e[3] = win
      OBVIOUS
    <3> HIDE DEF e
    <3> QED BY <2>1, <3>1, <3>2 DEF PushedBefore, Pushing
  <2> HIDE DEF e
  <2>4. /\ DOMAIN buffer' = 1..(Len(buffer) + 1) /\ Len(buffer') = Len(buffer) + 1
        /\ \A i \in DOMAIN buffer : buffer'[i] = buffer[i] /\ i \in DOMAIN buffer'
        /\ buffer'[Len(buffer) + 1] = e
    BY <2>1, <2>2, <1>t
  <2>5. \A i \in DOMAIN buffer' : i \in DOMAIN buffer \/ i = Len(buffer) + 1
    BY <2>4, <1>l
  <2>6. \A i \in DOMAIN buffer : buffer[i] # e
    BY <2>3, <1>d DEF Queued
  <2>7. \A c \in Consumers : packet[c] # e
    BY <2>2, <2>3, <1>d, <1>x DEF Held
  <2>8. OnePlace'
    <3>1. \A i, j \in DOMAIN buffer' : buffer'[i] = buffer'[j] => i = j
      BY <2>4, <2>5, <2>6, <1>o
    <3>2. \A i \in DOMAIN buffer' : /\ \A c \in Consumers : buffer'[i] # packet[c]
                                    /\ buffer'[i] \notin processed \cup abandoned
      BY <2>3, <2>4, <2>5, <2>7, <1>o, <1>d
    <3> QED BY <3>1, <3>2, <2>1, <1>o DEF OnePlace
  <2>9. Queued' = Queued \cup {e}
    <3>1. Len(buffer) + 1 \in DOMAIN buffer'
      BY <2>4, <1>l
    <3> QED BY <2>4, <2>5, <3>1 DEF Queued
  <2>10. Held' = Held /\ Holders' = Holders
    BY <2>1 DEF Held, Holders
  <2>11. Queued' \cup Held' \cup processed' \cup abandoned' = pushed'
    BY <2>1, <2>9, <2>10, <1>d
  <2>12. Cardinality(pushed \cup {e}) = Cardinality(pushed) + 1
    BY <2>3, <1>t, FS_AddElement
  <2>13. Cardinality(pushed') = Cardinality(pushed) + 1 /\ Cardinality(Holders') = Cardinality(Holders)
    BY <2>1, <2>10, <2>12
  <2>14. Len(buffer') + Cardinality(Holders') + Cardinality(processed')
           + Cardinality(abandoned') = Cardinality(pushed')
    BY <2>1, <2>4, <2>13, <1>d, <1>f, <1>l
  <2> QED BY <2>8, <2>11, <2>14, <1>g
<1>2. CASE MainOpen
  <2>1. /\ buffer' = <<>> /\ abandoned' = abandoned \cup Queued /\ packet' = packet
        /\ pushed' = pushed /\ processed' = processed /\ pcMain = "open"
    BY <1>2 DEF MainOpen, Queued
  <2>2. \A c \in Consumers : packet[c] = NoPacket
    BY <2>1 DEF ReaderPlace, NothingLeftOver, InHand
  <2>3. IsFiniteSet(Queued) /\ Cardinality(Queued) = Len(buffer) /\ Queued \in SUBSET Entry
    <3>1. Queued \in SUBSET Entry /\ IsFiniteSet(Queued)
      BY <1>t, ItemsOfSequence DEF Queued
    <3>2. (\A i, j \in DOMAIN buffer : buffer[i] = buffer[j] => i = j)
            => Cardinality(Queued) = Len(buffer)
      BY <1>t, ItemsOfSequence, Zenon DEF Queued
    <3> QED BY <3>1, <3>2, <1>o
  <2>4. abandoned \cap Queued = {} /\ processed \cap Queued = {}
    BY <1>o DEF Queued
  <2>5. Cardinality(abandoned \cup Queued) = Cardinality(abandoned) + Len(buffer)
    <3>1. Cardinality(abandoned \cap Queued) = 0
      BY <2>4, FS_EmptySet
    <3>2. Cardinality(abandoned \cup Queued)
            = Cardinality(abandoned) + Cardinality(Queued) - Cardinality(abandoned \cap Queued)
      BY <2>3, <1>t, FS_Union
    <3> QED BY <3>1, <3>2, <2>3, <1>f, <1>l
  <2>6. DOMAIN buffer' = {} /\ Len(buffer') = 0 /\ Queued' = {}
    BY <2>1 DEF Queued
  <2>7. OnePlace'
    <3>1. \A c \in Consumers : packet[c] \notin abandoned \cup Queued
      BY <2>2, <2>3, <1>t, <1>x
    <3>2. processed \cap (abandoned \cup Queued) = {}
      BY <2>4, <1>o
    <3> QED BY <2>1, <2>6, <3>1, <3>2, <1>o DEF OnePlace
  <2>8. Held' = Held /\ Holders' = Holders
    BY <2>1 DEF Held, Holders
  <2>9. Queued' \cup Held' \cup processed' \cup abandoned' = pushed'
    BY <2>1, <2>6, <2>8, <1>d
  <2>10. Cardinality(abandoned') = Cardinality(abandoned) + Len(buffer)
         /\ Cardinality(Holders') = Cardinality(Holders)
    BY <2>1, <2>5, <2>8
  <2>11. Len(buffer') + Cardinality(Holders') + Cardinality(processed')
           + Cardinality(abandoned') = Cardinality(pushed')
    BY <2>1, <2>6, <2>10, <1>d, <1>f, <1>l
  <2> QED BY <2>7, <2>9, <2>11, <1>g
<1>3. ASSUME NEW c \in Consumers, ConsPop(c)
      PROVE  OnePlace' /\ Delivery'
  <2>1. /\ queue_pop(c) /\ pushed' = pushed /\ processed' = processed /\ abandoned' = abandoned
        /\ packet[c] = NoPacket
    BY <1>3 DEF ConsPop, NothingLeftOver, InHand
  <2>2. CASE buffer = <<>>
    <3>1. buffer' = buffer /\ packet' = packet
      <4>1. packet' = [packet EXCEPT ![c] = NoPacket] /\ buffer' = buffer
        BY <2>1, <2>2 DEF queue_pop
      <4> QED BY <4>1, <2>1, <1>t
    <3> QED BY <3>1, <2>1, <1>q
  <2>3. CASE buffer # <<>>
    <3> DEFINE x == buffer[1]
    <3>1. /\ packet'[c] = x /\ x \in Entry /\ Len(buffer') = Len(buffer) - 1
          /\ \A d \in Consumers \ {c} : packet'[d] = packet[d]
          /\ \A i \in DOMAIN buffer' : i + 1 \in DOMAIN buffer /\ buffer'[i] = buffer[i + 1]
          /\ 1 \in DOMAIN buffer
          /\ \A i \in DOMAIN buffer : i = 1 \/ i - 1 \in DOMAIN buffer'
          /\ buffer' \in Seq(Entry)
      BY <2>1, <2>3, PopEffect
    <3>2. DOMAIN buffer' \subseteq Nat \ {0}
      <4>1. DOMAIN buffer' = 1..Len(buffer') /\ Len(buffer') \in Nat
        BY <3>1
      <4> QED BY <4>1
    <3>3. \A i \in DOMAIN buffer' : buffer'[i] # x
      BY <3>1, <3>2, <1>o, <1>l
    <3>4. x # NoPacket /\ x \notin Held /\ x \notin processed \cup abandoned
      BY <3>1, <1>x, <1>o DEF Held
    <3>5. OnePlace'
      <4>1. \A i, j \in DOMAIN buffer' : buffer'[i] = buffer'[j] => i = j
        BY <3>1, <3>2, <1>o
      <4>2. \A a, b \in Consumers : packet'[a] = packet'[b] /\ packet'[a] # NoPacket => a = b
        <5>1. \A a \in Consumers : packet[a] # x
          BY <3>1, <1>o
        <5> QED BY <5>1, <3>1, <1>o
      <4>3. \A i \in DOMAIN buffer' : /\ \A a \in Consumers : buffer'[i] # packet'[a]
                                      /\ buffer'[i] \notin processed \cup abandoned
        <5>1. ASSUME NEW i \in DOMAIN buffer'
              PROVE  /\ \A a \in Consumers : buffer[i + 1] # packet[a]
                     /\ buffer[i + 1] \notin processed \cup abandoned
                     /\ buffer'[i] = buffer[i + 1]
          BY <3>1, <1>o
        <5> QED BY <5>1, <3>1, <3>3
      <4>4. \A a \in Consumers : packet'[a] \notin processed \cup abandoned
        BY <3>1, <3>4, <1>o
      <4> QED BY <4>1, <4>2, <4>3, <4>4, <2>1, <1>o DEF OnePlace
    <3>6. Queued = Queued' \cup {x}
      <4>1. \A y \in Queued' \cup {x} : y \in Queued
        BY <3>1 DEF Queued
      <4>2. \A i \in DOMAIN buffer : buffer[i] \in Queued' \cup {x}
        <5>1. ASSUME NEW i \in DOMAIN buffer, i # 1
              PROVE  buffer[i] = buffer'[i - 1] /\ i - 1 \in DOMAIN buffer'
          <6>1. i - 1 \in DOMAIN buffer' /\ (i - 1) + 1 = i
            BY <5>1, <3>1, <1>l
          <6> QED BY <6>1, <3>1
        <5> QED BY <5>1 DEF Queued
      <4> QED BY <4>1, <4>2 DEF Queued
    <3>7. Held' = Held \cup {x}
      BY <3>1, <3>4, <2>1 DEF Held
    <3>8. Queued' \cup Held' \cup processed' \cup abandoned' = pushed'
      BY <3>6, <3>7, <2>1, <1>d
    <3>9. Holders' = Holders \cup {c} /\ c \notin Holders
      BY <3>1, <3>4, <2>1 DEF Holders
    <3>10. Cardinality(Holders') = Cardinality(Holders) + 1
      <4>1. Cardinality(Holders \cup {c}) = Cardinality(Holders) + 1
        BY <3>9, <1>f, FS_AddElement
      <4> QED BY <4>1, <3>9
    <3>11. Len(buffer') + Cardinality(Holders') + Cardinality(processed')
             + Cardinality(abandoned') = Cardinality(pushed')
      BY <3>1, <3>10, <2>1, <1>d, <1>f, <1>l
    <3> QED BY <3>5, <3>8, <3>11, <1>g
  <2> QED BY <2>2, <2>3
<1>4. ASSUME NEW c \in Consumers, ConsSum(c)
      PROVE  OnePlace' /\ Delivery'
  <2>1. /\ processed' = processed \cup ({packet[c]} \ {NoPacket}) /\ buffer' = buffer
        /\ packet' = [packet EXCEPT ![c] = NoPacket]
        /\ pushed' = pushed /\ abandoned' = abandoned
    BY <1>4 DEF ConsSum
  <2>2. CASE packet[c] = NoPacket
    <3>1. packet' = packet
      BY <2>1, <2>2, <1>t
    <3>2. processed' = processed
      BY <2>1, <2>2
    <3> QED BY <3>1, <3>2, <2>1, <1>q
  <2>3. CASE packet[c] # NoPacket
    <3> DEFINE x == packet[c]
    <3>1. /\ x \in Entry /\ packet'[c] = NoPacket /\ processed' = processed \cup {x}
          /\ \A d \in Consumers \ {c} : packet'[d] = packet[d] /\ packet[d] # x
      BY <2>1, <2>3, <1>t, <1>o
    <3>2. x \notin processed \cup abandoned /\ \A i \in DOMAIN buffer : buffer[i] # x
      BY <1>o
    <3>3. OnePlace'
      <4>1. \A a, b \in Consumers : packet'[a] = packet'[b] /\ packet'[a] # NoPacket => a = b
        BY <3>1, <1>o
      <4>2. \A i \in DOMAIN buffer : /\ \A a \in Consumers : buffer[i] # packet'[a]
                                     /\ buffer[i] \notin processed' \cup abandoned
        <5>1. \A i \in DOMAIN buffer : buffer[i] # NoPacket
          BY <1>t, <1>x
        <5> QED BY <5>1, <3>1, <3>2, <1>o
      <4>3. \A a \in Consumers : packet'[a] \notin processed' \cup abandoned
        <5>1. NoPacket \notin processed' \cup abandoned
          BY <3>1, <1>t, <1>x
        <5> QED BY <5>1, <3>1, <1>o
      <4>4. processed' \cap abandoned = {}
        BY <3>1, <3>2, <1>o
      <4> QED BY <4>1, <4>2, <4>3, <4>4, <2>1, <1>o DEF OnePlace
    <3>4. Held = Held' \cup {x}
      BY <3>1, <2>3 DEF Held
    <3>5. Queued' = Queued
      BY <2>1 DEF Queued
    <3>6. Queued' \cup Held' \cup processed' \cup abandoned' = pushed'
      BY <3>1, <3>4, <3>5, <2>1, <1>d
    <3>7. Holders' = Holders \ {c} /\ c \in Holders
      BY <3>1, <2>3 DEF Holders
    <3>8. Cardinality(Holders') = Cardinality(Holders) - 1
      <4>1. Cardinality(Holders \ {c}) = Cardinality(Holders) - 1
        BY <3>7, <1>f, FS_RemoveElement
      <4> QED BY <4>1, <3>7
    <3>9. Cardinality(processed') = Cardinality(processed) + 1
      <4>1. Cardinality(processed \cup {x}) = Cardinality(processed) + 1
        BY <3>2, <1>t, FS_AddElement
      <4> QED BY <4>1, <3>1
    <3>10. Len(buffer') + Cardinality(Holders') + Cardinality(processed')
             + Cardinality(abandoned') = Cardinality(pushed')
      BY <3>8, <3>9, <2>1, <1>d, <1>f, <1>l
    <3> QED BY <3>3, <3>6, <3>10, <1>g
  <2> QED BY <2>2, <2>3
<1>5. ASSUME NEW c \in Consumers, ConsumerStep(c), ~ConsPop(c), ~ConsSum(c)
      PROVE  OnePlace' /\ Delivery'
  BY <1>5, <1>q DEF ConsumerStep, ConsTest, ConsTestBoth, ConsWhile, ConsWait, ConsAwake,
     ConsLock, ConsUnlock, ConsCount, ConsLookup, ConsInLookup, SpuriousCons, Crash, ConsGoes,
     queueVars
<1>6. CASE (ProducerStep /\ ~ProdPush) \/ MainJoin
  BY <1>6, <1>q DEF ProducerStep, ProdStart, ProdWait, ProdAwake, ProdRead, ProdLock,
     ProdUnlock, ProdCount, ProdSignal, ProdFinish, MainJoin, queueVars
<1> QED BY <1>1, <1>2, <1>3, <1>4, <1>5, <1>6 DEF Next, ProducerStep

-----------------------------------------------------------------------------
(* The counter.                                                            *)

\* Consumers that have taken a window and not counted it yet.
Uncounted == {c \in Consumers : pcCons[c] \in {"unlock", "count"} /\ packet[c] # NoPacket}

\* The window that has been pushed and not counted yet.
Pending == IF pcProd \in {"unlock", "count"} THEN 1 ELSE 0

\* The counter follows the queue, except for what failed and was abandoned.
LEMMA CountStep ==
  ASSUME ThreadType, ReaderPlace, NothingLeftOver, CountDrifts, Next
  PROVE  CountDrifts'
<1>t. /\ pcCons \in [Consumers -> Points] /\ count \in Int /\ failed \in Int
      /\ buffer \in Seq(Entry) /\ packet \in [Consumers -> Entry \cup {NoPacket}]
  BY DEF ThreadType, Points
<1>d. count = Len(buffer) - failed - Pending + Cardinality(Uncounted)
  BY DEF CountDrifts, Pending, Uncounted
<1>f. /\ IsFiniteSet(Uncounted) /\ Cardinality(Uncounted) \in Nat /\ Len(buffer) \in Nat
      /\ Pending \in Int
  <2>1. Uncounted \in SUBSET Consumers
    BY DEF Uncounted
  <2> QED BY <2>1, <1>t, SomeConsumers DEF Pending
<1>g. ASSUME count' = Len(buffer') - failed' - Pending' + Cardinality(Uncounted')
      PROVE  CountDrifts'
  BY <1>g DEF CountDrifts, Pending, Uncounted
<1>q. ASSUME count' = count, failed' = failed, buffer' = buffer, Pending' = Pending,
             Uncounted' = Uncounted
      PROVE  CountDrifts'
  BY <1>q, <1>d, <1>g
<1>n. pcMain # "killed"
  BY DEF Next
<1>1. CASE ProducerStep
  <2>1. packet' = packet /\ failed' = failed
    BY <1>1 DEF ProducerStep, ProdStart, ProdWait, ProdAwake, ProdRead, ProdLock, ProdPush,
           ProdUnlock, ProdCount, ProdSignal, ProdFinish, queueVars, countVars
  <2>2. \A d \in Consumers : pcCons'[d] = pcCons[d] \/ (pcCons[d] = "waiting" /\ pcCons'[d] = "awake")
    BY <1>1, SignalWakes DEF ProducerStep, ProdStart, ProdWait, ProdAwake, ProdRead, ProdLock,
           ProdPush, ProdUnlock, ProdCount, ProdSignal, ProdFinish
  <2>3. Uncounted' = Uncounted
    BY <2>1, <2>2 DEF Uncounted
  <2>4. CASE ProdPush
    <3>1. /\ buffer' = Append(buffer, <<file, rec, win>>) /\ count' = count
          /\ Pending = 0 /\ Pending' = 1
      BY <2>4 DEF ProdPush, countVars, Pending
    <3>2. <<file, rec, win>> \in Entry
      BY <2>4, EntryInProgress DEF ProdPush, Pushing
    <3>3. Len(buffer') = Len(buffer) + 1
      BY <3>1, <3>2, <1>t
    <3>4. Cardinality(Uncounted') = Cardinality(Uncounted)
      BY <2>3
    <3>5. count' = Len(buffer') - failed' - Pending' + Cardinality(Uncounted')
      BY <3>1, <3>3, <3>4, <2>1, <1>d, <1>f, <1>t
    <3> QED BY <3>5, <1>g
  <2>5. CASE ProdCount
    <3>1. count' = count + 1 /\ Pending = 1 /\ Pending' = 0 /\ buffer' = buffer
      BY <2>5 DEF ProdCount, queueVars, Pending
    <3>2. Cardinality(Uncounted') = Cardinality(Uncounted)
      BY <2>3
    <3>3. count' = Len(buffer') - failed' - Pending' + Cardinality(Uncounted')
      BY <3>1, <3>2, <2>1, <1>d, <1>f, <1>t
    <3> QED BY <3>3, <1>g
  <2>6. CASE ProdStart \/ ProdWait \/ ProdAwake \/ ProdLock \/ ProdUnlock \/ ProdFinish
    BY <2>6, <2>3, <1>q DEF ProdStart, ProdWait, ProdAwake, ProdLock, ProdUnlock, ProdFinish,
       countVars, queueVars, Pending
  <2>7. CASE ProdRead
    <3>1. pcProd' \in {"start", "lock"}
      <4>1. CASE Windows(file, rec + 1) = 0
        BY <2>7, <4>1 DEF ProdRead
      <4>2. CASE Windows(file, rec + 1) # 0
        BY <2>7, <4>2 DEF ProdRead
      <4> QED BY <4>1, <4>2
    <3> QED BY <3>1, <2>7, <2>3, <1>q DEF ProdRead, countVars, queueVars, Pending
  <2>8. CASE ProdSignal
    <3>1. pcProd' \in {"lock", "start", "finish"}
      <4>1. CASE win < Windows(file, rec)
        BY <2>8, <4>1 DEF ProdSignal
      <4>2. CASE ~(win < Windows(file, rec))
        BY <2>8, <4>2 DEF ProdSignal
      <4> QED BY <4>1, <4>2
    <3> QED BY <3>1, <2>8, <2>3, <1>q DEF ProdSignal, countVars, queueVars, Pending
  <2> QED BY <1>1, <2>4, <2>5, <2>6, <2>7, <2>8 DEF ProducerStep
<1>2. CASE MainOpen
  <2>1. /\ pcProd = "done" /\ pcProd' = "start" /\ buffer' = <<>> /\ count' = count
        /\ failed' = failed - Len(buffer)
        /\ \A c \in Consumers : pcCons[c] = "done" /\ pcCons'[c] = "test"
    BY <1>2 DEF MainOpen, ReaderPlace
  <2>2. Uncounted = {} /\ Uncounted' = {}
    BY <2>1 DEF Uncounted
  <2>3. Cardinality(Uncounted) = 0 /\ Cardinality(Uncounted') = 0
    BY <2>2, FS_EmptySet
  <2>4. Len(buffer') = 0 /\ Pending = 0 /\ Pending' = 0
    BY <2>1 DEF Pending
  <2>5. count' = Len(buffer') - failed' - Pending' + Cardinality(Uncounted')
    BY <2>1, <2>3, <2>4, <1>d, <1>f, <1>t
  <2> QED BY <2>5, <1>g
<1>3. CASE MainJoin
  <2>1. Uncounted' = Uncounted /\ Pending' = Pending
    BY <1>3 DEF MainJoin, queueVars, Uncounted, Pending
  <2> QED BY <1>3, <2>1, <1>q DEF MainJoin, countVars, queueVars
<1>4. ASSUME NEW c \in Consumers, ConsumerStep(c)
      PROVE  CountDrifts'
  <2>e. /\ \A d \in Consumers \ {c} : pcCons'[d] = pcCons[d]
        /\ Pending' = Pending
    BY <1>4, <1>n, ConsumerEffect DEF Pending
  <2>s. \A pc : SetCons(c, pc) => pcCons'[c] = pc
    BY <1>t DEF SetCons
  <2>1. CASE ConsPop(c)
    <3>1. /\ pcCons[c] = "pop" /\ pcCons'[c] = "unlock" /\ packet[c] = NoPacket
          /\ count' = count /\ failed' = failed
      BY <2>1, <2>s DEF ConsPop, countVars, NothingLeftOver, InHand
    <3>2. \A d \in Consumers \ {c} : packet'[d] = packet[d]
      BY <2>1, PopEffect DEF ConsPop
    <3>3. CASE buffer = <<>>
      <4>1. buffer' = buffer /\ packet'[c] = NoPacket
        BY <2>1, <3>3, PopEffect DEF ConsPop
      <4>2. Uncounted' = Uncounted
        BY <4>1, <3>1, <3>2, <2>e DEF Uncounted
      <4> QED BY <4>1, <4>2, <3>1, <2>e, <1>q
    <3>4. CASE buffer # <<>>
      <4>1. Len(buffer') = Len(buffer) - 1 /\ packet'[c] # NoPacket
        BY <2>1, <3>4, PopEffect, ContentAssumption DEF ConsPop
      <4>2. Uncounted' = Uncounted \cup {c} /\ c \notin Uncounted
        BY <4>1, <3>1, <3>2, <2>e DEF Uncounted
      <4>3. Cardinality(Uncounted \cup {c}) = Cardinality(Uncounted) + 1
        BY <4>2, <1>f, FS_AddElement
      <4>4. Cardinality(Uncounted') = Cardinality(Uncounted) + 1
        BY <4>2, <4>3
      <4>5. count' = Len(buffer') - failed' - Pending' + Cardinality(Uncounted')
        BY <4>1, <4>4, <3>1, <2>e, <1>d, <1>f, <1>t
      <4> QED BY <4>5, <1>g
    <3> QED BY <3>3, <3>4
  <2>2. CASE ConsCount(c)
    <3>1. /\ pcCons[c] = "count" /\ pcCons'[c] = "retnval" /\ count' = count - 1
          /\ failed' = IF packet[c] = NoPacket THEN failed + 1 ELSE failed
          /\ buffer' = buffer /\ packet' = packet
      BY <2>2, <2>s DEF ConsCount, queueVars
    <3>2. Uncounted' = Uncounted \ {c} /\ (c \in Uncounted <=> packet[c] # NoPacket)
      BY <3>1, <2>e DEF Uncounted
    <3>3. Cardinality(Uncounted \ {c}) = IF c \in Uncounted THEN Cardinality(Uncounted) - 1
                                         ELSE Cardinality(Uncounted)
      BY <1>f, FS_RemoveElement
    <3>4. Cardinality(Uncounted') = IF packet[c] # NoPacket THEN Cardinality(Uncounted) - 1
                                    ELSE Cardinality(Uncounted)
      BY <3>2, <3>3
    <3>5. Len(buffer') = Len(buffer)
      BY <3>1
    <3>6. count' = Len(buffer') - failed' - Pending' + Cardinality(Uncounted')
      BY <3>1, <3>4, <3>5, <2>e, <1>d, <1>f, <1>t
    <3> QED BY <3>6, <1>g
  <2>3. CASE ConsSum(c)
    <3>1. /\ pcCons[c] = "lookup" /\ pcCons'[c] = "test" /\ buffer' = buffer
          /\ count' = count /\ failed' = failed
          /\ \A d \in Consumers \ {c} : packet'[d] = packet[d]
      BY <2>3, <2>s, <1>t DEF ConsSum, countVars
    <3>2. Uncounted' = Uncounted
      BY <3>1, <2>e DEF Uncounted
    <3> QED BY <3>1, <3>2, <2>e, <1>q
  <2>4. CASE ~(ConsPop(c) \/ ConsCount(c) \/ ConsSum(c))
    <3>1. count' = count /\ failed' = failed /\ buffer' = buffer /\ packet' = packet
      BY <2>4, <1>4 DEF ConsumerStep, ConsTest, ConsTestBoth, ConsWhile, ConsWait, ConsAwake,
         ConsLock, ConsUnlock, ConsLookup, ConsInLookup, SpuriousCons, Crash, ConsGoes,
         countVars, queueVars
    <3>2. pcCons'[c] \in {"unlock", "count"} <=> pcCons[c] \in {"unlock", "count"}
      <4>1. CASE ConsInLookup(c) \/ Crash(c)
        BY <4>1 DEF ConsInLookup, Crash, threadVars
      <4>2. CASE ConsUnlock(c) \/ ConsLookup(c)
        BY <4>2, <2>s DEF ConsUnlock, ConsLookup
      <4>3. CASE ConsTest(c) \/ ConsTestBoth(c) \/ ConsWhile(c)
        BY <4>3, <2>s DEF ConsTest, ConsTestBoth, ConsWhile, ConsGoes
      <4>4. CASE ConsWait(c) \/ ConsAwake(c) \/ ConsLock(c) \/ SpuriousCons(c)
        BY <4>4, <2>s DEF ConsWait, ConsAwake, ConsLock, SpuriousCons, ConsGoes
      <4> QED BY <4>1, <4>2, <4>3, <4>4, <2>4, <1>4 DEF ConsumerStep
    <3>3. Uncounted' = Uncounted
      BY <3>1, <3>2, <2>e DEF Uncounted
    <3> QED BY <3>1, <3>3, <2>e, <1>q
  <2> QED BY <2>1, <2>2, <2>3, <2>4
<1> QED BY <1>1, <1>2, <1>3, <1>4 DEF Next

-----------------------------------------------------------------------------
(* The invariant of the program.                                           *)

Inv == TableInv /\ ThreadInv

\* Initially the table and the queue are empty, and nobody works.
LEMMA InvInit == Init => Inv
<1> SUFFICES ASSUME Init PROVE Inv
  OBVIOUS
<1>1. TableInv
  BY TableInvInit DEF Init
<1>2. ThreadType
  <2>1. <<>> \in Seq(Entry)
    OBVIOUS
  <2> QED BY <2>1, FS_EmptySet DEF Init, ThreadType
<1>3. ReaderPlace /\ PushedBefore /\ NothingLeftOver
  BY DEF Init, ReaderPlace, PushedBefore, NothingLeftOver, Pushing
<1>4. buffer = <<>> /\ DOMAIN buffer = {} /\ Len(buffer) = 0
  BY DEF Init
<1>5. OnePlace
  BY <1>4 DEF Init, OnePlace
<1>6. Queued = {} /\ Holders = {} /\ Held = {} /\ Uncounted = {}
  BY <1>4 DEF Init, Queued, Holders, Held, Uncounted
<1>7. Delivery
  <2>1. Cardinality(Holders) = 0 /\ Cardinality(processed) = 0 /\ Cardinality(abandoned) = 0
        /\ Cardinality(pushed) = 0
    BY <1>6, FS_EmptySet DEF Init
  <2>2. Queued \cup Held \cup processed \cup abandoned = pushed
    BY <1>6 DEF Init
  <2> QED BY <1>4, <2>1, <2>2 DEF Delivery, Queued, Holders
<1>8. CountDrifts
  <2>1. Cardinality(Uncounted) = 0
    BY <1>6, FS_EmptySet
  <2> QED BY <2>1, <1>4 DEF Init, CountDrifts, Uncounted
<1> QED BY <1>1, <1>2, <1>3, <1>5, <1>7, <1>8 DEF Inv, ThreadInv

\* The table changes only by the steps of a lookup, and the payload looked up
\* is the content of a window or, after a pop that failed, any.
LEMMA StepsOfTable ==
  ASSUME ThreadType, Next
  PROVE  (\E c \in Consumers : TableNext(c)) \/ UNCHANGED tableVars
<1>1. CASE ProducerStep \/ MainOpen \/ MainJoin
  BY <1>1 DEF ProducerStep, ProdStart, ProdWait, ProdAwake, ProdRead, ProdLock, ProdPush,
     ProdUnlock, ProdCount, ProdSignal, ProdFinish, MainOpen, MainJoin
<1>2. ASSUME NEW c \in Consumers, ConsumerStep(c)
      PROVE  TableNext(c) \/ UNCHANGED tableVars
  <2>1. CASE ConsLookup(c)
    <3>1. CASE complete = 1 /\ packet[c] = NoPacket
      BY <2>1, <3>1 DEF ConsLookup
    <3>2. CASE ~(complete = 1 /\ packet[c] = NoPacket)
      <4>1. PICK p \in (IF packet[c] = NoPacket THEN Payload ELSE {Content[packet[c]]}) : Begin(c, p)
        BY <2>1, <3>2 DEF ConsLookup
      <4>2. p \in Payload
        BY <4>1, ContentAssumption DEF ThreadType
      <4> QED BY <4>1, <4>2 DEF TableNext
    <3> QED BY <3>1, <3>2
  <2>2. CASE ConsInLookup(c)
    <3>1. CASE LookupStep(c)
      BY <3>1 DEF TableNext
    <3>2. CASE \E aligned \in AlignedOf(packet[c]) : Decide(c, aligned)
      <4>1. AlignedOf(packet[c]) \subseteq BOOLEAN
        BY DEF AlignedOf
      <4> QED BY <4>1, <3>2 DEF TableNext
    <3> QED BY <2>2, <3>1, <3>2 DEF ConsInLookup
  <2>3. CASE ConsSum(c)
    BY <2>3 DEF ConsSum, TableNext
  <2>4. CASE ~(ConsLookup(c) \/ ConsInLookup(c) \/ ConsSum(c))
    BY <2>4, <1>2 DEF ConsumerStep, ConsTest, ConsTestBoth, ConsWhile, ConsWait, ConsAwake,
       ConsLock, ConsPop, ConsUnlock, ConsCount, SpuriousCons, Crash, ConsGoes
  <2> QED BY <2>1, <2>2, <2>3, <2>4
<1> QED BY <1>1, <1>2 DEF Next

\* Every step keeps the invariant.
LEMMA InvStep == Inv /\ [Next]_vars => Inv'
<1> SUFFICES ASSUME Inv, [Next]_vars PROVE Inv'
  OBVIOUS
<1>1. CASE Next
  <2>1. TableInv'
    BY <1>1, StepsOfTable, TableInvStep DEF Inv, ThreadInv
  <2>2. ThreadType' /\ NothingLeftOver'
    BY <1>1, ThreadTypeStep, NothingLeftOverStep DEF Inv, ThreadInv
  <2>3. ReaderPlace' /\ PushedBefore'
    <3>1. pcMain # "killed"
      BY <1>1 DEF Next
    <3>2. CASE ProducerStep \/ MainOpen \/ MainJoin
      BY <3>1, <3>2, ReaderPlaceStep, PushedBeforeStep DEF Inv, ThreadInv
    <3>3. ASSUME NEW c \in Consumers, ConsumerStep(c)
          PROVE  ReaderPlace' /\ PushedBefore'
      <4>1. /\ pcMain = "join" /\ pcMain' \in {"join", "killed"}
            /\ pcProd' = pcProd /\ file' = file /\ rec' = rec /\ win' = win
            /\ pushed' = pushed
        BY <3>1, <3>3, ConsumerEffect DEF Inv, ThreadInv
      <4>2. ReaderPlace'
        BY <4>1 DEF Inv, ThreadInv, ReaderPlace, Records, Windows
      <4>3. PushedBefore'
        BY <4>1 DEF Inv, ThreadInv, PushedBefore
      <4> QED BY <4>2, <4>3
    <3> QED BY <1>1, <3>2, <3>3 DEF Next
  <2>4. OnePlace' /\ Delivery' /\ CountDrifts'
    BY <1>1, DeliveryStep, CountStep DEF Inv, ThreadInv
  <2> QED BY <2>1, <2>2, <2>3, <2>4 DEF Inv, ThreadInv
<1>2. CASE UNCHANGED vars
  <2>1. TableInv'
    BY <1>2, TableInvStep DEF Inv, vars
  <2>2. UNCHANGED <<pcMain, pcProd, pcCons, count, failed, file, rec, win, buffer, packet,
                    pushed, processed, abandoned>>
    BY <1>2 DEF vars, threadVars, countVars, fileVars, queueVars
  <2>3. ThreadType'
    BY <2>2 DEF Inv, ThreadInv, ThreadType
  <2>4. ReaderPlace' /\ PushedBefore' /\ NothingLeftOver' /\ OnePlace'
    BY <2>2 DEF Inv, ThreadInv, ReaderPlace, PushedBefore, NothingLeftOver, OnePlace, Records,
       Windows
  <2>5. Delivery' /\ CountDrifts'
    BY <2>2 DEF Inv, ThreadInv, Delivery, CountDrifts, Held
  <2> QED BY <2>1, <2>3, <2>4, <2>5 DEF Inv, ThreadInv
<1> QED BY <1>1, <1>2

\* The invariant holds of every state that level22.c can be in.
THEOREM Level22InvHolds == Spec => []Inv
BY InvInit, InvStep, PTL DEF Spec

\* Whoever frees whose mutex, the counter is off by exactly the pops that
\* failed, less the windows thrown away with the queue of a file.
THEOREM CountDriftsOnlyByFailures == Spec => []CountDrifts
<1>1. Inv => CountDrifts
  BY DEF Inv, ThreadInv
<1> QED BY <1>1, Level22InvHolds, PTL

\* No window is lost or looked up twice: each is in the queue, with one
\* consumer, looked up, or thrown away with the queue of its file.
THEOREM EachWindowInOnePlace == Spec => []Delivery
<1>1. Inv => Delivery
  BY DEF Inv, ThreadInv
<1> QED BY <1>1, Level22InvHolds, PTL

\* A lookup that has its bucket for itself is never led astray: whatever is
\* wrong with the table of level22.c takes two lookups in one bucket.
THEOREM AloneNothingGoesWrong == Spec => []IsolatedLookup
<1>1. Inv => IsolatedLookup
  <2> SUFFICES ASSUME Inv, NEW c \in Busy \ overlap
               PROVE  /\ ~NullDereference(c)
                      /\ at[c] = "link" => nodes[Cursor(c)].next = NULL
                      /\ at[c] \in {"next", "advance", "compare", "decide", "link", "reset"} =>
                           Cursor(c) \in Reach(head[c])
                      /\ at[c] = "set" => Cursor(c) = NULL
    BY DEF IsolatedLookup
  <2>1. OnTrack(c)
    BY DEF Inv, TableInv, AloneOnTrack
  <2>2. \A n : Reach(n) \subseteq DOMAIN nodes
    BY DEF Reach
  <2>3. NULL \notin DOMAIN nodes
    <3>1. nodes \in Seq([p : Payload, next : Nat])
      BY DEF Inv, TableInv, TableType
    <3>2. DOMAIN nodes = 1..Len(nodes)
      BY <3>1
    <3> QED BY <3>2 DEF NULL
  <2>4. ~NullDereference(c)
    BY <2>1, <2>2, <2>3 DEF NullDereference, OnTrack
  <2> QED BY <2>1, <2>4 DEF OnTrack
<1> QED BY <1>1, Level22InvHolds, PTL

\* No hit gets lost, and a lookup counts two at most.
THEOREM EveryHitCounted == Spec => []HitsCounted
<1>1. Inv => HitsCounted
  <2> SUFFICES ASSUME Inv PROVE HitsCounted
    OBVIOUS
  <2>1. /\ duplicates + Cardinality(Found) <= cacheHits
        /\ cacheHits + Cardinality(MayHitAgain) <= 2 * (duplicates + Cardinality(Found))
    BY DEF Inv, TableInv, HitsInv
  <2>2. Found \in SUBSET Consumers /\ MayHitAgain \in SUBSET Consumers
    BY DEF Found, MayHitAgain
  <2>3. Cardinality(Found) \in Nat /\ Cardinality(MayHitAgain) \in Nat
    BY <2>2, SomeConsumers
  <2>4. cacheHits \in Nat /\ duplicates \in Nat
    BY DEF Inv, TableInv, TableType
  <2>5. cacheHits <= 2 * (duplicates + Cardinality(Found))
    BY <2>1, <2>3, <2>4
  <2> QED BY <2>1, <2>5 DEF HitsCounted, Found
<1> QED BY <1>1, Level22InvHolds, PTL
=============================================================================
