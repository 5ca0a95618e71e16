----------------------------- MODULE RacyTable -----------------------------
(***************************************************************************)
(* The hash table of level22.c, where hashLock covers single assignments:  *)
(* a consumer looks at g_MyBigTable[bucket] again and again without a      *)
(* lock, while others move the same bucket along the same chain.           *)
(*                                                                         *)
(* One action is one look at, or one assignment to, shared memory.  The    *)
(* table is assumed to have room: the branches for a full one are left     *)
(* out.  A pointer is the number of a node in the order of publication, or *)
(* NULL.  A definition headed "Fault:" is a faulty variant of the next.    *)
(***************************************************************************)
EXTENDS Integers, Sequences, FiniteSets

CONSTANTS
  Consumers,  \* the consumer threads
  Payload,    \* contents of windows
  Bucket,     \* Bucket[p]: hash of p modulo the number of buckets
  Free        \* hashLock has no owner

NULL == 0

ASSUME TableAssumption ==
  /\ Payload # {}
  /\ Bucket \in [Payload -> Nat]
  /\ IsFiniteSet(Consumers)
  /\ Free \notin Consumers

VARIABLES
  table,      \* g_MyBigTable: the node each bucket points to
  nodes,      \* nodes published so far, with their fields p and next
  hashLock,   \* owner of that mutex
  at,         \* each consumer's place in its lookup, "none" outside
  item,       \* payload looked up
  head,       \* local pointer head
  matchFound, \* local variable
  cacheHits, duplicates,  \* hits; windows whose bytes were added to the total
  overlap     \* lookups that have shared their bucket with another (history)

tableVars == <<table, nodes, hashLock, at, item, head, matchFound,
               cacheHits, duplicates, overlap>>

-----------------------------------------------------------------------------
Goto(c, place) == at' = [at EXCEPT ![c] = place]
Busy == {c \in Consumers : at[c] # "none"}

Cursor(c) == table[Bucket[item[c]]]
SetCursor(c, ptr) == table' = [table EXCEPT ![Bucket[item[c]]] = ptr]

\* Fault: =+ for +=.
CountMatchAssigned(c) ==
  IF nodes[Cursor(c)].p = item[c]
  THEN matchFound' = [matchFound EXCEPT ![c] = TRUE] /\ cacheHits' = 1
  ELSE UNCHANGED <<matchFound, cacheHits>>

\* The look at p of the node the bucket points to, and the hit.
CountMatch(c) ==
  IF nodes[Cursor(c)].p = item[c]
  THEN matchFound' = [matchFound EXCEPT ![c] = TRUE] /\ cacheHits' = cacheHits + 1
  ELSE UNCHANGED <<matchFound, cacheHits>>

-----------------------------------------------------------------------------
(* One lookup, in the order of the code.                                   *)

Begin(c, p) ==
  LET rivals == {d \in Busy : Bucket[item[d]] = Bucket[p]}
  IN  /\ at[c] = "none"
      /\ item' = [item EXCEPT ![c] = p]
      /\ matchFound' = [matchFound EXCEPT ![c] = FALSE]
      /\ overlap' = IF rivals = {} THEN overlap ELSE overlap \cup rivals \cup {c}
      /\ Goto(c, "bucket")
      /\ UNCHANGED <<table, nodes, hashLock, head, cacheHits, duplicates>>

ReadBucket(c) ==
  /\ at[c] = "bucket"
  /\ Goto(c, IF Cursor(c) = NULL THEN "lone" ELSE "head")
  /\ UNCHANGED <<table, nodes, hashLock, item, head, matchFound, cacheHits,
                 duplicates, overlap>>

TakeHead(c) ==
  /\ at[c] = "head"
  /\ head' = [head EXCEPT ![c] = Cursor(c)]
  /\ Goto(c, "first")
  /\ UNCHANGED <<table, nodes, hashLock, item, matchFound, cacheHits, duplicates,
                 overlap>>

CompareFirst(c) ==
  /\ at[c] = "first"
  /\ Cursor(c) # NULL
  /\ CountMatch(c)
  /\ Goto(c, "next")
  /\ UNCHANGED <<table, nodes, hashLock, item, head, duplicates, overlap>>

\* Fault: the walk does not stop at the last node.
TestNextMissing(c) ==
  /\ at[c] = "next"
  /\ Cursor(c) # NULL
  /\ Goto(c, IF nodes[Cursor(c)].p = item[c] THEN "decide" ELSE "advance")
  /\ UNCHANGED <<table, nodes, hashLock, item, head, matchFound, cacheHits,
                 duplicates, overlap>>

TestNext(c) ==
  /\ at[c] = "next"
  /\ Cursor(c) # NULL
  /\ Goto(c, IF nodes[Cursor(c)].next = NULL THEN "decide" ELSE "advance")
  /\ UNCHANGED <<table, nodes, hashLock, item, head, matchFound, cacheHits,
                 duplicates, overlap>>

Advance(c) ==
  /\ at[c] = "advance"
  /\ hashLock = Free
  /\ Cursor(c) # NULL
  /\ SetCursor(c, nodes[Cursor(c)].next)
  /\ Goto(c, "compare")
  /\ UNCHANGED <<nodes, hashLock, item, head, matchFound, cacheHits, duplicates,
                 overlap>>

CompareLater(c) ==
  /\ at[c] = "compare"
  /\ Cursor(c) # NULL
  /\ CountMatch(c)
  /\ Goto(c, IF nodes[Cursor(c)].p = item[c] THEN "sum" ELSE "next")
  /\ UNCHANGED <<table, nodes, hashLock, item, head, duplicates, overlap>>

\* A new node is made, or not; nobody else can see it yet.
Decide(c, aligned) ==
  /\ at[c] \in {"decide", "lone"}
  /\ Goto(c, IF matchFound[c] \/ ~aligned THEN "sum"
             ELSE IF at[c] = "lone" THEN "set" ELSE "link")
  /\ UNCHANGED <<table, nodes, hashLock, item, head, matchFound, cacheHits,
                 duplicates, overlap>>

\* The bucket was empty when it was looked at.
SetBucket(c) ==
  /\ at[c] = "set"
  /\ hashLock = Free
  /\ nodes' = Append(nodes, [p |-> item[c], next |-> NULL])
  /\ SetCursor(c, Len(nodes'))
  /\ Goto(c, "sum")
  /\ UNCHANGED <<hashLock, item, head, matchFound, cacheHits, duplicates, overlap>>

LinkNode(c) ==
  /\ at[c] = "link"
  /\ hashLock = Free
  /\ Cursor(c) # NULL
  /\ hashLock' = c
  /\ nodes' = Append([nodes EXCEPT ![Cursor(c)].next = Len(nodes) + 1],
                     [p |-> item[c], next |-> NULL])
  /\ Goto(c, "reset")
  /\ UNCHANGED <<table, item, head, matchFound, cacheHits, duplicates, overlap>>

ResetHead(c) ==
  /\ at[c] = "reset"
  /\ SetCursor(c, head[c])
  /\ hashLock' = Free
  /\ Goto(c, "sum")
  /\ UNCHANGED <<nodes, item, head, matchFound, cacheHits, duplicates, overlap>>

\* The local variables go out of scope.
AnyPayload == CHOOSE p \in Payload : TRUE

Sum(c) ==
  /\ at[c] = "sum"
  /\ duplicates' = IF matchFound[c] THEN duplicates + 1 ELSE duplicates
  /\ overlap' = overlap \ {c}
  /\ matchFound' = [matchFound EXCEPT ![c] = FALSE]
  /\ head' = [head EXCEPT ![c] = NULL]
  /\ item' = [item EXCEPT ![c] = AnyPayload]
  /\ Goto(c, "none")
  /\ UNCHANGED <<table, nodes, hashLock, cacheHits>>

LookupStep(c) ==
  \/ ReadBucket(c) \/ TakeHead(c) \/ CompareFirst(c) \/ TestNext(c) \/ Advance(c)
  \/ CompareLater(c) \/ SetBucket(c) \/ LinkNode(c) \/ ResetHead(c)

\* A null pointer is about to be dereferenced: the process is killed.
NullDereference(c) ==
  /\ at[c] \in {"first", "next", "advance", "compare", "link"}
  /\ at[c] \in {"advance", "link"} => hashLock = Free
  /\ Cursor(c) = NULL

TableInit ==
  /\ table = [b \in {Bucket[p] : p \in Payload} |-> NULL]
  /\ nodes = <<>>
  /\ hashLock = Free
  /\ at = [c \in Consumers |-> "none"]
  /\ item = [c \in Consumers |-> AnyPayload]
  /\ head = [c \in Consumers |-> NULL]
  /\ matchFound = [c \in Consumers |-> FALSE]
  /\ cacheHits = 0
  /\ duplicates = 0
  /\ overlap = {}

-----------------------------------------------------------------------------
(* Properties.                                                             *)

\* Reach(n): the nodes that can be reached from n, those of every set with n
\* in it that next does not lead out of.
Closed(S) == \A n \in S : nodes[n].next \in S \cup {NULL}
Reach(n) ==
  {m \in DOMAIN nodes :
     \A S \in SUBSET DOMAIN nodes : n \in S \cup {NULL} /\ Closed(S) => m \in S}

\* A lookup that has had its bucket for itself is the lookup that was meant:
\* it dereferences no null pointer, links its node to the last one only, and
\* loses nothing of the chain it came upon when it puts the head back.  All
\* that goes wrong with the table takes two lookups in one bucket.
IsolatedLookup ==
  \A c \in Busy \ overlap :
    /\ ~NullDereference(c)
    /\ at[c] = "link" => nodes[Cursor(c)].next = NULL
    /\ at[c] \in {"next", "advance", "compare", "decide", "link", "reset"} =>
         Cursor(c) \in Reach(head[c])
    /\ at[c] = "set" => Cursor(c) = NULL

\* Every lookup that finds its payload counts one hit or, if it finds it at
\* the head of the chain and again behind it, two; no hit gets lost.
HitsCounted ==
  LET found == duplicates + Cardinality({c \in Consumers : matchFound[c]})
  IN  found <= cacheHits /\ cacheHits <= 2 * found
=============================================================================
