------------------------------- MODULE Level1 -------------------------------
(***************************************************************************)
(* level1.c, the program from which level 1 of threadedRE.c was made: one  *)
(* producer, a pool of consumers and an unbounded cache.                   *)
(*                                                                         *)
(* The grain is coarse: a critical section of countlock is one step, and   *)
(* `count' is the length of the queue.  One section is not atomic even     *)
(* here: `complete' is written without the mutex, so that a consumer may   *)
(* decide to wait, still holding the mutex, while it is set.  Somebody     *)
(* holds the mutex between two steps only in that case.                    *)
(***************************************************************************)
EXTENDS Integers, Sequences, FiniteSets, FiniteSetsExt

CONSTANTS
  Consumers, Files, MAXSIZ, NoPacket,  \* as in Pipeline
  Content,                             \* the payload of each entry
  Hash, Length, Agree, NumBuckets      \* as in PacketCache

VARIABLES
  main, prod, cons,                \* control points
  queue, held, complete,           \* the buffer, what each consumer has taken
  file, rec,                       \* the file in progress, records read from it
  table,                           \* g_MyBigTable
  cacheHits, totalDuplicateBytes,  \* as in the code
  totalBytes

fileVars   == <<file, rec>>
resultVars == <<cacheHits, totalDuplicateBytes>>
cacheVars  == <<table, resultVars>>
level1Vars == <<main, prod, cons, queue, held, complete, fileVars, cacheVars, totalBytes>>

LockFree == \A c \in Consumers : cons[c] # "wait"

Set(c, point) == cons' = [cons EXCEPT ![c] = point]

\* pthread_cond_signal(&fill)
Signal ==
  LET asleep == {c \in Consumers : cons[c] = "asleep"}
  IN  IF asleep = {} THEN UNCHANGED cons ELSE \E c \in asleep : Set(c, "run")

-----------------------------------------------------------------------------
(* producer.                                                               *)

Read ==
  /\ prod = "read"
  /\ complete' = 0
  /\ \/ /\ rec < Len(Files[file])
        /\ rec' = rec + 1
        /\ prod' = IF Files[file][rec + 1] = 0 THEN "read" ELSE "push"
     \/ /\ rec = Len(Files[file])
        /\ prod' = "finish"
        /\ UNCHANGED rec
  /\ UNCHANGED <<main, cons, queue, held, file, cacheVars, totalBytes>>

ProdSleep ==
  /\ prod = "push" /\ LockFree
  /\ Len(queue) = MAXSIZ
  /\ prod' = "asleep"
  /\ UNCHANGED <<main, cons, queue, held, complete, fileVars, cacheVars, totalBytes>>

\* The read of the last payload may have met the end of the file.
PushOnto(entries, bytes) ==
  /\ prod = "push" /\ LockFree
  /\ Len(queue) # MAXSIZ
  /\ queue' = queue \o entries
  /\ totalBytes' = totalBytes + bytes
  /\ Signal
  /\ \/ prod' = "read"
     \/ prod' = "finish" /\ rec = Len(Files[file])
  /\ UNCHANGED <<main, held, complete, fileVars, cacheVars>>

Push ==
  LET entry == <<file, rec, 1>> IN PushOnto(<<entry>>, Length[Content[entry]])

Finish ==
  /\ prod = "finish"
  /\ complete' = 1
  /\ prod' = "done"
  /\ UNCHANGED <<main, cons, queue, held, fileVars, cacheVars, totalBytes>>

-----------------------------------------------------------------------------
(* consumer.                                                               *)

Take(c) ==
  /\ cons[c] = "run" /\ LockFree
  /\ queue # <<>>
  /\ held' = [held EXCEPT ![c] = Head(queue)]
  /\ queue' = Tail(queue)
  /\ Set(c, "busy")
  /\ UNCHANGED <<main, prod, complete, fileVars, cacheVars, totalBytes>>

\* The buffer is empty: the consumer returns, or decides to wait.
FindEmpty(c) ==
  /\ cons[c] = "run" /\ LockFree
  /\ queue = <<>>
  /\ Set(c, IF complete = 1 THEN "done" ELSE "wait")
  /\ UNCHANGED <<main, prod, queue, held, complete, fileVars, cacheVars, totalBytes>>

Sleep(c) ==
  /\ cons[c] = "wait"
  /\ Set(c, "asleep")
  /\ UNCHANGED <<main, prod, queue, held, complete, fileVars, cacheVars, totalBytes>>

BucketOf(p) == Hash[p] % NumBuckets

Matches(p) ==
  {i \in DOMAIN table[BucketOf(p)] :
     LET e == table[BucketOf(p)][i] IN Hash[e] = Hash[p] /\ <<e, p>> \in Agree}

\* The walk behind the head moves the bucket to the first match, or the end.
Cursor(p) ==
  LET later == Matches(p) \ {1}
  IN  IF later = {} THEN Len(table[BucketOf(p)]) ELSE Min(later)

FromCursor(p) ==
  IF table[BucketOf(p)] = <<>> THEN <<>>
  ELSE SubSeq(table[BucketOf(p)], Cursor(p), Len(table[BucketOf(p)]))

CountHits(p, bytes) ==
  LET hits == Matches(p) \cap {1, Cursor(p)}
  IN  /\ cacheHits' = cacheHits + Cardinality(hits)
      /\ totalDuplicateBytes' = totalDuplicateBytes + (IF hits = {} THEN 0 ELSE bytes)

\* The rest of the turn, with the critical section of the mutex `cache'.
Looked(c) ==
  /\ cons[c] = "busy"
  /\ Set(c, "run")
  /\ held' = [held EXCEPT ![c] = NoPacket]
  /\ UNCHANGED <<main, prod, queue, complete, fileVars, totalBytes>>

Check(c) ==
  /\ Looked(c)
  /\ LET p == Content[held[c]]
     IN  /\ table' = [table EXCEPT ![BucketOf(p)] =
                        IF Matches(p) = {} THEN Append(@, p) ELSE FromCursor(p)]
         /\ CountHits(p, Length[p])

-----------------------------------------------------------------------------
(* main.                                                                   *)

Open ==
  /\ main = "open" /\ file <= Len(Files)
  /\ queue' = <<>>
  /\ prod' = "read"
  /\ cons' = [c \in Consumers |-> "run"]
  /\ main' = "join producer"
  /\ UNCHANGED <<held, complete, fileVars, cacheVars, totalBytes>>

JoinProducer ==
  /\ main = "join producer" /\ prod = "done"
  /\ main' = "drain"
  /\ UNCHANGED <<prod, cons, queue, held, complete, fileVars, cacheVars, totalBytes>>

\* The loop that signals while count > 0; it reads count without the mutex.
Drain ==
  /\ main = "drain"
  /\ \/ queue # <<>> /\ Signal /\ UNCHANGED main
     \/ queue = <<>> /\ main' = "broadcast" /\ UNCHANGED cons
  /\ UNCHANGED <<prod, queue, held, complete, fileVars, cacheVars, totalBytes>>

Broadcast ==
  /\ main = "broadcast"
  /\ cons' = [c \in Consumers |-> IF cons[c] = "asleep" THEN "run" ELSE cons[c]]
  /\ main' = "join consumers"
  /\ UNCHANGED <<prod, queue, held, complete, fileVars, cacheVars, totalBytes>>

JoinConsumers ==
  /\ main = "join consumers"
  /\ \A c \in Consumers : cons[c] = "done"
  /\ file' = file + 1 /\ rec' = 0
  /\ main' = "open"
  /\ UNCHANGED <<prod, cons, queue, held, complete, cacheVars, totalBytes>>

Report ==
  /\ main = "open" /\ file > Len(Files)
  /\ main' = "done"
  /\ UNCHANGED <<prod, cons, queue, held, complete, fileVars, cacheVars, totalBytes>>

-----------------------------------------------------------------------------
Spurious ==
  /\ \/ prod = "asleep" /\ prod' = "push" /\ UNCHANGED cons
     \/ \E c \in Consumers : cons[c] = "asleep" /\ Set(c, "run") /\ UNCHANGED prod
  /\ UNCHANGED <<main, queue, held, complete, fileVars, cacheVars, totalBytes>>

Level1Init ==
  /\ main = "open" /\ prod = "done" /\ cons = [c \in Consumers |-> "done"]
  /\ queue = <<>> /\ held = [c \in Consumers |-> NoPacket] /\ complete = 0
  /\ file = 1 /\ rec = 0
  /\ table = [b \in 0..(NumBuckets - 1) |-> <<>>]
  /\ cacheHits = 0 /\ totalDuplicateBytes = 0 /\ totalBytes = 0

\* What level2.c does in the same way.
Common ==
  \/ Read \/ ProdSleep \/ Finish \/ Spurious
  \/ \E c \in Consumers : Take(c) \/ FindEmpty(c) \/ Sleep(c)
  \/ Open \/ JoinProducer \/ Drain \/ Broadcast \/ JoinConsumers \/ Report

Level1Next == Common \/ Push \/ \E c \in Consumers : Check(c)

Level1Spec == Level1Init /\ [][Level1Next]_level1Vars
=============================================================================
