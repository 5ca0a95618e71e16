----------------------------- MODULE ThreadedRE -----------------------------
(***************************************************************************)
(* The whole of threadedRE.c: the threads of Pipeline share the cache of   *)
(* PacketCache and the byte counters.  Pipeline's entries have contents    *)
(* here; a consumer that processes an entry looks its content up, and the  *)
(* producer counts the bytes of what it pushes.                            *)
(***************************************************************************)
EXTENDS Pipeline, PacketCache, FiniteSetsExt, SequencesExt

CONSTANT Content  \* Content[e]: the payload or window that entry e holds

ASSUME ContentAssumption == Content \in [Entry -> Payload]

VARIABLE totalBytes

reVars == <<vars, cacheVars, totalBytes>>

\* packet.firstIndex: the windows of a record are numbered from 0.
FirstIndex(e) == e[3] - 1

BytesOf(entries) == MapThenSumSet(LAMBDA e : Bytes(Content[e]), entries)

\* Fault: 64 bytes are counted for an entry of either level.
BatchBytesOfWindows(f, r) == 64 * Files[f][r]

\* What pushing record r of file f adds to totalBytes.
BatchBytes(f, r) == BytesOf({Batch(f, r)[w] : w \in 1..Files[f][r]})

-----------------------------------------------------------------------------
\* At level 1 a record in range is one entry.
REInit ==
  /\ Init /\ CacheInit
  /\ totalBytes = 0
  /\ level = 1 <=> OneEntryEach

ProducerPush ==
  /\ ProdPush
  /\ totalBytes' = totalBytes + BatchBytes(file, rec)
  /\ UNCHANGED cacheVars

ConsumerLookup(c) ==
  /\ ConsProcess(c)
  /\ Lookup(Content[packet[c]], FirstIndex(packet[c]))
  /\ UNCHANGED totalBytes

\* A step of one thread that leaves the cache alone.
Alone(step) == step /\ UNCHANGED <<cacheVars, totalBytes>>

OtherProducerStep == ProdRead \/ ProdLock \/ ProdWait \/ ProdFinish

OtherConsumerStep(c) == ConsLock(c) \/ ConsCheck(c) \/ ConsWait(c) \/ ConsPop(c) \/ ConsCount(c)

RENext ==
  \/ ProducerPush
  \/ \E c \in Consumers : ConsumerLookup(c) \/ Alone(OtherConsumerStep(c) \/ SpuriousCons(c))
  \/ Alone(OtherProducerStep \/ SpuriousProd \/ MainStep)
  \/ Alone(Terminated)

RESpec == REInit /\ [][RENext]_reVars

\* As in Pipeline.
REFairness ==
  /\ WF_reVars(ProducerPush \/ Alone(OtherProducerStep))
  /\ SF_reVars(Alone(ProdLock))
  /\ WF_reVars(Alone(MainStep))
  /\ \A c \in Consumers :
       /\ WF_reVars(ConsumerLookup(c) \/ Alone(OtherConsumerStep(c)))
       /\ SF_reVars(Alone(ConsLock(c)))

REFairSpec == RESpec /\ REFairness

-----------------------------------------------------------------------------
(* Properties.                                                             *)

\* The percentage of redundancy reported is at most 100, and it is so at any
\* moment: the bytes of an entry are counted before they can be found
\* duplicate, and an entry is found duplicate once.
DuplicatesWithinTotal == totalDuplicateBytes <= totalBytes

\* At level 1, when the results are printed, each payload of the input has
\* been counted once, either as a hit or as an entry of the cache, and all
\* bytes of the input have been counted.
ReportIsComplete ==
  pcMain = "done" =>
    /\ totalBytes = BytesOf(Entry)
    /\ level = 1 => cacheHits + allocated = Cardinality(Entry)

Contents == {Content[e] : e \in Entry}

\* If no two payloads share a bucket, the result of level 1 does not depend
\* on how the consumers interleave: each payload but the first of its kind
\* is a hit, and its bytes are duplicate.
ReportIsExact ==
  /\ pcMain = "done"
  /\ level = 1
  /\ \A p, q \in Contents : Bucket(p) = Bucket(q) => p = q
  => /\ cacheHits = Cardinality(Entry) - Cardinality(Contents)
     /\ totalDuplicateBytes =
          BytesOf(Entry) - MapThenSumSet(LAMBDA p : Bytes(p), Contents)

-----------------------------------------------------------------------------
(* The programs that were merged into threadedRE.c.  What happens inside a *)
(* critical section is hidden: a packet popped and not yet counted is      *)
(* still in the queue.                                                     *)

MainPoint ==
  CASE pcMain = "joinProd" -> "join producer" [] pcMain = "joinCons" -> "join consumers"
    [] OTHER -> pcMain

ProdPoint ==
  CASE pcProd = "lock" -> "push" [] pcProd = "waiting" -> "asleep" [] OTHER -> pcProd

ConsPoint(c) ==
  CASE pcCons[c] \in {"lock", "check", "pop", "popped"} -> "run"
    [] pcCons[c] = "waiting" -> "asleep"
    [] pcCons[c] = "process" -> "busy"
    [] OTHER -> pcCons[c]

Popped == {c \in Consumers : pcCons[c] = "popped"}

Uncounted == SetToSeq({packet[c] : c \in Popped}) \o buffer

Held == [c \in Consumers |-> IF c \in Popped THEN NoPacket ELSE packet[c]]

L1 == INSTANCE Level1 WITH
        main <- MainPoint, prod <- ProdPoint, cons <- [c \in Consumers |-> ConsPoint(c)],
        queue <- Uncounted, held <- Held

L2 == INSTANCE Level2 WITH
        main <- MainPoint, prod <- ProdPoint, cons <- [c \in Consumers |-> ConsPoint(c)],
        queue <- Uncounted, held <- Held

\* With payloads for entries threadedRE.c does what level1.c does: the same
\* results from the same interleavings of critical sections.
ImplementsLevel1 == L1!Level1Spec

\* With windows for entries it does what level2.c does.
ImplementsLevel2 == L2!Level2Spec
=============================================================================
