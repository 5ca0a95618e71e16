------------------------------ MODULE Pipeline ------------------------------
(***************************************************************************)
(* The threads of threadedRE.c: main, one producer and a pool of           *)
(* consumers, around a buffer guarded by the mutex `countlock' and the     *)
(* condition variables `fill' and `empty'.                                 *)
(*                                                                         *)
(* One action is one step between two points at which another thread can   *)
(* interfere.  Inside a critical section the steps are kept apart wherever *)
(* the section touches state that somebody accesses without the lock:      *)
(* `complete' is written by the producer and `count' is read by main with  *)
(* no lock held, and main broadcasts with no lock held.  A thread waiting  *)
(* on a condition variable is one whose control point is "waiting".        *)
(*                                                                         *)
(* A definition headed "Fault:" is a faulty variant of the one after it;   *)
(* it takes part in no specification and shows which property notices it.  *)
(*                                                                         *)
(* What a record of a capture file holds is abstracted to the number of    *)
(* entries it puts in the buffer: none for a record out of range, one      *)
(* payload at level 1, all its 64-byte windows at level 2.  An entry is    *)
(* named by its place of origin <<file, record, window>>.                  *)
(***************************************************************************)
EXTENDS Integers, Sequences, FiniteSets

CONSTANTS
  Consumers,  \* the consumer threads (threads - 1 of them)
  Files,      \* Files[f][r]: buffer entries that record r of file f yields
  MAXSIZ,     \* count at which the producer waits
  Producer,   \* the producer thread, as an owner of countlock
  Free,       \* countlock has no owner
  NoPacket    \* a consumer's packet holds nothing that was popped

ASSUME ThreadsAssumption ==
  /\ IsFiniteSet(Consumers)
  /\ Consumers # {}
  /\ Producer \notin Consumers
  /\ Free \notin Consumers \cup {Producer}

ASSUME FilesAssumption ==
  /\ Files \in Seq(Seq(Nat))
  /\ MAXSIZ \in Nat \ {0}

VARIABLES
  pcMain, pcProd, pcCons,  \* control points of the threads
  countlock,               \* owner of the mutex
  count, complete,         \* the two shared counters, as in the code
  buffer,                  \* contents of the queue, oldest entry first
  file, rec,               \* the file in progress, records read from it
  packet,                  \* the local variable `packet' of each consumer
  processed                \* entries that went through the cache (history)

threadVars == <<pcMain, pcProd, pcCons>>
bufferVars == <<count, buffer>>
fileVars   == <<file, rec>>
workVars   == <<packet, processed>>
vars == <<threadVars, countlock, complete, bufferVars, fileVars, workVars>>

-----------------------------------------------------------------------------
(* The entries of the input.                                               *)

\* The entries that record r of file f puts in the buffer, in order.
Batch(f, r) == [w \in 1..Files[f][r] |-> <<f, r, w>>]

\* Every entry the input holds.
Entry ==
  UNION {UNION {{<<f, r, w>> : w \in 1..Files[f][r]} : r \in DOMAIN Files[f]} :
            f \in DOMAIN Files}

\* The input is what level 1 makes of its files.
OneEntryEach == \A f \in DOMAIN Files : \A r \in DOMAIN Files[f] : Files[f][r] <= 1

ASSUME NoPacketAssumption == NoPacket \notin Entry

-----------------------------------------------------------------------------
(* Mutex and condition variables (pthread).                                *)

\* Fault: the lock does not exclude anybody.
LockNoExclusion(t) == countlock' = t

Lock(t)   == countlock = Free /\ countlock' = t
Unlock(t) == countlock = t /\ countlock' = Free

Waiting == {c \in Consumers : pcCons[c] = "waiting"}

\* Fault: nobody is woken.
SignalNobody == UNCHANGED pcCons

\* pthread_cond_signal(&fill): one waiting consumer, if there is one, goes
\* back to acquiring the mutex and then to the test of its while loop.
SignalFill ==
  IF Waiting = {}
  THEN UNCHANGED pcCons
  ELSE \E c \in Waiting : pcCons' = [pcCons EXCEPT ![c] = "lock"]

\* pthread_cond_broadcast(&fill)
BroadcastFill ==
  pcCons' = [c \in Consumers |-> IF c \in Waiting THEN "lock" ELSE pcCons[c]]

-----------------------------------------------------------------------------
(* The lock-based queue as its callers see it, under countlock.            *)

\* Fault: the head of the queue is not advanced.
PopKeepsHead(c) ==
  /\ packet' = [packet EXCEPT ![c] = IF buffer = <<>> THEN NoPacket ELSE Head(buffer)]
  /\ UNCHANGED buffer

\* Fault: the youngest entry is taken.
PopYoungest(c) ==
  /\ buffer' = IF buffer = <<>> THEN buffer ELSE SubSeq(buffer, 1, Len(buffer) - 1)
  /\ packet' = [packet EXCEPT ![c] = IF buffer = <<>> THEN NoPacket
                                     ELSE buffer[Len(buffer)]]

\* queue_pop copies the oldest entry to *p, or returns -1 and leaves *p alone.
queue_pop(c) ==
  /\ buffer' = IF buffer = <<>> THEN buffer ELSE Tail(buffer)
  /\ packet' = [packet EXCEPT ![c] = IF buffer = <<>> THEN NoPacket ELSE Head(buffer)]

\* A sequence of queue_push calls and of count++, one pair per entry.
PushAll(entries) ==
  /\ buffer' = buffer \o entries
  /\ count' = count + Len(entries)

-----------------------------------------------------------------------------
(* The producer.                                                           *)

Records == Len(Files[file])

\* One turn of the reading loop up to the point where the record's entries
\* are to be pushed: a record out of range is skipped, the end of the file
\* breaks out of the loop.
ProdRead ==
  /\ pcProd = "read"
  /\ complete' = 0
  /\ \/ /\ rec < Records
        /\ rec' = rec + 1
        /\ pcProd' = IF Files[file][rec + 1] = 0 THEN "read" ELSE "lock"
     \/ /\ rec = Records
        /\ pcProd' = "finish"
        /\ UNCHANGED rec
  /\ UNCHANGED <<pcMain, pcCons, countlock, bufferVars, file, workVars>>

ProdLock ==
  /\ pcProd = "lock"
  /\ Lock(Producer)
  /\ pcProd' = "push"
  /\ UNCHANGED <<pcMain, pcCons, complete, bufferVars, fileVars, workVars>>

\* The buffer counts as full only when count is exactly MAXSIZ.
Full == count = MAXSIZ

ProdWait ==
  /\ pcProd = "push"
  /\ Full
  /\ Unlock(Producer)
  /\ pcProd' = "waiting"
  /\ UNCHANGED <<pcMain, pcCons, complete, bufferVars, fileVars, workVars>>

\* The payload of the last record may be cut short by the end of the file:
\* then feof already holds and the loop is not entered again.
ProdPush ==
  /\ pcProd = "push"
  /\ ~Full
  /\ PushAll(Batch(file, rec))
  /\ SignalFill
  /\ Unlock(Producer)
  /\ pcProd' \in {"read"} \cup (IF rec = Records THEN {"finish"} ELSE {})
  /\ UNCHANGED <<pcMain, complete, fileVars, workVars>>

ProdFinish ==
  /\ pcProd = "finish"
  /\ complete' = 1
  /\ pcProd' = "done"
  /\ UNCHANGED <<pcMain, pcCons, countlock, bufferVars, fileVars, workVars>>

-----------------------------------------------------------------------------
(* The consumers.                                                          *)

SetCons(c, pc) == pcCons' = [pcCons EXCEPT ![c] = pc]

ConsLock(c) ==
  /\ pcCons[c] = "lock"
  /\ Lock(c)
  /\ SetCons(c, "check")
  /\ UNCHANGED <<pcMain, pcProd, complete, bufferVars, fileVars, workVars>>


\* The tests of count and complete; the decision to wait is taken here, the
\* wait itself begins in a later step.
ConsCheck(c) ==
  /\ pcCons[c] = "check"
  /\ \/ /\ count # 0
        /\ SetCons(c, "pop")
        /\ UNCHANGED countlock
     \/ /\ count = 0
        /\ complete = 1
        /\ Unlock(c)
        /\ SetCons(c, "done")
     \/ /\ count = 0
        /\ complete # 1
        /\ SetCons(c, "wait")
        /\ UNCHANGED countlock
  /\ UNCHANGED <<pcMain, pcProd, complete, bufferVars, fileVars, workVars>>

\* pthread_cond_wait: releasing the mutex and starting to wait are one step.
ConsWait(c) ==
  /\ pcCons[c] = "wait"
  /\ Unlock(c)
  /\ SetCons(c, "waiting")
  /\ UNCHANGED <<pcMain, pcProd, complete, bufferVars, fileVars, workVars>>

ConsPop(c) ==
  /\ pcCons[c] = "pop"
  /\ queue_pop(c)
  /\ SetCons(c, "popped")
  /\ UNCHANGED <<pcMain, pcProd, countlock, complete, count, fileVars, processed>>

\* count-- and the test of retnval, after which the mutex is released.
ConsCount(c) ==
  /\ pcCons[c] = "popped"
  /\ count' = count - 1
  /\ SetCons(c, IF complete = 1 /\ packet[c] = NoPacket THEN "done" ELSE "process")
  /\ Unlock(c)
  /\ UNCHANGED <<pcMain, pcProd, complete, buffer, fileVars, workVars>>

\* Hashing the packet and the critical section of the mutex `cache'.  Nobody
\* touches the cache without that mutex, so the section is one step.
ConsProcess(c) ==
  /\ pcCons[c] = "process"
  /\ processed' = processed \cup {packet[c]}
  /\ packet' = [packet EXCEPT ![c] = NoPacket]
  /\ SetCons(c, "lock")
  /\ UNCHANGED <<pcMain, pcProd, countlock, complete, bufferVars, fileVars>>

-----------------------------------------------------------------------------
(* main, after the command line has been read.                             *)

\* A fresh queue, the next file, its producer and its consumers.
MainOpen ==
  /\ pcMain = "open"
  /\ file <= Len(Files)
  /\ buffer' = <<>>
  /\ pcProd' = "read"
  /\ pcCons' = [c \in Consumers |-> "lock"]
  /\ pcMain' = "joinProd"
  /\ UNCHANGED <<countlock, complete, count, fileVars, workVars>>

MainJoinProd ==
  /\ pcMain = "joinProd"
  /\ pcProd = "done"
  /\ pcMain' = "drain"
  /\ UNCHANGED <<pcProd, pcCons, countlock, complete, bufferVars, fileVars, workVars>>

\* One turn of the loop that signals while count > 0, no lock held.
MainSignal ==
  /\ pcMain = "drain"
  /\ count > 0
  /\ SignalFill
  /\ UNCHANGED <<pcMain, pcProd, countlock, complete, bufferVars, fileVars, workVars>>

MainDrained ==
  /\ pcMain = "drain"
  /\ ~(count > 0)
  /\ pcMain' = "broadcast"
  /\ UNCHANGED <<pcProd, pcCons, countlock, complete, bufferVars, fileVars, workVars>>

MainBroadcast ==
  /\ pcMain = "broadcast"
  /\ BroadcastFill
  /\ pcMain' = "joinCons"
  /\ UNCHANGED <<pcProd, countlock, complete, bufferVars, fileVars, workVars>>

\* Fault: the next file is opened while consumers are still at work.
MainSkipsJoin ==
  /\ pcMain = "joinCons"
  /\ file' = file + 1
  /\ rec' = 0
  /\ pcMain' = "open"
  /\ UNCHANGED <<pcProd, pcCons, countlock, complete, bufferVars, workVars>>

MainJoinCons ==
  /\ pcMain = "joinCons"
  /\ \A c \in Consumers : pcCons[c] = "done"
  /\ file' = file + 1
  /\ rec' = 0
  /\ pcMain' = "open"
  /\ UNCHANGED <<pcProd, pcCons, countlock, complete, bufferVars, workVars>>

\* All files have been read: the results are printed.
MainReport ==
  /\ pcMain = "open"
  /\ file > Len(Files)
  /\ pcMain' = "done"
  /\ UNCHANGED <<pcProd, pcCons, countlock, complete, bufferVars, fileVars, workVars>>

-----------------------------------------------------------------------------
(* POSIX lets a condition wait return without a signal.                    *)

SpuriousProd ==
  /\ pcProd = "waiting"
  /\ pcProd' = "lock"
  /\ UNCHANGED <<pcMain, pcCons, countlock, complete, bufferVars, fileVars, workVars>>

SpuriousCons(c) ==
  /\ pcCons[c] = "waiting"
  /\ SetCons(c, "lock")
  /\ UNCHANGED <<pcMain, pcProd, countlock, complete, bufferVars, fileVars, workVars>>

\* The process has returned from main.
Terminated == pcMain = "done" /\ UNCHANGED vars

-----------------------------------------------------------------------------
Init ==
  /\ pcMain = "open"
  /\ pcProd = "done"
  /\ pcCons = [c \in Consumers |-> "done"]
  /\ countlock = Free
  /\ count = 0
  /\ complete = 0
  /\ buffer = <<>>
  /\ file = 1
  /\ rec = 0
  /\ packet = [c \in Consumers |-> NoPacket]
  /\ processed = {}

ProducerStep == ProdRead \/ ProdLock \/ ProdWait \/ ProdPush \/ ProdFinish

ConsumerStep(c) ==
  \/ ConsLock(c) \/ ConsCheck(c) \/ ConsWait(c)
  \/ ConsPop(c) \/ ConsCount(c) \/ ConsProcess(c)

MainStep ==
  \/ MainOpen \/ MainJoinProd \/ MainSignal \/ MainDrained
  \/ MainBroadcast \/ MainJoinCons \/ MainReport

Next ==
  \/ ProducerStep
  \/ \E c \in Consumers : ConsumerStep(c)
  \/ MainStep
  \/ SpuriousProd
  \/ \E c \in Consumers : SpuriousCons(c)
  \/ Terminated

Spec == Init /\ [][Next]_vars

(***************************************************************************)
(* A runnable thread keeps running, and a thread that asks for a mutex     *)
(* again and again while it becomes free again and again gets it.  Nothing *)
(* is assumed about spurious wakeups.                                      *)
(***************************************************************************)
Fairness ==
  /\ WF_vars(ProducerStep)
  /\ SF_vars(ProdLock)
  /\ WF_vars(MainStep)
  /\ \A c \in Consumers : WF_vars(ConsumerStep(c)) /\ SF_vars(ConsLock(c))

FairSpec == Spec /\ Fairness

-----------------------------------------------------------------------------
(* Properties.                                                             *)

ConsControl == {"lock", "check", "wait", "waiting", "pop", "popped", "process", "done"}
ProdControl == {"read", "lock", "push", "waiting", "finish", "done"}
MainControl == {"open", "joinProd", "drain", "broadcast", "joinCons", "done"}

\* Types.  count is an int that may not fall below zero.
TypeOK ==
  /\ pcMain \in MainControl
  /\ pcProd \in ProdControl
  /\ pcCons \in [Consumers -> ConsControl]
  /\ countlock \in Consumers \cup {Producer, Free}
  /\ count \in Nat
  /\ complete \in {0, 1}
  /\ buffer \in Seq(Entry)
  /\ file \in 1..(Len(Files) + 1)
  /\ rec \in 0..(IF file <= Len(Files) THEN Records ELSE 0)
  /\ packet \in [Consumers -> Entry \cup {NoPacket}]
  /\ processed \in SUBSET Entry

InState(pc) == {c \in Consumers : pcCons[c] = pc}

\* `count' is the length of the queue, but for the consumer that has popped
\* an entry and not yet counted it: a counter and a queue that are updated
\* apart agree whenever the mutex is free, and across files.
CountMatchesBuffer == count = Len(buffer) + Cardinality(InState("popped"))

\* No consumer ever pops from an empty queue: queue_pop never returns -1 and
\* no consumer goes on with a packet it did not get.
NoEmptyPop ==
  \A c \in Consumers :
    /\ pcCons[c] = "pop" => buffer # <<>>
    /\ pcCons[c] \in {"popped", "process"} => packet[c] # NoPacket

\* The entries pushed so far.
Pushed ==
  {e \in Entry : \/ e[1] < file
                 \/ e[1] = file /\ e[2] < rec
                 \/ e[1] = file /\ e[2] = rec /\ pcProd \notin {"lock", "push", "waiting"}}

Holders == {c \in Consumers : packet[c] # NoPacket}

\* Every entry pushed is in the buffer, in the hands of a consumer or
\* processed, and in one of these places only: nothing is lost or handed out
\* twice whatever the interleaving.
Conservation ==
  /\ {buffer[i] : i \in DOMAIN buffer} \cup {packet[c] : c \in Holders} \cup processed
        = Pushed
  /\ Len(buffer) + Cardinality(Holders) + Cardinality(processed) = Cardinality(Pushed)

Asleep == {"waiting", "done"}

\* Work is never stranded: while the buffer has entries, some consumer is
\* awake to take them, unless all consumers have returned.
NoStrandedWork ==
  count > 0 => \/ \E c \in Consumers : pcCons[c] \notin Asleep
               \/ \A c \in Consumers : pcCons[c] = "done"

\* When main turns to the next file, or prints the results, every entry of
\* the files before has gone through the cache.
FilesDone ==
  pcMain \in {"open", "done"} =>
     /\ buffer = <<>>
     /\ processed = {e \in Entry : e[1] < file}

\* At level 1, where a record is one entry, the buffer never holds more than
\* MAXSIZ entries.
BufferBounded == OneEntryEach => Len(buffer) <= MAXSIZ

\* `complete' "keeps track of whether producer has finished processing the
\* file" (threadedRE.c:22): a consumer that has found it 1 returns after the
\* producer of its file has finished, and leaves nothing in the buffer.  So it
\* is with a single file; the producer of a later one starts with a `complete'
\* that is still 1, and a consumer may be faster.
ReturnsWhenComplete ==
  \A c \in Consumers :
    pcCons[c] # "done" /\ pcCons'[c] = "done" => pcProd = "done" /\ buffer = <<>>

ConsumersOutliveProducer == [][ReturnsWhenComplete]_vars

\* The invariants above rest on who owns the mutex, on what main has seen and
\* on the counter while the mutex is held; together they are inductive.
InSection == {"check", "wait", "pop", "popped"}

LockOwned ==
  /\ countlock = Producer <=> pcProd = "push"
  /\ \A c \in Consumers : countlock = c <=> pcCons[c] \in InSection

CountExact ==
  IF \E c \in Consumers : pcCons[c] = "popped"
  THEN count = Len(buffer) + 1
  ELSE count = Len(buffer)

CountWhileLocked ==
  \A c \in Consumers :
    /\ pcCons[c] = "pop" => count # 0
    /\ pcCons[c] = "wait" => count = 0

MainOrder ==
  /\ pcMain # "joinProd" => pcProd = "done"
  /\ pcMain \notin {"joinProd", "drain"} => count = 0
  /\ pcMain \in {"open", "done"} => \A c \in Consumers : pcCons[c] = "done"
  /\ pcMain \notin {"open", "done"} => file <= Len(Files)
  /\ pcMain = "open" => rec = 0
  /\ pcProd \in {"lock", "push", "waiting"} => rec > 0

Inv ==
  /\ TypeOK /\ LockOwned /\ CountExact /\ CountWhileLocked
  /\ NoEmptyPop /\ MainOrder

\* The pipeline delivers each entry once, in order, to one consumer.
Flow == INSTANCE PacketFlow WITH
          Workers <- Consumers, Entries <- Entry, NoEntry <- NoPacket,
          queue <- buffer, held <- packet, finished <- processed

FlowSpec == Flow!Spec


\* main joins the producer, waits for its consumers to finish, and reports.
Termination == <>(pcMain = "done")
=============================================================================
