---------------------------- MODULE ProdConHora ----------------------------
(***************************************************************************)
(* prodconHora.c, the first threaded prototype, on one file.  The producer *)
(* waits for room without holding the mutex.  The wait releases the mutex  *)
(* all the same, whoever holds it (the mutex does not check its owner),    *)
(* and returns with it held; then the producer locks it once more.  So     *)
(* nothing is taken to be atomic for being in a critical section: the      *)
(* queue operation, reading `count', writing it and the signal of the      *)
(* producer are steps of their own.                                        *)
(*                                                                         *)
(* Only the queue has locks of its own.  The table is left out: a lookup   *)
(* is atomic as long as the mutex excludes, and else goes wrong as in      *)
(* RacyTable.                                                              *)
(*                                                                         *)
(* A definition headed "Fault:" is a faulty variant of the one after it.   *)
(***************************************************************************)
EXTENDS Integers, Sequences, FiniteSets

CONSTANTS
  Consumers, Producer, Free, NoPacket,
  MAXSIZ,    \* count at which the producer waits
  Payloads,  \* bound: payloads in range read from the file
  Below      \* bound: count is not decremented below -Below

ASSUME HoraAssumption ==
  /\ Producer \notin Consumers /\ Free \notin Consumers \cup {Producer}
  /\ Payloads \in Nat /\ NoPacket \notin 1..Payloads

VARIABLES
  pc, main,         \* control points
  mutex,            \* its owner
  count, complete,  \* as in the code
  reg,              \* the value of count that a thread is about to change
  buffer, packet,   \* the queue, what each consumer has popped
  pushed,           \* payloads pushed: 1, 2, ...
  processed,        \* payloads looked up (history)
  waited, stale     \* the producer has waited; a packet was not popped (history)

historyVars == <<processed, waited, stale>>
horaVars == <<pc, main, mutex, count, complete, reg, buffer, packet, pushed, historyVars>>

Goto(t, point) == pc' = [pc EXCEPT ![t] = point]

-----------------------------------------------------------------------------
(* Mutex and condition variables.                                          *)

\* A thread that has not yet the mutex, or has to get it back after a wait.
Lock(t, point, next) ==
  /\ pc[t] = point
  /\ mutex = Free
  /\ mutex' = t
  /\ Goto(t, next)
  /\ UNCHANGED <<main, count, complete, reg, buffer, packet, pushed, historyVars>>

Wait(t) ==
  /\ pc[t] = "wait"
  /\ mutex' = Free
  /\ waited' = (waited \/ t = Producer)
  /\ Goto(t, "asleep")
  /\ UNCHANGED <<main, count, complete, reg, buffer, packet, pushed, processed, stale>>

Spurious(t) ==
  /\ pc[t] = "asleep"
  /\ Goto(t, "woken")
  /\ UNCHANGED <<main, mutex, count, complete, reg, buffer, packet, pushed, historyVars>>

\* Fault: nobody is woken.
SignalNobody(t, point, waiters) == Goto(t, point)

\* t goes on to a point and wakes one of the waiters.
Signal(t, point, waiters) ==
  LET asleep == {u \in waiters : pc[u] = "asleep"}
  IN  IF asleep = {} THEN Goto(t, point)
      ELSE \E u \in asleep : pc' = [pc EXCEPT ![t] = point, ![u] = "woken"]

\* The mutex is released by whoever gets here.
Unlock(t, point) ==
  /\ mutex' = Free
  /\ Goto(t, point)

\* The first half of count++ and count--.
Load(t) ==
  /\ pc[t] = "load"
  /\ reg' = [reg EXCEPT ![t] = count]
  /\ Goto(t, "count")
  /\ UNCHANGED <<main, mutex, count, complete, buffer, packet, pushed, historyVars>>

-----------------------------------------------------------------------------
(* producer.                                                               *)

\* The head of the loop, and the test for room without the mutex.
ProdTest ==
  /\ pc[Producer] = "test"
  /\ complete' = 0
  /\ Goto(Producer, IF count = MAXSIZ THEN "wait" ELSE "lock")
  /\ UNCHANGED <<main, mutex, count, reg, buffer, packet, pushed, historyVars>>

\* A record out of range is skipped, and the end of the file is not seen then.
ProdSkip ==
  /\ pc[Producer] = "read"
  /\ Unlock(Producer, "test")
  /\ UNCHANGED <<main, count, complete, reg, buffer, packet, pushed, historyVars>>

ProdPush ==
  /\ pc[Producer] = "read"
  /\ pushed < Payloads
  /\ pushed' = pushed + 1
  /\ buffer' = Append(buffer, pushed + 1)
  /\ Goto(Producer, "load")
  /\ UNCHANGED <<main, mutex, count, complete, reg, packet, historyVars>>

ProdCount ==
  /\ pc[Producer] = "count"
  /\ count' = reg[Producer] + 1
  /\ Goto(Producer, "signal")
  /\ UNCHANGED <<main, mutex, complete, reg, buffer, packet, pushed, historyVars>>

ProdSignal ==
  /\ pc[Producer] = "signal"
  /\ Signal(Producer, "unlock", Consumers)
  /\ UNCHANGED <<main, mutex, count, complete, reg, buffer, packet, pushed, historyVars>>

\* The loop ends if the read of the payload was cut short.
ProdUnlock ==
  /\ pc[Producer] = "unlock"
  /\ \E point \in {"test", "finish"} : Unlock(Producer, point)
  /\ UNCHANGED <<main, count, complete, reg, buffer, packet, pushed, historyVars>>

ProdFinish ==
  /\ pc[Producer] = "finish"
  /\ complete' = 1
  /\ Goto(Producer, "done")
  /\ UNCHANGED <<main, mutex, count, reg, buffer, packet, pushed, historyVars>>

ProducerStep ==
  \/ ProdTest \/ Wait(Producer) \/ Lock(Producer, "woken", "test")
  \/ Lock(Producer, "lock", "read")
  \/ ProdSkip \/ ProdPush \/ Load(Producer) \/ ProdCount \/ ProdSignal \/ ProdUnlock \/ ProdFinish

-----------------------------------------------------------------------------
(* consumer.                                                               *)

\* complete == 1 & count == 0, the one test of complete before the loop that
\* waits: both are read, in either order.
ConsCheck(c) ==
  /\ pc[c] = "check"
  /\ \/ Goto(c, IF complete = 1 THEN "is count 0" ELSE "test")
     \/ Goto(c, IF count = 0 THEN "is complete" ELSE "test")
  /\ UNCHANGED <<main, mutex, count, complete, reg, buffer, packet, pushed, historyVars>>

ConsCheckOther(c) ==
  /\ pc[c] \in {"is count 0", "is complete"}
  /\ IF IF pc[c] = "is count 0" THEN count = 0 ELSE complete = 1
     THEN Unlock(c, "done")
     ELSE Goto(c, "test") /\ UNCHANGED mutex
  /\ UNCHANGED <<main, count, complete, reg, buffer, packet, pushed, historyVars>>

ConsTest(c) ==
  /\ pc[c] = "test"
  /\ Goto(c, IF count = 0 THEN "wait" ELSE "pop")
  /\ UNCHANGED <<main, mutex, count, complete, reg, buffer, packet, pushed, historyVars>>

\* Fault: the mutex is released before count is changed.
PopUnlocks(c) ==
  /\ pc[c] = "pop"
  /\ packet' = [packet EXCEPT ![c] = IF buffer = <<>> THEN NoPacket ELSE Head(buffer)]
  /\ buffer' = IF buffer = <<>> THEN <<>> ELSE Tail(buffer)
  /\ Unlock(c, "load")
  /\ UNCHANGED <<main, count, complete, reg, pushed, historyVars>>

\* Fault: the queue does not move its head.
PopKeepsHead(c) ==
  /\ pc[c] = "pop"
  /\ packet' = [packet EXCEPT ![c] = IF buffer = <<>> THEN NoPacket ELSE Head(buffer)]
  /\ Goto(c, "load")
  /\ UNCHANGED <<main, mutex, count, complete, reg, buffer, pushed, historyVars>>

ConsPop(c) ==
  /\ pc[c] = "pop"
  /\ packet' = [packet EXCEPT ![c] = IF buffer = <<>> THEN NoPacket ELSE Head(buffer)]
  /\ buffer' = IF buffer = <<>> THEN <<>> ELSE Tail(buffer)
  /\ Goto(c, "load")
  /\ UNCHANGED <<main, mutex, count, complete, reg, pushed, historyVars>>

\* The second half of count--.
ConsCount(c) ==
  /\ pc[c] = "count"
  /\ reg[c] > -Below
  /\ count' = reg[c] - 1
  /\ Goto(c, "look")
  /\ UNCHANGED <<main, mutex, complete, reg, buffer, packet, pushed, historyVars>>

\* The test of retnval.
ConsLeave(c) ==
  /\ pc[c] = "look"
  /\ complete = 1 /\ packet[c] = NoPacket
  /\ Unlock(c, "done")
  /\ UNCHANGED <<main, count, complete, reg, buffer, packet, pushed, historyVars>>

\* The packet is looked up, be it one that was popped or not, and empty is
\* signalled; the lookup itself touches nothing of the queue.
ConsLook(c) ==
  /\ pc[c] = "look"
  /\ ~(complete = 1 /\ packet[c] = NoPacket)
  /\ processed' = processed \cup ({packet[c]} \ {NoPacket})
  /\ stale' = (stale \/ packet[c] = NoPacket)
  /\ packet' = [packet EXCEPT ![c] = NoPacket]
  /\ Signal(c, "unlock", {Producer})
  /\ UNCHANGED <<main, mutex, count, complete, reg, buffer, pushed, waited>>

ConsUnlock(c) ==
  /\ pc[c] = "unlock"
  /\ Unlock(c, "lock")
  /\ UNCHANGED <<main, count, complete, reg, buffer, packet, pushed, historyVars>>

ConsumerStep(c) ==
  \/ Lock(c, "lock", "check") \/ ConsCheck(c) \/ ConsCheckOther(c) \/ ConsTest(c)
  \/ Wait(c) \/ Lock(c, "woken", "test") \/ ConsPop(c) \/ Load(c) \/ ConsCount(c)
  \/ ConsLeave(c) \/ ConsLook(c) \/ ConsUnlock(c)

-----------------------------------------------------------------------------
\* main joins all threads and reports; nobody is woken for that.
MainJoin ==
  /\ main = "join"
  /\ \A t \in Consumers \cup {Producer} : pc[t] = "done"
  /\ main' = "done"
  /\ UNCHANGED <<pc, mutex, count, complete, reg, buffer, packet, pushed, historyVars>>

HoraInit ==
  /\ main = "join"
  /\ pc = [t \in Consumers \cup {Producer} |-> IF t = Producer THEN "test" ELSE "lock"]
  /\ mutex = Free
  /\ count = 0 /\ complete = 0 /\ reg = [t \in Consumers \cup {Producer} |-> 0]
  /\ buffer = <<>> /\ packet = [c \in Consumers |-> NoPacket]
  /\ pushed = 0 /\ processed = {} /\ waited = FALSE /\ stale = FALSE

HoraNext ==
  \/ ProducerStep \/ MainJoin
  \/ \E c \in Consumers : ConsumerStep(c)
  \/ \E t \in Consumers \cup {Producer} : Spurious(t)

\* A runnable thread keeps running, and gets a mutex that becomes free again
\* and again.
HoraSpec ==
  /\ HoraInit /\ [][HoraNext]_horaVars
  /\ WF_horaVars(ProducerStep) /\ WF_horaVars(MainJoin)
  /\ SF_horaVars(Lock(Producer, "lock", "read"))
  /\ \A c \in Consumers :
       /\ WF_horaVars(ConsumerStep(c))
       /\ SF_horaVars(Lock(c, "lock", "check") \/ Lock(c, "woken", "test"))

-----------------------------------------------------------------------------
(* Properties.                                                             *)

Inside(t) ==
  pc[t] \in IF t = Producer THEN {"read", "load", "count", "signal", "unlock"}
            ELSE {"check", "is count 0", "is complete", "test", "wait", "pop", "load",
                  "count", "look", "unlock"}

Uncounted == {t \in Consumers \cup {Producer} : pc[t] \in {"load", "count"}}

\* As long as the producer has not found the buffer full, the mutex excludes,
\* `count' is the length of the queue but for the thread about to change it,
\* and no consumer looks up a packet that it did not pop.
ExactUntilFull ==
  ~waited =>
    /\ \A t, u \in Consumers \cup {Producer} : Inside(t) /\ Inside(u) => t = u
    /\ count = Len(buffer) + Cardinality(Uncounted \cap Consumers)
                 - Cardinality(Uncounted \cap {Producer})
    /\ ~stale

Flow == INSTANCE PacketFlow WITH
          Workers <- Consumers, Entries <- 1..Payloads, NoEntry <- NoPacket,
          queue <- buffer, held <- packet, finished <- processed

\* Even with the mutex broken, payloads leave the queue in order, each to one
\* consumer, and none is lost.
StillFlows == Flow!Spec

\* Unless the producer has ever waited, every payload pushed is looked up, and
\* main reports, but for two ways to hang: the producer goes on reading at the
\* end of the file, or a consumer sleeps in front of an empty buffer.
SettlesUnlessFull ==
  <>[]\/ waited
      \/ /\ processed = 1..pushed
         /\ \/ main = "done"
            \/ pc[Producer] # "done"
            \/ count = 0 /\ \E c \in Consumers : pc[c] \in {"wait", "asleep", "woken", "test"}
=============================================================================
