------------------------------ MODULE Level22 ------------------------------
(***************************************************************************)
(* The threads of level22.c, the variant with a mutex per operation: the   *)
(* buffer is under bufferLock, its counter under countLock, and the tests  *)
(* of count and complete are under none.  A consumer waits for `fill' with *)
(* bufferLock, which it does not hold.                                     *)
(*                                                                         *)
(* POSIX leaves such a wait undefined; the C library of the build frees    *)
(* the mutex whoever owns it, and gives it to the thread that wakes up.    *)
(* The queue has locks of its own, so that a push or a pop is one step     *)
(* even when bufferLock has been freed by somebody else.                   *)
(*                                                                         *)
(* The reading loop has no test for the end of the file, and each fseek    *)
(* clears the flag feof looks at: behind the last record a further one is  *)
(* made up, with the length of the last.                                   *)
(***************************************************************************)
EXTENDS RacyTable

CONSTANTS
  Files,      \* Files[f][r]: windows of record r of file f, 0 out of range
  MAXSIZ,     \* count at which the producer waits
  Content,    \* Content[e]: payload of window e
  MaxFailed,  \* no pop finds the queue empty when it has happened so often
  Producer,   \* the producer thread, as an owner of bufferLock
  NoPacket    \* the consumer's packet is whatever was on its stack

\* Every file has a record: before the first one the length is undefined.
ASSUME FilesAssumption ==
  /\ Files \in Seq(Seq(Nat) \ {<<>>})
  /\ MAXSIZ \in Nat \ {0}
  /\ MaxFailed \in Nat
  /\ Producer \notin Consumers

VARIABLES
  pcMain, pcProd, pcCons,  \* control points of the threads
  bufferLock,              \* owner of the mutex
  count, complete,         \* as in the code
  buffer,                  \* contents of the queue
  file, rec, win,          \* file and record in progress, window pushed next
  packet,                  \* local variable of each consumer
  pushed, processed,       \* windows pushed, windows looked up (history)
  abandoned,               \* windows left in the queue of an earlier file (history)
  failed                   \* pops of an empty queue, less those windows (history)

threadVars == <<pcMain, pcProd, pcCons>>
countVars  == <<count, failed>>
fileVars   == <<file, rec, win>>
queueVars  == <<buffer, packet, pushed, processed, abandoned>>
vars == <<threadVars, bufferLock, complete, countVars, fileVars, queueVars, tableVars>>

Records == Len(Files[file])

\* The length in nPacketLength stays what it was when nothing can be read.
Windows(f, r) == Files[f][IF r > Len(Files[f]) THEN Len(Files[f]) ELSE r]

\* Every window, those of the record made up included.
Entry ==
  UNION {UNION {{<<f, r, w>> : w \in 1..Windows(f, r)} : r \in 1..(Len(Files[f]) + 1)} :
            f \in DOMAIN Files}

ASSUME ContentAssumption == Content \in [Entry -> Payload] /\ NoPacket \notin Entry

-----------------------------------------------------------------------------
(* pthread_cond_wait with a mutex that may be anybody's.                   *)

Release == bufferLock' = Free
Acquire(t) == bufferLock = Free /\ bufferLock' = t

SetCons(c, pc) == pcCons' = [pcCons EXCEPT ![c] = pc]

\* pthread_cond_signal(&fill)
SignalFill ==
  LET sleeping == {c \in Consumers : pcCons[c] = "waiting"}
  IN  IF sleeping = {}
      THEN UNCHANGED pcCons
      ELSE \E c \in sleeping : SetCons(c, "awake")

-----------------------------------------------------------------------------
(* The producer.                                                           *)

ProdStart ==
  /\ pcProd = "start"
  /\ complete' = 0
  /\ pcProd' = "room"
  /\ UNCHANGED <<pcMain, pcCons, bufferLock, countVars, fileVars, queueVars, tableVars>>

ProdWait ==
  /\ pcProd = "room"
  /\ count = MAXSIZ
  /\ Release
  /\ pcProd' = "waiting"
  /\ UNCHANGED <<pcMain, pcCons, complete, countVars, fileVars, queueVars, tableVars>>

\* Nobody signals `empty'; a wakeup is spurious and brings the mutex with it.
ProdAwake ==
  /\ pcProd = "waiting"
  /\ Acquire(Producer)
  /\ pcProd' = "room"
  /\ UNCHANGED <<pcMain, pcCons, complete, countVars, fileVars, queueVars, tableVars>>

\* A record is read, or made up behind the last one.  Out of range it is
\* skipped by an fseek, after which feof does not hold.
ProdRead ==
  /\ pcProd = "room"
  /\ count # MAXSIZ
  /\ IF Windows(file, rec + 1) = 0
     THEN /\ pcProd' = "start"
          /\ rec' = IF rec < Records THEN rec + 1 ELSE rec
     ELSE /\ pcProd' = "lock"
          /\ rec' = rec + 1
  /\ win' = 1
  /\ UNCHANGED <<pcMain, pcCons, bufferLock, complete, countVars, file, queueVars,
                 tableVars>>

ProdLock ==
  /\ pcProd = "lock"
  /\ Acquire(Producer)
  /\ pcProd' = "push"
  /\ UNCHANGED <<pcMain, pcCons, complete, countVars, fileVars, queueVars, tableVars>>

ProdPush ==
  /\ pcProd = "push"
  /\ buffer' = Append(buffer, <<file, rec, win>>)
  /\ pushed' = pushed \cup {<<file, rec, win>>}
  /\ pcProd' = "unlock"
  /\ UNCHANGED <<pcMain, pcCons, bufferLock, complete, countVars, fileVars, packet,
                 processed, abandoned, tableVars>>

ProdUnlock ==
  /\ pcProd = "unlock"
  /\ Release
  /\ pcProd' = "count"
  /\ UNCHANGED <<pcMain, pcCons, complete, countVars, fileVars, queueVars, tableVars>>

ProdCount ==
  /\ pcProd = "count"
  /\ count' = count + 1
  /\ pcProd' = "signal"
  /\ UNCHANGED <<pcMain, pcCons, bufferLock, complete, failed, fileVars, queueVars,
                 tableVars>>

\* The next window, or the next record, or the end of the file: feof holds
\* after the payload of the record made up, and of a last one cut short.
ProdSignal ==
  /\ pcProd = "signal"
  /\ SignalFill
  /\ IF win < Windows(file, rec)
     THEN win' = win + 1 /\ pcProd' = "lock"
     ELSE /\ pcProd' \in (IF rec > Records THEN {} ELSE {"start"})
                           \cup (IF rec >= Records THEN {"finish"} ELSE {})
          /\ UNCHANGED win
  /\ UNCHANGED <<pcMain, bufferLock, complete, countVars, file, rec, queueVars, tableVars>>

ProdFinish ==
  /\ pcProd = "finish"
  /\ complete' = 1
  /\ pcProd' = "done"
  /\ UNCHANGED <<pcMain, pcCons, bufferLock, countVars, fileVars, queueVars, tableVars>>

-----------------------------------------------------------------------------
(* The consumers.                                                          *)

ConsGoes(c, pc) ==
  /\ SetCons(c, pc)
  /\ UNCHANGED <<pcMain, pcProd, bufferLock, complete, countVars, fileVars, queueVars,
                 tableVars>>

\* complete == 1 & count == 0: both are read, in either order.
ConsTest(c) ==
  /\ pcCons[c] = "test"
  /\ \/ ConsGoes(c, IF complete = 1 THEN "complete" ELSE "while")
     \/ ConsGoes(c, IF count = 0 THEN "zero" ELSE "while")

ConsTestBoth(c) ==
  \/ /\ pcCons[c] = "complete"
     /\ ConsGoes(c, IF count = 0 THEN "done" ELSE "while")
  \/ /\ pcCons[c] = "zero"
     /\ ConsGoes(c, IF complete = 1 THEN "done" ELSE "while")

ConsWhile(c) ==
  /\ pcCons[c] = "while"
  /\ ConsGoes(c, IF count = 0 THEN "wait" ELSE "lock")

\* The mutex is freed, whoever owns it.
ConsWait(c) ==
  /\ pcCons[c] = "wait"
  /\ Release
  /\ SetCons(c, "waiting")
  /\ UNCHANGED <<pcMain, pcProd, complete, countVars, fileVars, queueVars, tableVars>>

\* The consumer wakes up with the mutex; if there is work it will try to lock
\* it again, and stand in its own way until somebody else frees it.
ConsAwake(c) ==
  /\ pcCons[c] = "awake"
  /\ Acquire(c)
  /\ SetCons(c, "while")
  /\ UNCHANGED <<pcMain, pcProd, complete, countVars, fileVars, queueVars, tableVars>>

ConsLock(c) ==
  /\ pcCons[c] = "lock"
  /\ Acquire(c)
  /\ SetCons(c, "pop")
  /\ UNCHANGED <<pcMain, pcProd, complete, countVars, fileVars, queueVars, tableVars>>

\* Fault: the head of the queue is not advanced.
PopKeepsHead(c) ==
  /\ packet' = [packet EXCEPT ![c] = IF buffer = <<>> THEN NoPacket ELSE Head(buffer)]
  /\ UNCHANGED buffer

queue_pop(c) ==
  /\ buffer' = IF buffer = <<>> THEN buffer ELSE Tail(buffer)
  /\ packet' = [packet EXCEPT ![c] = IF buffer = <<>> THEN NoPacket ELSE Head(buffer)]

ConsPop(c) ==
  /\ pcCons[c] = "pop"
  /\ buffer = <<>> => failed < MaxFailed
  /\ queue_pop(c)
  /\ SetCons(c, "unlock")
  /\ UNCHANGED <<pcMain, pcProd, bufferLock, complete, countVars, fileVars, pushed,
                 processed, abandoned, tableVars>>

ConsUnlock(c) ==
  /\ pcCons[c] = "unlock"
  /\ Release
  /\ SetCons(c, "count")
  /\ UNCHANGED <<pcMain, pcProd, complete, countVars, fileVars, queueVars, tableVars>>

\* Fault: the counter is read before the mutex is taken.
CountStale(c) ==
  /\ pcCons[c] = "count"
  /\ count' \in {count - 1, count}
  /\ failed' = IF packet[c] = NoPacket THEN failed + 1 ELSE failed
  /\ SetCons(c, "retnval")
  /\ UNCHANGED <<pcMain, pcProd, bufferLock, complete, fileVars, queueVars, tableVars>>

\* count-- whatever queue_pop has returned.
ConsCount(c) ==
  /\ pcCons[c] = "count"
  /\ count' = count - 1
  /\ failed' = IF packet[c] = NoPacket THEN failed + 1 ELSE failed
  /\ SetCons(c, "retnval")
  /\ UNCHANGED <<pcMain, pcProd, bufferLock, complete, fileVars, queueVars, tableVars>>

\* The test of retnval.  A consumer that has popped nothing goes on with what
\* is on its stack unless the file is complete.
ConsLookup(c) ==
  /\ pcCons[c] = "retnval"
  /\ IF complete = 1 /\ packet[c] = NoPacket
     THEN SetCons(c, "done") /\ UNCHANGED tableVars
     ELSE /\ \E p \in (IF packet[c] = NoPacket THEN Payload ELSE {Content[packet[c]]}) :
               Begin(c, p)
          /\ SetCons(c, "lookup")
  /\ UNCHANGED <<pcMain, pcProd, bufferLock, complete, countVars, fileVars, queueVars>>

\* firstIndex % 32 == 0; nobody knows the firstIndex of a packet not popped.
AlignedOf(e) == IF e = NoPacket THEN BOOLEAN ELSE {(e[3] - 1) % 32 = 0}

ConsInLookup(c) ==
  /\ pcCons[c] = "lookup"
  /\ LookupStep(c) \/ \E aligned \in AlignedOf(packet[c]) : Decide(c, aligned)
  /\ UNCHANGED <<threadVars, bufferLock, complete, countVars, fileVars, queueVars>>

ConsSum(c) ==
  /\ pcCons[c] = "lookup"
  /\ Sum(c)
  /\ processed' = processed \cup ({packet[c]} \ {NoPacket})
  /\ packet' = [packet EXCEPT ![c] = NoPacket]
  /\ SetCons(c, "test")
  /\ UNCHANGED <<pcMain, pcProd, bufferLock, complete, countVars, fileVars, buffer,
                 pushed, abandoned>>

\* A null pointer in the table, or a length that was never assigned.
Crash(c) ==
  /\ \/ pcCons[c] = "lookup" /\ NullDereference(c)
     \/ pcCons[c] = "retnval" /\ packet[c] = NoPacket /\ complete # 1
  /\ pcMain' = "killed"
  /\ UNCHANGED <<pcProd, pcCons, bufferLock, complete, countVars, fileVars, queueVars,
                 tableVars>>

SpuriousCons(c) == pcCons[c] = "waiting" /\ ConsGoes(c, "awake")

-----------------------------------------------------------------------------
(* main: there is no signal and no broadcast when the producer is done.    *)

MainOpen ==
  /\ pcMain = "open"
  /\ file <= Len(Files)
  /\ buffer' = <<>>
  /\ abandoned' = abandoned \cup {buffer[i] : i \in DOMAIN buffer}
  /\ failed' = failed - Len(buffer)
  /\ pcProd' = "start"
  /\ pcCons' = [c \in Consumers |-> "test"]
  /\ pcMain' = "join"
  /\ UNCHANGED <<bufferLock, complete, count, fileVars, packet, pushed,
                 processed, tableVars>>

MainJoin ==
  /\ pcMain = "join"
  /\ pcProd = "done"
  /\ \A c \in Consumers : pcCons[c] = "done"
  /\ file' = file + 1
  /\ rec' = 0
  /\ win' = 1
  /\ pcMain' = "open"
  /\ UNCHANGED <<pcProd, pcCons, bufferLock, complete, countVars, queueVars, tableVars>>

Init ==
  /\ pcMain = "open"
  /\ pcProd = "done"
  /\ pcCons = [c \in Consumers |-> "done"]
  /\ bufferLock = Free
  /\ count = 0 /\ complete = 0 /\ failed = 0
  /\ buffer = <<>>
  /\ file = 1 /\ rec = 0 /\ win = 1
  /\ packet = [c \in Consumers |-> NoPacket]
  /\ pushed = {} /\ processed = {} /\ abandoned = {}
  /\ TableInit

ProducerStep ==
  \/ ProdStart \/ ProdWait \/ ProdAwake \/ ProdRead \/ ProdLock
  \/ ProdPush \/ ProdUnlock \/ ProdCount \/ ProdSignal \/ ProdFinish

ConsumerStep(c) ==
  \/ ConsTest(c) \/ ConsTestBoth(c) \/ ConsWhile(c) \/ ConsWait(c) \/ ConsAwake(c)
  \/ ConsLock(c) \/ ConsPop(c) \/ ConsUnlock(c) \/ ConsCount(c) \/ ConsLookup(c)
  \/ ConsInLookup(c) \/ ConsSum(c) \/ SpuriousCons(c) \/ Crash(c)

Next ==
  /\ pcMain # "killed"
  /\ \/ ProducerStep
     \/ MainOpen \/ MainJoin
     \/ \E c \in Consumers : ConsumerStep(c)

Spec == Init /\ [][Next]_vars

-----------------------------------------------------------------------------
(* Properties.                                                             *)

\* count is never corrected after a pop that failed, nor when main discards
\* the queue of the file before: apart from operations in progress it is off
\* by the pops that failed, less the windows discarded.
CountDrifts ==
  count = Len(buffer) - failed
            - (IF pcProd \in {"unlock", "count"} THEN 1 ELSE 0)
            + Cardinality({c \in Consumers : pcCons[c] \in {"unlock", "count"}
                                               /\ packet[c] # NoPacket})

Held == {packet[c] : c \in Consumers} \ {NoPacket}

\* bufferLock excludes nobody once a consumer has waited, but each window
\* pushed is still in one place: in the queue, with one consumer, looked up,
\* or discarded with the queue of its file.
Delivery ==
  LET queued == {buffer[i] : i \in DOMAIN buffer}
      holders == {c \in Consumers : packet[c] # NoPacket}
  IN  /\ queued \cup Held \cup processed \cup abandoned = pushed
      /\ Len(buffer) + Cardinality(holders) + Cardinality(processed)
           + Cardinality(abandoned) = Cardinality(pushed)
=============================================================================
