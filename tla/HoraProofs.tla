----------------------------- MODULE HoraProofs -----------------------------
(***************************************************************************)
(* Proofs about ProdConHora: what its mutex keeps until the producer first *)
(* waits for room, and what the queue keeps even after that.  For every    *)
(* set of consumers, every limit of the buffer and every bound.            *)
(***************************************************************************)
EXTENDS ProdConHora, FiniteSetTheorems, SequenceTheorems, TLAPS

Threads == Consumers \cup {Producer}

-----------------------------------------------------------------------------
(* The inductive invariant.                                                *)

ProducerPoints ==
  {"test", "wait", "asleep", "woken", "lock", "read", "load", "count", "signal",
   "unlock", "finish", "done"}

ConsumerPoints ==
  {"lock", "check", "is count 0", "is complete", "test", "wait", "asleep", "woken", "pop",
   "load", "count", "look", "unlock", "done"}

HoraTypeOK ==
  /\ DOMAIN pc = Threads
  /\ pc[Producer] \in ProducerPoints /\ \A c \in Consumers : pc[c] \in ConsumerPoints
  /\ count \in Int /\ reg \in [Threads -> Int]
  /\ pushed \in 0..Payloads /\ buffer \in Seq(1..Payloads)
  /\ packet \in [Consumers -> (1..Payloads) \cup {NoPacket}]
  /\ waited \in BOOLEAN

\* The payloads in the buffer are the last ones pushed, in order.
InOrder ==
  /\ Len(buffer) <= pushed
  /\ \A i \in DOMAIN buffer : buffer[i] = (pushed - Len(buffer)) + i

Popped(p) == p \in 1..Payloads /\ p <= pushed - Len(buffer)

\* What a consumer has in hand, and what has been looked up, has left the
\* buffer.
HandsAfterPop ==
  /\ \A c \in Consumers : packet[c] # NoPacket =>
       Popped(packet[c]) /\ pc[c] \in {"load", "count", "look"}
  /\ \A p \in processed : Popped(p)

\* Without a wait of the producer the mutex belongs to the thread inside, and
\* what it has read of `count' stays true.
Unbroken ==
  /\ pc[Producer] \notin {"asleep", "woken"}
  /\ \A t \in Threads : Inside(t) => mutex = t
  /\ \A t \in Threads : pc[t] = "count" => reg[t] = count
  /\ pc[Producer] \in {"load", "count"} => count = Len(buffer) - 1
  /\ \A c \in Consumers : pc[c] \in {"load", "count"} => count = Len(buffer) + 1
  /\ (\A t \in Threads : pc[t] \notin {"load", "count"}) => count = Len(buffer)
  /\ \A c \in Consumers : pc[c] = "pop" => count # 0
  /\ \A c \in Consumers : pc[c] \in {"load", "count", "look"} => packet[c] # NoPacket
  /\ ~stale

HoraInv == HoraTypeOK /\ InOrder /\ HandsAfterPop /\ (~waited => Unbroken)

-----------------------------------------------------------------------------
(* Lemmas.                                                                 *)

\* What a signal does to the control points.
LEMMA SignalMoves ==
  ASSUME HoraTypeOK, NEW t \in Threads, NEW point, NEW waiters \in SUBSET Threads,
         pc[t] # "asleep", Signal(t, point, waiters)
  PROVE  /\ DOMAIN pc' = Threads /\ pc'[t] = point
         /\ \A u \in Threads \ {t} :
              \/ pc'[u] = pc[u]
              \/ u \in waiters /\ pc[u] = "asleep" /\ pc'[u] = "woken"
<1> DEFINE asleep == {u \in waiters : pc[u] = "asleep"}
<1>1. CASE asleep = {}
  BY <1>1 DEF Signal, Goto, HoraTypeOK
<1>2. CASE asleep # {}
  <2>1. PICK u \in asleep : pc' = [pc EXCEPT ![t] = point, ![u] = "woken"]
    BY <1>2 DEF Signal
  <2>2. u # t /\ u \in Threads
    OBVIOUS
  <2> QED
    BY <2>1, <2>2 DEF HoraTypeOK
<1> QED
  BY <1>1, <1>2

\* One thread moves; nobody else does, except to wake up.
Moves(t, point) ==
  /\ DOMAIN pc' = Threads /\ pc'[t] = point
  /\ \A u \in Threads \ {t} : pc'[u] = pc[u] \/ (pc[u] = "asleep" /\ pc'[u] = "woken")

\* The control points stay those of the two functions.
LEMMA PointsStay ==
  ASSUME HoraTypeOK, NEW t \in Threads, NEW point, Moves(t, point),
         t = Producer => point \in ProducerPoints,
         t \in Consumers => point \in ConsumerPoints
  PROVE  /\ DOMAIN pc' = Threads
         /\ pc'[Producer] \in ProducerPoints /\ \A c \in Consumers : pc'[c] \in ConsumerPoints
BY DEF HoraTypeOK, Moves, Threads, ProducerPoints, ConsumerPoints

\* A step that leaves the queue and the count alone.
LEMMA QuietKeeps ==
  ASSUME HoraInv, NEW t \in Threads, NEW point, Moves(t, point),
         t = Producer => point \in ProducerPoints,
         t \in Consumers => point \in ConsumerPoints,
         UNCHANGED <<count, reg, buffer, packet, pushed, processed, stale>>,
         waited' \in BOOLEAN, waited => waited',
         pc[t] \notin {"load", "count", "look"}, point \notin {"load", "count", "look"}
  PROVE  HoraTypeOK' /\ InOrder' /\ HandsAfterPop'
<1> USE DEF HoraInv
<1>1. HoraTypeOK'
  BY PointsStay DEF HoraTypeOK
<1>2. InOrder'
  BY DEF InOrder
<1>3. HandsAfterPop'
  BY DEF HandsAfterPop, Popped, Moves, Threads, HoraTypeOK
<1> QED
  BY <1>1, <1>2, <1>3

\* And what the mutex keeps, if the thread gets it on the way in and frees it
\* on the way out.
LEMMA UnbrokenKept ==
  ASSUME HoraInv, ~waited, NEW t \in Threads, NEW point, Moves(t, point),
         t = Producer => point \in ProducerPoints \ {"asleep", "woken"},
         t \in Consumers => point \in ConsumerPoints,
         UNCHANGED <<count, reg, buffer, packet, stale>>,
         pc[t] \notin {"load", "count", "look"}, point \notin {"load", "count", "look"},
         point = "pop" => count # 0,
         \/ Inside(t) /\ mutex' \in {mutex, Free} /\ (Inside(t)' => mutex' = mutex)
         \/ mutex = Free /\ mutex' = t
         \/ mutex' = mutex /\ ~Inside(t)'
  PROVE  Unbroken'
<1> USE DEF HoraInv
<1>1. pc'[Producer] \notin {"asleep", "woken"}
  BY DEF Unbroken, Moves, Threads, ProducerPoints
<1>2. \A u \in Threads \ {t} : (Inside(u)' => Inside(u)) /\ (pc'[u] # pc[u] => ~Inside(u)')
  BY HoraAssumption DEF Inside, Moves, Threads
<1>3. \A u \in Threads : Inside(u)' => mutex' = u
  BY <1>2, HoraAssumption DEF Unbroken, Threads
<1>4. \A u \in Threads : /\ pc'[u] = "count" <=> pc[u] = "count"
                         /\ pc'[u] = "load" <=> pc[u] = "load"
  BY DEF Moves
<1>5. \A c \in Consumers : /\ pc'[c] = "pop" => pc[c] = "pop" \/ c = t
                           /\ pc'[c] \in {"load", "count", "look"} => pc[c] \in {"load", "count", "look"}
  BY DEF Moves, Threads
<1>6. \A u \in Threads : pc'[u] = "count" => reg'[u] = count'
  BY <1>4 DEF Unbroken
<1>7. /\ pc'[Producer] \in {"load", "count"} => count' = Len(buffer') - 1
      /\ \A c \in Consumers : pc'[c] \in {"load", "count"} => count' = Len(buffer') + 1
      /\ (\A u \in Threads : pc'[u] \notin {"load", "count"}) => count' = Len(buffer')
  BY <1>4 DEF Unbroken, Threads
<1>8. /\ \A c \in Consumers : pc'[c] = "pop" => count' # 0
      /\ \A c \in Consumers : pc'[c] \in {"load", "count", "look"} => packet'[c] # NoPacket
      /\ ~stale'
  BY <1>5 DEF Unbroken, Moves
<1> QED
  BY <1>1, <1>3, <1>6, <1>7, <1>8 DEF Unbroken

-----------------------------------------------------------------------------
(* The actions.                                                            *)

FlowStep == [Flow!Next]_<<buffer, packet, processed>>

\* A step that neither pushes nor pops nor changes the count; unless the
\* producer has waited the thread respects the mutex.
Quiet(t, point) ==
  /\ Goto(t, point)
  /\ UNCHANGED <<count, reg, buffer, packet, pushed, processed, stale>>
  /\ pc[t] \notin {"load", "count", "look"} /\ point \notin {"load", "count", "look"}
  /\ t = Producer => point \in ProducerPoints
  /\ t \in Consumers => point \in ConsumerPoints
  /\ waited' \in BOOLEAN /\ (waited => waited')
  /\ ~waited' =>
       /\ ~(t = Producer /\ point \in {"asleep", "woken"})
       /\ point = "pop" => count # 0
       /\ \/ Inside(t) /\ mutex' \in {mutex, Free} /\ (Inside(t)' => mutex' = mutex)
          \/ mutex = Free /\ mutex' = t
          \/ mutex' = mutex /\ ~Inside(t)'

\* Such a step keeps the invariant.
LEMMA QuietStep ==
  ASSUME HoraInv, NEW t \in Threads, NEW point, Quiet(t, point)
  PROVE  HoraInv' /\ FlowStep
<1>1. Moves(t, point)
  BY DEF Quiet, Goto, Moves, HoraInv, HoraTypeOK
<1>2. HoraTypeOK' /\ InOrder' /\ HandsAfterPop'
  BY <1>1, QuietKeeps DEF Quiet
<1>3. ~waited' => Unbroken'
  BY <1>1, UnbrokenKept DEF Quiet
<1>4. FlowStep
  BY DEF FlowStep, Quiet
<1> QED
  BY <1>2, <1>3, <1>4 DEF HoraInv

\* The producer's steps of this kind.
LEMMA ProducerQuiet ==
  ASSUME HoraInv,
         \/ ProdTest \/ Wait(Producer) \/ Spurious(Producer) \/ Lock(Producer, "woken", "test")
         \/ Lock(Producer, "lock", "read") \/ ProdSkip \/ ProdUnlock \/ ProdFinish
  PROVE  \E point : Quiet(Producer, point)
<1> USE HoraAssumption DEF Threads, HoraInv, HoraTypeOK, Quiet, Goto, Unlock, Inside, historyVars
<1>1. CASE ProdTest
  <2> DEFINE point == IF count = MAXSIZ THEN "wait" ELSE "lock"
  <2>1. Quiet(Producer, point)
    BY <1>1 DEF ProdTest, ProducerPoints
  <2> QED
    BY <2>1
<1>2. CASE Wait(Producer)
  <2>1. Quiet(Producer, "asleep")
    BY <1>2 DEF Wait, ProducerPoints
  <2> QED
    BY <2>1
<1>3. CASE Spurious(Producer)
  <2>1. Quiet(Producer, "woken")
    BY <1>3 DEF Spurious, ProducerPoints, Unbroken
  <2> QED
    BY <2>1
<1>4. CASE Lock(Producer, "woken", "test")
  <2>1. Quiet(Producer, "test")
    BY <1>4 DEF Lock, ProducerPoints, Unbroken
  <2> QED
    BY <2>1
<1>5. CASE Lock(Producer, "lock", "read")
  <2>1. Quiet(Producer, "read")
    BY <1>5 DEF Lock, ProducerPoints
  <2> QED
    BY <2>1
<1>6. CASE ProdSkip
  <2>1. Quiet(Producer, "test")
    BY <1>6 DEF ProdSkip, ProducerPoints
  <2> QED
    BY <2>1
<1>7. CASE ProdUnlock
  <2>1. Quiet(Producer, "test") \/ Quiet(Producer, "finish")
    BY <1>7 DEF ProdUnlock, ProducerPoints
  <2> QED
    BY <2>1
<1>8. CASE ProdFinish
  <2>1. Quiet(Producer, "done")
    BY <1>8 DEF ProdFinish, ProducerPoints
  <2> QED
    BY <2>1
<1> QED
  BY <1>1, <1>2, <1>3, <1>4, <1>5, <1>6, <1>7, <1>8

\* And those of a consumer.
LEMMA ConsumerQuiet ==
  ASSUME HoraInv, NEW c \in Consumers,
         \/ Lock(c, "lock", "check") \/ Lock(c, "woken", "test") \/ Wait(c) \/ Spurious(c)
         \/ ConsCheck(c) \/ ConsCheckOther(c) \/ ConsTest(c) \/ ConsUnlock(c)
  PROVE  \E point : Quiet(c, point)
<1> USE HoraAssumption DEF Threads, HoraInv, HoraTypeOK, Quiet, Goto, Unlock, Inside, historyVars
<1>1. CASE Lock(c, "lock", "check")
  <2>1. Quiet(c, "check")
    BY <1>1 DEF Lock, ConsumerPoints
  <2> QED
    BY <2>1
<1>2. CASE Lock(c, "woken", "test")
  <2>1. Quiet(c, "test")
    BY <1>2 DEF Lock, ConsumerPoints
  <2> QED
    BY <2>1
<1>3. CASE Wait(c)
  <2>1. Quiet(c, "asleep")
    BY <1>3 DEF Wait, ConsumerPoints
  <2> QED
    BY <2>1
<1>4. CASE Spurious(c)
  <2>1. Quiet(c, "woken")
    BY <1>4 DEF Spurious, ConsumerPoints
  <2> QED
    BY <2>1
<1>5. CASE ConsCheck(c)
  <2>1. PICK point \in {"is count 0", "is complete", "test"} : Goto(c, point)
    BY <1>5 DEF ConsCheck
  <2>2. Quiet(c, point)
    BY <1>5, <2>1 DEF ConsCheck, ConsumerPoints
  <2> QED
    BY <2>2
<1>6. CASE ConsCheckOther(c)
  <2>1. Quiet(c, "done") \/ Quiet(c, "test")
    BY <1>6 DEF ConsCheckOther, ConsumerPoints
  <2> QED
    BY <2>1
<1>7. CASE ConsTest(c)
  <2> DEFINE point == IF count = 0 THEN "wait" ELSE "pop"
  <2>1. Quiet(c, point)
    BY <1>7 DEF ConsTest, ConsumerPoints
  <2> QED
    BY <2>1
<1>8. CASE ConsUnlock(c)
  <2>1. Quiet(c, "lock")
    BY <1>8 DEF ConsUnlock, ConsumerPoints
  <2> QED
    BY <2>1
<1> QED
  BY <1>1, <1>2, <1>3, <1>4, <1>5, <1>6, <1>7, <1>8

\* A payload is pushed: it is the next one.
LEMMA ProdPushStep ==
  ASSUME HoraInv, ProdPush
  PROVE  HoraInv' /\ FlowStep
<1> USE HoraAssumption DEF Threads, HoraInv, historyVars
<1>1. /\ pc' = [pc EXCEPT ![Producer] = "load"] /\ reg' = reg
      /\ pc[Producer] = "read" /\ pushed < Payloads /\ pushed' = pushed + 1
      /\ buffer' = Append(buffer, pushed + 1)
      /\ mutex' = mutex /\ count' = count /\ packet' = packet /\ processed' = processed
      /\ waited' = waited /\ stale' = stale
  BY DEF ProdPush, Goto
<1>2. /\ buffer \in Seq(1..Payloads) /\ pushed \in Nat /\ pushed + 1 \in 1..Payloads
      /\ Len(buffer) \in Nat /\ DOMAIN buffer = 1..Len(buffer)
  BY <1>1, LenProperties DEF HoraTypeOK
<1>3. /\ buffer' \in Seq(1..Payloads) /\ Len(buffer') = Len(buffer) + 1
      /\ DOMAIN buffer' = 1..(Len(buffer) + 1)
      /\ \A i \in 1..Len(buffer) : buffer'[i] = buffer[i]
      /\ buffer'[Len(buffer) + 1] = pushed + 1
  BY <1>1, <1>2, AppendProperties, LenProperties
<1>4. \A u \in Threads : pc'[u] = IF u = Producer THEN "load" ELSE pc[u]
  BY <1>1 DEF HoraTypeOK
<1>5. HoraTypeOK'
  BY <1>1, <1>2, <1>3, <1>4 DEF HoraTypeOK, ProducerPoints
<1>6. InOrder'
  BY <1>1, <1>2, <1>3 DEF InOrder
<1>7. HandsAfterPop'
  <2>1. \A p : Popped(p)' <=> Popped(p)
    BY <1>1, <1>2, <1>3 DEF Popped
  <2> QED
    BY <1>1, <1>4, <2>1 DEF HandsAfterPop
<1>8. ASSUME ~waited
      PROVE  Unbroken'
  <2>1. mutex = Producer /\ \A c \in Consumers : ~Inside(c)
    BY <1>1, <1>8 DEF Unbroken, Inside
  <2>2. \A c \in Consumers : pc'[c] \notin {"load", "count", "pop", "look"} /\ ~Inside(c)'
    BY <1>4, <2>1 DEF Inside
  <2>3. count = Len(buffer)
    BY <1>1, <1>8, <2>1 DEF Unbroken, Inside
  <2>4. count' = Len(buffer') - 1
    BY <1>1, <1>2, <1>3, <2>3
  <2> QED
    BY <1>1, <1>4, <1>8, <2>1, <2>2, <2>4 DEF Unbroken
<1>9. Flow!Produce
  <2>1. Flow!IsPrefix(buffer, buffer')
    <3>1. \A i \in 1..Len(buffer) : buffer[i] \in 1..Payloads /\ buffer'[i] \in 1..Payloads
      BY <1>2, <1>3, ElementOfSeq
    <3>2. /\ SubSeq(buffer, 1, Len(buffer)) \in Seq(1..Payloads)
          /\ Len(SubSeq(buffer, 1, Len(buffer))) = Len(buffer)
          /\ \A i \in 1..Len(buffer) : SubSeq(buffer, 1, Len(buffer))[i] = buffer[i]
      BY <1>2, <3>1, SubSeqProperties
    <3>3. /\ SubSeq(buffer', 1, Len(buffer)) \in Seq(1..Payloads)
          /\ Len(SubSeq(buffer', 1, Len(buffer))) = Len(buffer)
          /\ \A i \in 1..Len(buffer) : SubSeq(buffer', 1, Len(buffer))[i] = buffer'[i]
      BY <1>2, <1>3, <3>1, SubSeqProperties
    <3>4. SubSeq(buffer, 1, Len(buffer)) = SubSeq(buffer', 1, Len(buffer))
      BY <1>2, <1>3, <3>2, <3>3, SeqEqual
    <3> QED
      BY <1>2, <1>3, <3>4 DEF Flow!IsPrefix
  <2>2. Flow!IsInjective(buffer')
    <3>1. \A i, j \in DOMAIN buffer' : buffer'[i] = buffer'[j] => i = j
      BY <1>1, <1>2, <1>3, <1>6 DEF InOrder
    <3> QED
      BY <3>1 DEF Flow!IsInjective
  <2>3. (Len(buffer) + 1)..Len(buffer') = {Len(buffer) + 1}
    BY <1>2, <1>3
  <2>4. {buffer'[i] : i \in (Len(buffer) + 1)..Len(buffer')} = {pushed + 1}
    BY <1>3, <2>3
  <2>5. pushed + 1 \notin processed \cup {packet[c] : c \in Consumers}
    <3>1. ~Popped(pushed + 1) /\ pushed + 1 # NoPacket
      BY <1>2 DEF Popped
    <3> QED
      BY <3>1 DEF HandsAfterPop
  <2> QED
    BY <1>1, <1>2, <2>1, <2>2, <2>4, <2>5 DEF Flow!Produce
<1> QED
  BY <1>1, <1>5, <1>6, <1>7, <1>8, <1>9 DEF FlowStep, Flow!Next

\* `count' is read.
LEMMA LoadStep ==
  ASSUME HoraInv, NEW t \in Threads, Load(t)
  PROVE  HoraInv' /\ FlowStep
<1> USE HoraAssumption DEF HoraInv, historyVars
<1>1. /\ pc' = [pc EXCEPT ![t] = "count"] /\ reg' = [reg EXCEPT ![t] = count] /\ pc[t] = "load"
      /\ mutex' = mutex /\ count' = count /\ buffer' = buffer /\ packet' = packet
      /\ pushed' = pushed /\ processed' = processed /\ waited' = waited /\ stale' = stale
  BY DEF Load, Goto
<1>2. /\ DOMAIN pc' = Threads
      /\ \A u \in Threads : pc'[u] = IF u = t THEN "count" ELSE pc[u]
  BY <1>1 DEF HoraTypeOK
<1>3. reg' \in [Threads -> Int] /\ \A u \in Threads : reg'[u] = IF u = t THEN count ELSE reg[u]
  BY <1>1 DEF HoraTypeOK
<1>4. HoraTypeOK'
  BY <1>1, <1>2, <1>3 DEF HoraTypeOK, ProducerPoints, ConsumerPoints, Threads
<1>5. InOrder'
  BY <1>1 DEF InOrder
<1>6. HandsAfterPop'
  BY <1>1, <1>2 DEF HandsAfterPop, Popped, Threads
<1>7. ASSUME ~waited
      PROVE  Unbroken'
  <2>1. \A u \in Threads : /\ Inside(u)' <=> Inside(u)
                           /\ pc'[u] \in {"load", "count"} <=> pc[u] \in {"load", "count"}
                           /\ pc'[u] \in {"load", "count", "look"}
                                <=> pc[u] \in {"load", "count", "look"}
                           /\ pc'[u] \in {"pop", "asleep", "woken"} => pc'[u] = pc[u]
    BY <1>1, <1>2 DEF Inside
  <2>2. \A u \in Threads : pc'[u] = "count" => reg'[u] = count'
    BY <1>1, <1>2, <1>3, <1>7 DEF Unbroken
  <2>3. \A u \in Threads : Inside(u)' => mutex' = u
    BY <1>1, <1>7, <2>1 DEF Unbroken
  <2> QED
    BY <1>1, <1>7, <2>1, <2>2, <2>3 DEF Unbroken, Threads
<1>8. FlowStep
  BY <1>1 DEF FlowStep
<1> QED
  BY <1>1, <1>4, <1>5, <1>6, <1>7, <1>8

\* count++.
LEMMA ProdCountStep ==
  ASSUME HoraInv, ProdCount
  PROVE  HoraInv' /\ FlowStep
<1> USE HoraAssumption DEF Threads, HoraInv, historyVars
<1>1. /\ pc' = [pc EXCEPT ![Producer] = "signal"] /\ pc[Producer] = "count"
      /\ count' = reg[Producer] + 1 /\ reg' = reg /\ mutex' = mutex
      /\ buffer' = buffer /\ packet' = packet /\ pushed' = pushed /\ processed' = processed
      /\ waited' = waited /\ stale' = stale
  BY DEF ProdCount, Goto
<1>2. /\ DOMAIN pc' = Threads /\ pc'[Producer] = "signal"
      /\ \A c \in Consumers : pc'[c] = pc[c]
  BY <1>1 DEF HoraTypeOK
<1>3. HoraTypeOK'
  <2>1. count' \in Int
    BY <1>1 DEF HoraTypeOK
  <2>2. pc'[Producer] \in ProducerPoints /\ \A c \in Consumers : pc'[c] \in ConsumerPoints
    BY <1>2 DEF HoraTypeOK, ProducerPoints, ConsumerPoints
  <2> QED
    BY <1>1, <1>2, <2>1, <2>2 DEF HoraTypeOK
<1>4. InOrder'
  BY <1>1 DEF InOrder
<1>5. HandsAfterPop'
  BY <1>1, <1>2 DEF HandsAfterPop, Popped, HoraTypeOK
<1>6. ASSUME ~waited
      PROVE  Unbroken'
  <2>1. mutex = Producer /\ \A c \in Consumers : ~Inside(c)
    BY <1>1, <1>6 DEF Unbroken, Inside
  <2>2. \A c \in Consumers : pc'[c] \notin {"load", "count", "pop", "look"} /\ ~Inside(c)'
    BY <1>2, <2>1 DEF Inside
  <2>3. Len(buffer) \in Nat /\ count = Len(buffer) - 1 /\ reg[Producer] = count
    BY <1>1, <1>6, LenProperties DEF Unbroken, HoraTypeOK
  <2>4. count' = Len(buffer')
    BY <1>1, <2>3
  <2> QED
    BY <1>1, <1>2, <1>6, <2>1, <2>2, <2>4 DEF Unbroken
<1>7. FlowStep
  BY <1>1 DEF FlowStep
<1> QED
  BY <1>1, <1>3, <1>4, <1>5, <1>6, <1>7

\* The signal.
LEMMA ProdSignalStep ==
  ASSUME HoraInv, ProdSignal
  PROVE  HoraInv' /\ FlowStep
<1> USE HoraAssumption DEF Threads, HoraInv, historyVars
<1>1. /\ pc[Producer] = "signal" /\ mutex' = mutex /\ Signal(Producer, "unlock", Consumers)
      /\ UNCHANGED <<count, reg, buffer, packet, pushed, processed, waited, stale>>
  BY DEF ProdSignal
<1>2. Moves(Producer, "unlock")
  BY <1>1, SignalMoves DEF Moves
<1>3. HoraTypeOK' /\ InOrder' /\ HandsAfterPop'
  <2>1. waited' \in BOOLEAN
    BY <1>1 DEF HoraTypeOK
  <2> QED
    BY <1>1, <1>2, <2>1, QuietKeeps DEF ProducerPoints
<1>4. ~waited => Unbroken'
  <2>1. Inside(Producer)
    BY <1>1 DEF Inside
  <2> QED
    BY <1>1, <1>2, <2>1, UnbrokenKept DEF ProducerPoints
<1>5. FlowStep
  BY <1>1 DEF FlowStep
<1> QED
  BY <1>1, <1>3, <1>4, <1>5

\* A pop, of an empty queue too.
LEMMA ConsPopStep ==
  ASSUME HoraInv, NEW c \in Consumers, ConsPop(c)
  PROVE  HoraInv' /\ FlowStep
<1> USE HoraAssumption DEF Threads, HoraInv, historyVars
<1>1. /\ pc' = [pc EXCEPT ![c] = "load"] /\ reg' = reg
      /\ pc[c] = "pop" /\ mutex' = mutex /\ count' = count
      /\ packet' = [packet EXCEPT ![c] = IF buffer = <<>> THEN NoPacket ELSE Head(buffer)]
      /\ buffer' = IF buffer = <<>> THEN <<>> ELSE Tail(buffer)
      /\ pushed' = pushed /\ processed' = processed /\ waited' = waited /\ stale' = stale
  BY DEF ConsPop, Goto
<1>2. /\ buffer \in Seq(1..Payloads) /\ pushed \in Nat
      /\ Len(buffer) \in Nat /\ DOMAIN buffer = 1..Len(buffer)
  BY LenProperties DEF HoraTypeOK
<1>3. \A u \in Threads : pc'[u] = IF u = c THEN "load" ELSE pc[u]
  BY <1>1 DEF HoraTypeOK
<1>4. packet[c] = NoPacket
  BY <1>1 DEF HandsAfterPop
<1>5. reg' \in [Threads -> Int]
  BY <1>1 DEF HoraTypeOK
<1>6. CASE buffer = <<>>
  <2>1. buffer' = buffer /\ packet' = packet
    BY <1>1, <1>4, <1>6 DEF HoraTypeOK
  <2>2. HoraTypeOK'
    BY <1>1, <1>3, <1>5, <2>1 DEF HoraTypeOK, ConsumerPoints
  <2>3. InOrder'
    BY <1>1, <2>1 DEF InOrder
  <2>4. HandsAfterPop'
    BY <1>1, <1>3, <2>1 DEF HandsAfterPop, Popped
  <2>5. waited
    <3>1. Len(buffer) = 0
      BY <1>6
    <3> QED
      BY <1>1, <3>1 DEF Unbroken, Inside
  <2> QED
    BY <1>1, <2>1, <2>2, <2>3, <2>4, <2>5 DEF FlowStep
<1>7. CASE buffer # <<>>
  <2>1. /\ Len(buffer) >= 1 /\ Head(buffer) = buffer[1] /\ buffer' \in Seq(1..Payloads)
        /\ Len(buffer') = Len(buffer) - 1 /\ DOMAIN buffer' = 1..(Len(buffer) - 1)
        /\ \A i \in DOMAIN buffer' : buffer'[i] = buffer[i + 1]
    BY <1>1, <1>2, <1>7, EmptySeq, HeadTailProperties, LenProperties
  <2>2. buffer[1] \in 1..Payloads /\ buffer[1] = pushed - Len(buffer) + 1
    <3>1. 1 \in DOMAIN buffer /\ 1 \in 1..Len(buffer)
      BY <1>2, <2>1
    <3>2. buffer[1] \in 1..Payloads
      BY <1>2, <3>1, ElementOfSeq
    <3> QED
      BY <3>1, <3>2 DEF InOrder
  <2>3. /\ packet' \in [Consumers -> (1..Payloads) \cup {NoPacket}]
        /\ packet'[c] = buffer[1] /\ \A d \in Consumers \ {c} : packet'[d] = packet[d]
    BY <1>1, <1>7, <2>1, <2>2 DEF HoraTypeOK
  <2>4. HoraTypeOK'
    BY <1>1, <1>3, <1>5, <2>1, <2>3 DEF HoraTypeOK, ConsumerPoints
  <2>5. InOrder'
    <3>1. Len(buffer') <= pushed'
      BY <1>1, <1>2, <2>1 DEF InOrder
    <3>2. ASSUME NEW i \in DOMAIN buffer'
          PROVE  buffer'[i] = (pushed' - Len(buffer')) + i
      <4>1. i \in Nat /\ i + 1 \in DOMAIN buffer /\ buffer'[i] = buffer[i + 1]
        BY <1>2, <2>1
      <4>2. buffer[i + 1] = (pushed - Len(buffer)) + (i + 1)
        BY <4>1 DEF InOrder
      <4> QED
        BY <1>1, <1>2, <2>1, <4>1, <4>2
    <3> QED
      BY <3>1, <3>2 DEF InOrder
  <2>6. HandsAfterPop'
    <3>1. pushed' = pushed /\ pushed \in Nat /\ Len(buffer) \in Nat /\ Len(buffer') = Len(buffer) - 1
      BY <1>1, <1>2, <2>1
    <3>2. \A p : Popped(p)' <=> p \in 1..Payloads /\ p <= pushed - (Len(buffer) - 1)
      BY <3>1 DEF Popped
    <3>3. \A p : Popped(p) => Popped(p)'
      BY <3>1, <3>2 DEF Popped
    <3>4. PICK x : x = buffer[1]
      OBVIOUS
    <3>5. Popped(x)' /\ packet'[c] = x
      BY <2>2, <2>3, <3>1, <3>2, <3>4
    <3>6. ASSUME NEW d \in Consumers, packet'[d] # NoPacket
          PROVE  /\ packet'[d] \in 1..Payloads /\ packet'[d] <= pushed' - Len(buffer')
                 /\ pc'[d] \in {"load", "count", "look"}
      <4>1. CASE d = c
        BY <1>3, <3>5, <4>1 DEF Popped
      <4>2. CASE d # c
        <5>1. PICK y : y = packet[d]
          OBVIOUS
        <5>2. Popped(y) /\ packet'[d] = y /\ pc[d] \in {"load", "count", "look"}
          BY <2>3, <3>6, <4>2, <5>1 DEF HandsAfterPop
        <5> QED
          BY <1>3, <3>3, <4>2, <5>2 DEF Popped
      <4> QED
        BY <4>1, <4>2
    <3>7. \A p \in processed' : Popped(p)'
      BY <1>1, <3>3 DEF HandsAfterPop
    <3> QED
      BY <3>6, <3>7 DEF HandsAfterPop, Popped
  <2>7. ASSUME ~waited
        PROVE  Unbroken'
    <3>1. mutex = c /\ \A u \in Threads \ {c} : ~Inside(u)
      BY <1>1, <2>7 DEF Unbroken, Inside
    <3>2. \A u \in Threads \ {c} : pc'[u] \notin {"load", "count", "pop", "look"} /\ ~Inside(u)'
      <4>1. pc[Producer] \notin {"pop", "look"}
        BY DEF HoraTypeOK, ProducerPoints
      <4> QED
        BY <1>3, <3>1, <4>1 DEF Inside
    <3>3. count = Len(buffer)
      BY <1>1, <2>7, <3>1 DEF Unbroken, Inside
    <3>4. count' = Len(buffer') + 1
      BY <1>1, <1>2, <2>1, <3>3
    <3> QED
      BY <1>1, <1>3, <1>5, <2>2, <2>3, <2>7, <3>1, <3>2, <3>4 DEF Unbroken
  <2>8. Flow!Take(c)
    BY <1>1, <1>4, <1>7 DEF Flow!Take
  <2> QED
    BY <1>1, <2>4, <2>5, <2>6, <2>7, <2>8 DEF FlowStep, Flow!Next
<1> QED
  BY <1>6, <1>7

\* count--.
LEMMA ConsCountStep ==
  ASSUME HoraInv, NEW c \in Consumers, ConsCount(c)
  PROVE  HoraInv' /\ FlowStep
<1> USE HoraAssumption DEF Threads, HoraInv, historyVars
<1>1. /\ pc' = [pc EXCEPT ![c] = "look"] /\ pc[c] = "count" /\ count' = reg[c] - 1
      /\ reg' = reg /\ mutex' = mutex /\ buffer' = buffer /\ packet' = packet
      /\ pushed' = pushed /\ processed' = processed /\ waited' = waited /\ stale' = stale
  BY DEF ConsCount, Goto
<1>2. \A u \in Threads : pc'[u] = IF u = c THEN "look" ELSE pc[u]
  BY <1>1 DEF HoraTypeOK
<1>3. HoraTypeOK'
  <2>1. count' \in Int
    BY <1>1 DEF HoraTypeOK
  <2> QED
    BY <1>1, <1>2, <2>1 DEF HoraTypeOK, ConsumerPoints
<1>4. InOrder'
  BY <1>1 DEF InOrder
<1>5. HandsAfterPop'
  BY <1>1, <1>2 DEF HandsAfterPop, Popped
<1>6. ASSUME ~waited
      PROVE  Unbroken'
  <2>1. mutex = c /\ \A u \in Threads \ {c} : ~Inside(u)
    BY <1>1, <1>6 DEF Unbroken, Inside
  <2>2. \A u \in Threads \ {c} : pc'[u] \notin {"load", "count", "pop", "look"} /\ ~Inside(u)'
    <3>1. pc[Producer] \notin {"pop", "look"}
      BY DEF HoraTypeOK, ProducerPoints
    <3> QED
      BY <1>2, <2>1, <3>1 DEF Inside
  <2>3. Len(buffer) \in Nat /\ count = Len(buffer) + 1 /\ reg[c] = count
    BY <1>1, <1>6, LenProperties DEF Unbroken, HoraTypeOK
  <2>4. count' = Len(buffer')
    BY <1>1, <2>3
  <2>5. packet[c] # NoPacket
    BY <1>1, <1>6 DEF Unbroken
  <2> QED
    BY <1>1, <1>2, <1>6, <2>1, <2>2, <2>4, <2>5 DEF Unbroken
<1>7. FlowStep
  BY <1>1 DEF FlowStep
<1> QED
  BY <1>1, <1>3, <1>4, <1>5, <1>6, <1>7

\* A consumer returns.
LEMMA ConsLeaveStep ==
  ASSUME HoraInv, NEW c \in Consumers, ConsLeave(c)
  PROVE  HoraInv' /\ FlowStep
<1> USE HoraAssumption DEF Threads, HoraInv, historyVars
<1>1. /\ pc' = [pc EXCEPT ![c] = "done"] /\ pc[c] = "look" /\ packet[c] = NoPacket
      /\ count' = count /\ reg' = reg /\ buffer' = buffer /\ packet' = packet
      /\ pushed' = pushed /\ processed' = processed /\ waited' = waited /\ stale' = stale
  BY DEF ConsLeave, Goto, Unlock
<1>2. \A u \in Threads : pc'[u] = IF u = c THEN "done" ELSE pc[u]
  BY <1>1 DEF HoraTypeOK
<1>3. HoraTypeOK' /\ InOrder' /\ HandsAfterPop'
  BY <1>1, <1>2 DEF HoraTypeOK, ConsumerPoints, InOrder, HandsAfterPop, Popped
<1>4. waited
  BY <1>1 DEF Unbroken
<1> QED
  BY <1>1, <1>3, <1>4 DEF FlowStep

\* A consumer looks up what it has popped, or what it has not.
LEMMA ConsLookStep ==
  ASSUME HoraInv, NEW c \in Consumers, ConsLook(c)
  PROVE  HoraInv' /\ FlowStep
<1> USE HoraAssumption DEF Threads, HoraInv, historyVars
<1>1. /\ pc[c] = "look" /\ processed' = processed \cup ({packet[c]} \ {NoPacket})
      /\ packet' = [packet EXCEPT ![c] = NoPacket] /\ stale' = (stale \/ packet[c] = NoPacket)
      /\ mutex' = mutex /\ count' = count /\ reg' = reg /\ buffer' = buffer
      /\ pushed' = pushed /\ waited' = waited
  BY DEF ConsLook
<1>2. /\ DOMAIN pc' = Threads /\ pc'[c] = "unlock"
      /\ \A u \in Threads \ {c} :
           \/ pc'[u] = pc[u]
           \/ u = Producer /\ pc[u] = "asleep" /\ pc'[u] = "woken"
  <2>1. Signal(c, "unlock", {Producer})
    BY DEF ConsLook
  <2> QED
    BY <1>1, <2>1, SignalMoves
<1>3. /\ packet' \in [Consumers -> (1..Payloads) \cup {NoPacket}] /\ packet'[c] = NoPacket
      /\ \A d \in Consumers \ {c} : packet'[d] = packet[d]
  BY <1>1 DEF HoraTypeOK
<1>4. HoraTypeOK'
  BY <1>1, <1>2, <1>3 DEF HoraTypeOK, ProducerPoints, ConsumerPoints
<1>5. InOrder'
  BY <1>1 DEF InOrder
<1>6. HandsAfterPop'
  <2>1. \A p : Popped(p)' <=> Popped(p)
    BY <1>1 DEF Popped
  <2> QED
    BY <1>1, <1>2, <1>3, <2>1 DEF HandsAfterPop
<1>7. ASSUME ~waited
      PROVE  Unbroken'
  <2>1. mutex = c /\ \A u \in Threads \ {c} : ~Inside(u)
    BY <1>1, <1>7 DEF Unbroken, Inside
  <2>2. \A u \in Threads \ {c} : pc'[u] = pc[u]
    BY <1>2, <1>7 DEF Unbroken
  <2>3. \A u \in Threads \ {c} : pc'[u] \notin {"load", "count", "pop", "look"} /\ ~Inside(u)'
    <3>1. pc[Producer] \notin {"pop", "look"}
      BY DEF HoraTypeOK, ProducerPoints
    <3> QED
      BY <2>1, <2>2, <3>1 DEF Inside
  <2>4. count' = Len(buffer')
    BY <1>1, <1>7, <2>2, <2>3 DEF Unbroken
  <2>5. packet[c] # NoPacket
    BY <1>1, <1>7 DEF Unbroken
  <2>6. pc'[Producer] \notin {"asleep", "woken"}
    BY <1>7, <2>2 DEF Unbroken
  <2>7. ~stale'
    BY <1>1, <1>7, <2>5 DEF Unbroken
  <2> QED
    BY <1>1, <1>2, <2>1, <2>3, <2>4, <2>6, <2>7 DEF Unbroken
<1>8. FlowStep
  <2>1. CASE packet[c] = NoPacket
    BY <1>1, <2>1 DEF FlowStep, HoraTypeOK
  <2>2. CASE packet[c] # NoPacket
    <3>1. Flow!Finish(c)
      BY <1>1, <2>2 DEF Flow!Finish
    <3> QED
      BY <3>1 DEF FlowStep, Flow!Next
  <2> QED
    BY <2>1, <2>2
<1> QED
  BY <1>1, <1>4, <1>5, <1>6, <1>7, <1>8

\* main's join, and a step that changes nothing.
LEMMA StillStep ==
  ASSUME HoraInv,
         UNCHANGED <<pc, mutex, count, complete, reg, buffer, packet, pushed, historyVars>>
  PROVE  HoraInv' /\ FlowStep
<1>1. /\ pc' = pc /\ mutex' = mutex /\ count' = count /\ reg' = reg /\ buffer' = buffer
      /\ packet' = packet /\ pushed' = pushed /\ processed' = processed
      /\ waited' = waited /\ stale' = stale
  BY DEF historyVars
<1> QED
  BY <1>1 DEF HoraInv, HoraTypeOK, InOrder, HandsAfterPop, Popped, Unbroken, Inside, FlowStep

\* Every step.
LEMMA HoraStep == HoraInv /\ [HoraNext]_horaVars => HoraInv' /\ FlowStep
<1> SUFFICES ASSUME HoraInv, [HoraNext]_horaVars
             PROVE  HoraInv' /\ FlowStep
  OBVIOUS
<1> USE DEF Threads
<1>1. ASSUME ProducerStep \/ Spurious(Producer)
      PROVE  HoraInv' /\ FlowStep
  BY <1>1, ProducerQuiet, QuietStep, ProdPushStep, LoadStep, ProdCountStep,
     ProdSignalStep DEF ProducerStep
<1>2. ASSUME NEW c \in Consumers, ConsumerStep(c) \/ Spurious(c)
      PROVE  HoraInv' /\ FlowStep
  BY <1>2, ConsumerQuiet, QuietStep, ConsPopStep, LoadStep, ConsCountStep, ConsLeaveStep, ConsLookStep
     DEF ConsumerStep
<1>3. CASE MainJoin
  BY <1>3, StillStep DEF MainJoin
<1>4. CASE UNCHANGED horaVars
  BY <1>4, StillStep DEF horaVars
<1> QED
  BY <1>1, <1>2, <1>3, <1>4 DEF HoraNext

\* The start.
LEMMA HoraStart == HoraInit => HoraInv
<1> SUFFICES ASSUME HoraInit
             PROVE  HoraInv
  OBVIOUS
<1> USE HoraAssumption DEF HoraInit, Threads
<1>1. HoraTypeOK
  <2>1. buffer \in Seq(1..Payloads)
    BY EmptySeq
  <2> QED
    <3>1. pc = [t \in Threads |-> IF t = Producer THEN "test" ELSE "lock"]
      OBVIOUS
    <3>2. /\ DOMAIN pc = Threads /\ pc[Producer] = "test" /\ \A c \in Consumers : pc[c] = "lock"
      BY <3>1
    <3>3. count \in Int /\ pushed \in 0..Payloads
      OBVIOUS
    <3>4. waited \in BOOLEAN
      OBVIOUS
    <3>5. reg \in [Threads -> Int] /\ packet \in [Consumers -> (1..Payloads) \cup {NoPacket}]
      OBVIOUS
    <3> QED
      BY <2>1, <3>2, <3>3, <3>4, <3>5 DEF HoraTypeOK, ProducerPoints, ConsumerPoints
<1>2. InOrder /\ HandsAfterPop
  BY DEF InOrder, HandsAfterPop
<1>3. Unbroken
  BY DEF Unbroken, Inside
<1> QED
  BY <1>1, <1>2, <1>3 DEF HoraInv

-----------------------------------------------------------------------------
(* The theorems.                                                           *)

\* What holds in every state.
THEOREM HoraInvHolds == HoraSpec => []HoraInv
BY HoraStart, HoraStep, PTL DEF HoraSpec

\* Until the producer has found the buffer full, the mutex excludes, the count
\* is exact, and no consumer looks up a packet that it did not pop.
THEOREM ExactAsLongAsRoom == HoraSpec => []ExactUntilFull
<1>1. HoraInv => ExactUntilFull
  <2> SUFFICES ASSUME HoraInv, ~waited
               PROVE  ExactUntilFull
    BY DEF ExactUntilFull
  <2> USE HoraAssumption DEF HoraInv, Threads
  <2>1. \A t, u \in Threads : Inside(t) /\ Inside(u) => t = u
    BY DEF Unbroken
  <2>2. \A t \in Threads : pc[t] \in {"load", "count"} => Inside(t)
    BY DEF Inside
  <2> DEFINE C == Uncounted \cap Consumers
             P == Uncounted \cap {Producer}
  <2>3. Cardinality({}) = 0 /\ \A x : Cardinality({x}) = 1
    BY FS_EmptySet, FS_Singleton
  <2>4. Len(buffer) \in Nat
    BY LenProperties DEF HoraTypeOK
  <2>5. CASE pc[Producer] \in {"load", "count"}
    <3>1. P = {Producer} /\ C = {}
      BY <2>1, <2>2, <2>5 DEF Uncounted
    <3>2. Cardinality(P) = 1 /\ Cardinality(C) = 0
      BY <2>3, <3>1
    <3>3. count = Len(buffer) - 1
      BY <2>5 DEF Unbroken
    <3> HIDE DEF C, P
    <3>4. count = Len(buffer) + Cardinality(C) - Cardinality(P)
      BY <2>4, <3>2, <3>3
    <3> QED
      BY <2>1, <3>4 DEF ExactUntilFull, Unbroken, C, P
  <2>6. ASSUME NEW c \in Consumers, pc[c] \in {"load", "count"}
        PROVE  ExactUntilFull
    <3>1. C = {c} /\ P = {}
      BY <2>1, <2>2, <2>6 DEF Uncounted
    <3>2. Cardinality(C) = 1 /\ Cardinality(P) = 0
      BY <2>3, <3>1
    <3>3. count = Len(buffer) + 1
      BY <2>6 DEF Unbroken
    <3> HIDE DEF C, P
    <3>4. count = Len(buffer) + Cardinality(C) - Cardinality(P)
      BY <2>4, <3>2, <3>3
    <3> QED
      BY <2>1, <3>4 DEF ExactUntilFull, Unbroken, C, P
  <2>7. CASE \A t \in Threads : pc[t] \notin {"load", "count"}
    <3>1. C = {} /\ P = {}
      BY <2>7 DEF Uncounted
    <3>2. Cardinality(C) = 0 /\ Cardinality(P) = 0
      BY <2>3, <3>1
    <3>3. count = Len(buffer)
      BY <2>7 DEF Unbroken
    <3> HIDE DEF C, P
    <3>4. count = Len(buffer) + Cardinality(C) - Cardinality(P)
      BY <2>4, <3>2, <3>3
    <3> QED
      BY <2>1, <3>4 DEF ExactUntilFull, Unbroken, C, P
  <2> QED
    BY <2>5, <2>6, <2>7
<1> QED
  BY <1>1, HoraInvHolds, PTL

\* Even with the mutex broken, payloads leave the queue in order, each to one
\* consumer, and none is lost.
THEOREM HoraImplementsFlow == HoraSpec => StillFlows
<1>1. HoraInit => Flow!Init
  BY DEF HoraInit, Flow!Init
<1>2. HoraInv /\ [HoraNext]_horaVars => [Flow!Next]_<<buffer, packet, processed>>
  BY HoraStep DEF FlowStep
<1> QED
  BY <1>1, <1>2, HoraInvHolds, PTL DEF HoraSpec, StillFlows, Flow!Spec, Flow!flowVars
=============================================================================
