--------------------------- MODULE PipelineProofs ---------------------------
(***************************************************************************)
(* Proofs about Pipeline, for every set of consumers, every input and      *)
(* every size of the buffer: first who holds the lock and what the counter *)
(* says, then where each entry is, and that the pipeline implements        *)
(* PacketFlow.                                                             *)
(***************************************************************************)
EXTENDS Pipeline, SequenceTheorems, FiniteSetTheorems, TLAPS

(* The input.                                                              *)

\* A window of a record of a file is an entry.
LEMMA EntryIntro ==
  ASSUME NEW f \in DOMAIN Files, NEW r \in DOMAIN Files[f], NEW w \in 1..Files[f][r]
  PROVE  <<f, r, w>> \in Entry
BY DEF Entry

\* What a record puts in the buffer is a sequence of entries.
LEMMA BatchType ==
  ASSUME NEW f \in DOMAIN Files, NEW r \in DOMAIN Files[f]
  PROVE  /\ Batch(f, r) \in Seq(Entry)
         /\ Len(Batch(f, r)) = Files[f][r]
<1>1. Files[f][r] \in Nat
  BY FilesAssumption
<1>2. \A w \in 1..Files[f][r] : <<f, r, w>> \in Entry
  BY EntryIntro
<1>3. Batch(f, r) \in [1..Files[f][r] -> Entry]
  BY <1>2 DEF Batch
<1> QED
  BY <1>1, <1>3, SeqDef DEF Batch

\* The types of the file and of its number of records.
LEMMA RecordsType ==
  ASSUME file \in DOMAIN Files
  PROVE  /\ Records \in Nat
         /\ Files[file] \in Seq(Nat)
         /\ DOMAIN Files[file] = 1..Records
BY FilesAssumption DEF Records

-----------------------------------------------------------------------------
(* The initial states.                                                     *)

\* Before anything has run nobody holds a lock or a packet.
LEMMA InvInit == Init => Inv
<1> SUFFICES ASSUME Init PROVE Inv
  OBVIOUS
<1>1. TypeOK
  BY FilesAssumption, EmptySeq
     DEF Init, TypeOK, MainControl, ProdControl, ConsControl, Records
<1>2. LockOwned
  BY ThreadsAssumption DEF Init, LockOwned, InSection
<1>3. CountExact
  BY DEF Init, CountExact
<1>4. CountWhileLocked /\ NoEmptyPop /\ MainOrder
  BY DEF Init, CountWhileLocked, NoEmptyPop, MainOrder
<1> QED
  BY <1>1, <1>2, <1>3, <1>4 DEF Inv

-----------------------------------------------------------------------------
(* What waking consumers and moving one consumer do to the control points. *)

\* A step that at most wakes consumers.
OnlyWakes ==
  /\ pcCons' \in [Consumers -> ConsControl]
  /\ \A c \in Consumers :
       \/ pcCons'[c] = pcCons[c]
       \/ pcCons[c] = "waiting" /\ pcCons'[c] = "lock"

\* A signal wakes at most one waiting consumer and changes nothing else.
LEMMA SignalOnlyWakes ==
  ASSUME TypeOK, SignalFill
  PROVE  OnlyWakes
BY DEF TypeOK, SignalFill, Waiting, OnlyWakes, ConsControl

\* A broadcast wakes waiting consumers and changes nothing else.
LEMMA BroadcastOnlyWakes ==
  ASSUME TypeOK, BroadcastFill
  PROVE  OnlyWakes
BY DEF TypeOK, BroadcastFill, Waiting, OnlyWakes, ConsControl

\* A consumer that moves leaves the others where they are.
LEMMA SetConsEffect ==
  ASSUME TypeOK, NEW c \in Consumers, NEW pc \in ConsControl, SetCons(c, pc)
  PROVE  /\ pcCons' \in [Consumers -> ConsControl]
         /\ pcCons'[c] = pc
         /\ \A d \in Consumers \ {c} : pcCons'[d] = pcCons[d]
BY DEF TypeOK, SetCons

-----------------------------------------------------------------------------
(* Each conjunct of the inductive invariant is preserved by every step.    *)

\* Types are preserved.  The counter stays natural because a consumer that
\* counts an entry out has popped it (CountExact), and what goes through the
\* cache is an entry because its consumer has popped one (NoEmptyPop).
LEMMA TypeStep ==
  ASSUME Inv, [Next]_vars
  PROVE  TypeOK'
<1> USE DEF Inv, MainControl, ProdControl
<1>1. CASE ProdRead
  <2>1. file \in DOMAIN Files /\ Records \in Nat
    BY <1>1, FilesAssumption, RecordsType DEF ProdRead, MainOrder, TypeOK
  <2> QED
    BY <1>1, <2>1 DEF ProdRead, TypeOK, Records, bufferVars, workVars
<1>2. CASE ProdLock
  BY <1>2 DEF ProdLock, Lock, TypeOK, Records, bufferVars, fileVars, workVars
<1>3. CASE ProdWait
  BY <1>3 DEF ProdWait, Unlock, TypeOK, Records, bufferVars, fileVars, workVars
<1>4. CASE ProdPush
  <2>1. file \in DOMAIN Files /\ rec \in DOMAIN Files[file]
    BY <1>4, FilesAssumption, RecordsType DEF ProdPush, MainOrder, TypeOK, Records
  <2>2. /\ Batch(file, rec) \in Seq(Entry)
        /\ Len(Batch(file, rec)) \in Nat
    BY <2>1, BatchType
  <2>3. buffer' \in Seq(Entry) /\ count' \in Nat
    BY <1>4, <2>2 DEF ProdPush, PushAll, TypeOK
  <2>4. pcCons' \in [Consumers -> ConsControl]
    BY <1>4, SignalOnlyWakes DEF ProdPush, OnlyWakes
  <2> QED
    BY <1>4, <2>3, <2>4 DEF ProdPush, Unlock, TypeOK, Records, fileVars, workVars
<1>5. CASE ProdFinish
  BY <1>5 DEF ProdFinish, TypeOK, Records, bufferVars, fileVars, workVars
<1>6. ASSUME NEW c \in Consumers, ConsumerStep(c) \/ SpuriousCons(c)
      PROVE  TypeOK'
  <2>1. CASE ConsLock(c)
    BY <2>1 DEF ConsLock, Lock, SetCons, TypeOK, ConsControl, Records, bufferVars, fileVars, workVars
  <2>2. CASE ConsCheck(c)
    BY <2>2 DEF ConsCheck, Unlock, SetCons, TypeOK, ConsControl, Records, bufferVars, fileVars, workVars
  <2>3. CASE ConsWait(c)
    BY <2>3 DEF ConsWait, Unlock, SetCons, TypeOK, ConsControl, Records, bufferVars, fileVars, workVars
  <2>4. CASE ConsPop(c)
    <3>1. buffer # <<>>
      BY <2>4 DEF ConsPop, NoEmptyPop
    <3>2. Head(buffer) \in Entry /\ Tail(buffer) \in Seq(Entry)
      BY <3>1, HeadTailProperties DEF TypeOK
    <3> QED
      BY <2>4, <3>1, <3>2
         DEF ConsPop, queue_pop, SetCons, TypeOK, ConsControl, Records, fileVars
  <2>5. CASE ConsCount(c)
    <3>1. count = Len(buffer) + 1
      BY <2>5 DEF ConsCount, CountExact
    <3> QED
      BY <2>5, <3>1
         DEF ConsCount, Unlock, SetCons, TypeOK, ConsControl, Records, fileVars, workVars
  <2>6. CASE ConsProcess(c)
    BY <2>6 DEF ConsProcess, SetCons, TypeOK, NoEmptyPop, ConsControl, Records, bufferVars, fileVars
  <2>7. CASE SpuriousCons(c)
    BY <2>7 DEF SpuriousCons, SetCons, TypeOK, ConsControl, Records, bufferVars, fileVars, workVars
  <2> QED
    BY <1>6, <2>1, <2>2, <2>3, <2>4, <2>5, <2>6, <2>7 DEF ConsumerStep
<1>7. CASE MainOpen
  BY <1>7, EmptySeq DEF MainOpen, TypeOK, ConsControl, Records, fileVars, workVars
<1>8. CASE MainJoinProd
  BY <1>8 DEF MainJoinProd, TypeOK, Records, bufferVars, fileVars, workVars
<1>9. CASE MainSignal
  BY <1>9, SignalOnlyWakes
     DEF MainSignal, OnlyWakes, TypeOK, Records, bufferVars, fileVars, workVars
<1>10. CASE MainDrained
  BY <1>10 DEF MainDrained, TypeOK, Records, bufferVars, fileVars, workVars
<1>11. CASE MainBroadcast
  BY <1>11, BroadcastOnlyWakes
     DEF MainBroadcast, OnlyWakes, TypeOK, Records, bufferVars, fileVars, workVars
<1>12. CASE MainJoinCons
  <2>1. file <= Len(Files)
    BY <1>12 DEF MainJoinCons, MainOrder
  <2> QED
    BY <1>12, <2>1, FilesAssumption
       DEF MainJoinCons, TypeOK, Records, bufferVars, workVars
<1>13. CASE MainReport
  BY <1>13 DEF MainReport, TypeOK, Records, bufferVars, fileVars, workVars
<1>14. CASE SpuriousProd
  BY <1>14 DEF SpuriousProd, TypeOK, Records, bufferVars, fileVars, workVars
<1>15. CASE UNCHANGED vars
  BY <1>15 DEF vars, threadVars, TypeOK, Records, bufferVars, fileVars, workVars
<1> QED
  BY <1>1, <1>2, <1>3, <1>4, <1>5, <1>6, <1>7, <1>8, <1>9, <1>10, <1>11, <1>12,
     <1>13, <1>14, <1>15
     DEF Next, ProducerStep, MainStep, Terminated

\* Ownership of the mutex follows the control points: a thread inside a
\* critical section owns countlock, and only such a thread does.
LEMMA LockStep ==
  ASSUME Inv, [Next]_vars
  PROVE  LockOwned'
<1> USE ThreadsAssumption DEF Inv, LockOwned, InSection
<1>0. \A c \in Consumers : c # Producer /\ c # Free /\ Producer # Free
  OBVIOUS
<1>1. ASSUME OnlyWakes, UNCHANGED countlock, pcProd' = "push" <=> pcProd = "push"
      PROVE  LockOwned'
  BY <1>1 DEF OnlyWakes
<1>2. CASE ProdRead
  BY <1>2 DEF ProdRead
<1>3. CASE ProdLock
  BY <1>0, <1>3 DEF ProdLock, Lock
<1>4. CASE ProdWait
  BY <1>0, <1>4 DEF ProdWait, Unlock
<1>5. CASE ProdPush
  <2>1. OnlyWakes
    BY <1>5, SignalOnlyWakes DEF ProdPush
  <2> QED
    BY <1>0, <1>5, <2>1 DEF ProdPush, Unlock, OnlyWakes
<1>6. CASE ProdFinish
  BY <1>6 DEF ProdFinish
<1>7. ASSUME NEW c \in Consumers, ConsumerStep(c) \/ SpuriousCons(c)
      PROVE  LockOwned'
  <2> USE <1>0 DEF SetCons, TypeOK
  <2>1. CASE ConsLock(c)
    BY <2>1 DEF ConsLock, Lock
  <2>2. CASE ConsCheck(c)
    BY <2>2 DEF ConsCheck, Unlock
  <2>3. CASE ConsWait(c)
    BY <2>3 DEF ConsWait, Unlock
  <2>4. CASE ConsPop(c)
    BY <2>4 DEF ConsPop
  <2>5. CASE ConsCount(c)
    BY <2>5 DEF ConsCount, Unlock
  <2>6. CASE ConsProcess(c)
    BY <2>6 DEF ConsProcess
  <2>7. CASE SpuriousCons(c)
    BY <2>7 DEF SpuriousCons
  <2> QED
    BY <1>7, <2>1, <2>2, <2>3, <2>4, <2>5, <2>6, <2>7 DEF ConsumerStep
<1>8. CASE MainOpen
  BY <1>8 DEF MainOpen, MainOrder
<1>9. CASE MainSignal
  BY <1>1, <1>9, SignalOnlyWakes DEF MainSignal
<1>10. CASE MainBroadcast
  BY <1>1, <1>10, BroadcastOnlyWakes DEF MainBroadcast
<1>11. CASE MainJoinProd \/ MainDrained \/ MainJoinCons \/ MainReport
  BY <1>11 DEF MainJoinProd, MainDrained, MainJoinCons, MainReport
<1>12. CASE SpuriousProd
  BY <1>12 DEF SpuriousProd
<1>13. CASE UNCHANGED vars
  BY <1>13 DEF vars, threadVars
<1> QED
  BY <1>2, <1>3, <1>4, <1>5, <1>6, <1>7, <1>8, <1>9, <1>10, <1>11, <1>12, <1>13
     DEF Next, ProducerStep, MainStep, Terminated

\* The counter follows the queue.  It is updated after the pop it counts, but
\* the mutex keeps every other update out in between (LockOwned).
LEMMA CountStep ==
  ASSUME Inv, [Next]_vars
  PROVE  CountExact'
<1> USE DEF Inv, CountExact
<1>0. ASSUME NEW c \in Consumers, NEW d \in Consumers,
             pcCons[c] \in InSection, pcCons[d] \in InSection
      PROVE  c = d
  BY <1>0 DEF LockOwned
<1>1. ASSUME OnlyWakes, UNCHANGED bufferVars
      PROVE  CountExact'
  BY <1>1 DEF OnlyWakes, bufferVars
<1>2. CASE ProdRead \/ ProdLock \/ ProdWait \/ ProdFinish \/ SpuriousProd
  BY <1>2 DEF ProdRead, ProdLock, ProdWait, ProdFinish, SpuriousProd, bufferVars
<1>3. CASE ProdPush
  <2>1. OnlyWakes
    BY <1>3, SignalOnlyWakes DEF ProdPush
  <2>2. file \in DOMAIN Files /\ rec \in DOMAIN Files[file]
    BY <1>3, FilesAssumption, RecordsType
       DEF ProdPush, MainOrder, TypeOK, Records, MainControl
  <2>3. Batch(file, rec) \in Seq(Entry)
    BY <2>2, BatchType
  <2>4. Len(buffer \o Batch(file, rec)) = Len(buffer) + Len(Batch(file, rec))
    BY <2>3, ConcatProperties DEF TypeOK
  <2>5. \A c \in Consumers : pcCons[c] # "popped"
    BY <1>3, ThreadsAssumption DEF ProdPush, Unlock, LockOwned, InSection
  <2>6. \A c \in Consumers : pcCons'[c] # "popped"
    BY <2>1, <2>5 DEF OnlyWakes
  <2>7. Len(buffer) \in Nat /\ Len(Batch(file, rec)) \in Nat
    BY <2>3 DEF TypeOK
  <2> QED
    BY <1>3, <2>4, <2>5, <2>6, <2>7 DEF ProdPush, PushAll
<1>4. ASSUME NEW c \in Consumers, ConsumerStep(c) \/ SpuriousCons(c)
      PROVE  CountExact'
  <2> USE DEF SetCons, TypeOK, bufferVars
  <2>1. CASE ConsLock(c) \/ ConsWait(c) \/ ConsProcess(c) \/ SpuriousCons(c)
    BY <2>1 DEF ConsLock, ConsWait, ConsProcess, SpuriousCons
  <2>2. CASE ConsCheck(c)
    BY <2>2 DEF ConsCheck
  <2>3. CASE ConsPop(c)
    <3>1. buffer # <<>> /\ pcCons[c] = "pop"
      BY <2>3 DEF ConsPop, NoEmptyPop
    <3>2. Len(Tail(buffer)) = Len(buffer) - 1 /\ Len(buffer) \in Nat
      BY <3>1, HeadTailProperties
    <3>3. \A d \in Consumers : pcCons[d] # "popped"
      BY <1>0, <3>1 DEF InSection
    <3>4. count = Len(buffer) /\ pcCons'[c] = "popped"
      BY <2>3, <3>3 DEF ConsPop
    <3> QED
      BY <2>3, <3>1, <3>2, <3>4 DEF ConsPop, queue_pop
  <2>4. CASE ConsCount(c)
    <3>1. \A d \in Consumers \ {c} : pcCons[d] # "popped"
      BY <1>0, <2>4 DEF ConsCount, InSection
    <3>2. \A d \in Consumers : pcCons'[d] # "popped"
      BY <2>4, <3>1 DEF ConsCount
    <3>3. count = Len(buffer) + 1 /\ Len(buffer) \in Nat
      BY <2>4 DEF ConsCount
    <3> QED
      BY <2>4, <3>2, <3>3 DEF ConsCount
  <2> QED
    BY <1>4, <2>1, <2>2, <2>3, <2>4 DEF ConsumerStep
<1>5. CASE MainOpen
  <2>1. /\ \A c \in Consumers : pcCons'[c] # "popped"
        /\ count = 0
    BY <1>5 DEF MainOpen, MainOrder
  <2> QED
    BY <1>5, <2>1 DEF MainOpen
<1>6. CASE MainSignal
  BY <1>1, <1>6, SignalOnlyWakes DEF MainSignal
<1>7. CASE MainBroadcast
  BY <1>1, <1>7, BroadcastOnlyWakes DEF MainBroadcast
<1>8. CASE MainJoinProd \/ MainDrained \/ MainJoinCons \/ MainReport
  BY <1>8 DEF MainJoinProd, MainDrained, MainJoinCons, MainReport, bufferVars
<1>9. CASE UNCHANGED vars
  BY <1>9 DEF vars, threadVars, bufferVars
<1> QED
  BY <1>2, <1>3, <1>4, <1>5, <1>6, <1>7, <1>8, <1>9
     DEF Next, ProducerStep, MainStep, Terminated

\* While a consumer is about to pop the counter is not zero, and while it is
\* about to wait the counter is zero: the counter it has tested cannot change
\* until it leaves its critical section.
LEMMA CountWhileLockedStep ==
  ASSUME Inv, [Next]_vars
  PROVE  CountWhileLocked'
<1> USE DEF Inv, CountWhileLocked
<1>0. ASSUME NEW c \in Consumers, NEW d \in Consumers,
             pcCons[c] \in InSection, pcCons[d] \in InSection
      PROVE  c = d
  BY <1>0 DEF LockOwned
<1>1. ASSUME OnlyWakes, UNCHANGED count
      PROVE  CountWhileLocked'
  BY <1>1 DEF OnlyWakes
<1>2. CASE ProdRead \/ ProdLock \/ ProdWait \/ ProdFinish \/ SpuriousProd
  BY <1>2 DEF ProdRead, ProdLock, ProdWait, ProdFinish, SpuriousProd, bufferVars
<1>3. CASE ProdPush
  <2>1. OnlyWakes
    BY <1>3, SignalOnlyWakes DEF ProdPush
  <2>2. \A c \in Consumers : pcCons[c] \notin {"pop", "wait"}
    BY <1>3, ThreadsAssumption DEF ProdPush, Unlock, LockOwned, InSection
  <2> QED
    BY <2>1, <2>2 DEF OnlyWakes
<1>4. ASSUME NEW c \in Consumers, ConsumerStep(c) \/ SpuriousCons(c)
      PROVE  CountWhileLocked'
  <2> USE DEF SetCons, TypeOK, bufferVars
  <2>1. CASE ConsLock(c) \/ ConsWait(c) \/ ConsPop(c) \/ ConsProcess(c) \/ SpuriousCons(c)
    BY <2>1 DEF ConsLock, ConsWait, ConsPop, ConsProcess, SpuriousCons
  <2>2. CASE ConsCheck(c)
    BY <2>2 DEF ConsCheck
  <2>3. CASE ConsCount(c)
    <3>1. \A d \in Consumers \ {c} : pcCons[d] \notin {"pop", "wait"}
      BY <1>0, <2>3 DEF ConsCount, InSection
    <3> QED
      BY <2>3, <3>1 DEF ConsCount
  <2> QED
    BY <1>4, <2>1, <2>2, <2>3 DEF ConsumerStep
<1>5. CASE MainOpen
  BY <1>5 DEF MainOpen
<1>6. CASE MainSignal
  BY <1>1, <1>6, SignalOnlyWakes DEF MainSignal, bufferVars
<1>7. CASE MainBroadcast
  BY <1>1, <1>7, BroadcastOnlyWakes DEF MainBroadcast, bufferVars
<1>8. CASE MainJoinProd \/ MainDrained \/ MainJoinCons \/ MainReport
  BY <1>8 DEF MainJoinProd, MainDrained, MainJoinCons, MainReport, bufferVars
<1>9. CASE UNCHANGED vars
  BY <1>9 DEF vars, threadVars, bufferVars
<1> QED
  BY <1>2, <1>3, <1>4, <1>5, <1>6, <1>7, <1>8, <1>9
     DEF Next, ProducerStep, MainStep, Terminated

\* A consumer about to pop finds an entry, and one that has popped holds it.
LEMMA PopStep ==
  ASSUME Inv, [Next]_vars
  PROVE  NoEmptyPop'
<1> USE DEF Inv, NoEmptyPop
<1>0. ASSUME NEW c \in Consumers, NEW d \in Consumers,
             pcCons[c] \in InSection, pcCons[d] \in InSection
      PROVE  c = d
  BY <1>0 DEF LockOwned
<1>1. ASSUME OnlyWakes, UNCHANGED <<buffer, packet>>
      PROVE  NoEmptyPop'
  BY <1>1 DEF OnlyWakes
<1>2. CASE ProdRead \/ ProdLock \/ ProdWait \/ ProdFinish \/ SpuriousProd
  BY <1>2 DEF ProdRead, ProdLock, ProdWait, ProdFinish, SpuriousProd, bufferVars, workVars
<1>3. CASE ProdPush
  <2>1. OnlyWakes
    BY <1>3, SignalOnlyWakes DEF ProdPush
  <2>2. \A c \in Consumers : pcCons[c] # "pop"
    BY <1>3, ThreadsAssumption DEF ProdPush, Unlock, LockOwned, InSection
  <2> QED
    BY <1>3, <2>1, <2>2 DEF OnlyWakes, ProdPush, workVars
<1>4. ASSUME NEW c \in Consumers, ConsumerStep(c) \/ SpuriousCons(c)
      PROVE  NoEmptyPop'
  <2> USE DEF SetCons, TypeOK, bufferVars, workVars
  <2>1. CASE ConsLock(c) \/ ConsWait(c) \/ SpuriousCons(c)
    BY <2>1 DEF ConsLock, ConsWait, SpuriousCons
  <2>2. CASE ConsCheck(c)
    <3>1. \A d \in Consumers : pcCons[d] # "popped"
      BY <1>0, <2>2 DEF ConsCheck, InSection
    <3>2. count = Len(buffer)
      BY <3>1 DEF CountExact
    <3>3. count # 0 => buffer # <<>>
      BY <3>2
    <3> QED
      BY <2>2, <3>3 DEF ConsCheck
  <2>3. CASE ConsPop(c)
    <3>1. buffer # <<>>
      BY <2>3 DEF ConsPop
    <3>2. Head(buffer) # NoPacket
      BY <3>1, HeadTailProperties, NoPacketAssumption
    <3>3. packet'[c] # NoPacket /\ \A d \in Consumers \ {c} : packet'[d] = packet[d]
      BY <2>3, <3>1, <3>2 DEF ConsPop, queue_pop
    <3>4. \A d \in Consumers \ {c} : pcCons[d] # "pop"
      BY <1>0, <2>3 DEF ConsPop, InSection
    <3> QED
      BY <2>3, <3>3, <3>4 DEF ConsPop
  <2>4. CASE ConsCount(c)
    BY <2>4 DEF ConsCount
  <2>5. CASE ConsProcess(c)
    BY <2>5 DEF ConsProcess
  <2> QED
    BY <1>4, <2>1, <2>2, <2>3, <2>4, <2>5 DEF ConsumerStep
<1>5. CASE MainOpen
  BY <1>5 DEF MainOpen
<1>6. CASE MainSignal
  BY <1>1, <1>6, SignalOnlyWakes DEF MainSignal, bufferVars, workVars
<1>7. CASE MainBroadcast
  BY <1>1, <1>7, BroadcastOnlyWakes DEF MainBroadcast, bufferVars, workVars
<1>8. CASE MainJoinProd \/ MainDrained \/ MainJoinCons \/ MainReport
  BY <1>8 DEF MainJoinProd, MainDrained, MainJoinCons, MainReport, bufferVars, workVars
<1>9. CASE UNCHANGED vars
  BY <1>9 DEF vars, threadVars, bufferVars, workVars
<1> QED
  BY <1>2, <1>3, <1>4, <1>5, <1>6, <1>7, <1>8, <1>9
     DEF Next, ProducerStep, MainStep, Terminated

\* The phases of main.  It has seen the counter at zero, without the mutex,
\* after the producer has returned; the counter stays there because nothing
\* is left for a consumer to count out.
LEMMA MainStepInv ==
  ASSUME Inv, [Next]_vars
  PROVE  MainOrder'
<1> USE DEF Inv, MainOrder
<1>1. CASE ProdRead
  BY <1>1 DEF ProdRead, TypeOK, bufferVars
<1>2. CASE ProdLock \/ ProdWait \/ ProdFinish \/ SpuriousProd
  BY <1>2 DEF ProdLock, ProdWait, ProdFinish, SpuriousProd, bufferVars, fileVars
<1>3. CASE ProdPush
  BY <1>3 DEF ProdPush, fileVars
<1>4. ASSUME NEW c \in Consumers, ConsumerStep(c) \/ SpuriousCons(c)
      PROVE  MainOrder'
  <2> USE DEF SetCons, TypeOK, bufferVars, fileVars
  <2>0. pcMain \notin {"open", "done"}
    BY <1>4 DEF ConsumerStep, ConsLock, ConsCheck, ConsWait, ConsPop, ConsCount,
                ConsProcess, SpuriousCons
  <2>1. CASE ConsLock(c) \/ ConsCheck(c) \/ ConsWait(c) \/ ConsPop(c) \/ ConsProcess(c)
             \/ SpuriousCons(c)
    BY <2>0, <2>1 DEF ConsLock, ConsCheck, ConsWait, ConsPop, ConsProcess, SpuriousCons
  <2>2. CASE ConsCount(c)
    <3>1. count = Len(buffer) + 1
      BY <2>2 DEF ConsCount, CountExact
    <3>2. count # 0
      BY <3>1
    <3> QED
      BY <2>0, <2>2, <3>2 DEF ConsCount
  <2> QED
    BY <1>4, <2>1, <2>2 DEF ConsumerStep
<1>5. CASE MainOpen
  BY <1>5 DEF MainOpen, fileVars
<1>6. CASE MainSignal
  BY <1>6 DEF MainSignal, bufferVars, fileVars
<1>7. CASE MainBroadcast
  BY <1>7 DEF MainBroadcast, bufferVars, fileVars
<1>8. CASE MainDrained
  BY <1>8 DEF MainDrained, TypeOK, bufferVars, fileVars
<1>9. CASE MainJoinProd \/ MainJoinCons \/ MainReport
  BY <1>9 DEF MainJoinProd, MainJoinCons, MainReport, bufferVars, fileVars
<1>10. CASE UNCHANGED vars
  BY <1>10 DEF vars, threadVars, bufferVars, fileVars
<1> QED
  BY <1>1, <1>2, <1>3, <1>4, <1>5, <1>6, <1>7, <1>8, <1>9, <1>10
     DEF Next, ProducerStep, MainStep, Terminated

-----------------------------------------------------------------------------
(* The invariants.                                                         *)

\* The conjunction is inductive, hence an invariant of the threads.
THEOREM InvHolds == Spec => []Inv
<1>1. Inv /\ [Next]_vars => Inv'
  BY TypeStep, LockStep, CountStep, CountWhileLockedStep, PopStep, MainStepInv DEF Inv
<1> QED
  BY <1>1, InvInit, PTL DEF Spec

\* Type correctness; the counter in particular never falls below zero.
THEOREM TypeCorrect == Spec => []TypeOK
<1>1. Inv => TypeOK
  BY DEF Inv
<1> QED
  BY <1>1, InvHolds, PTL

\* No consumer ever takes an entry from an empty queue or goes on with a
\* packet it did not get: the test of count is as good as one of the queue.
THEOREM NoConsumerPopsEmpty == Spec => []NoEmptyPop
<1>1. Inv => NoEmptyPop
  BY DEF Inv
<1> QED
  BY <1>1, InvHolds, PTL

\* At most one consumer has popped and not yet counted, and without it the
\* counter is the length of the queue.
THEOREM CountIsLength == Spec => []CountMatchesBuffer
<1>1. Inv => CountMatchesBuffer
  <2> SUFFICES ASSUME Inv PROVE CountMatchesBuffer
    OBVIOUS
  <2>1. CASE \E c \in Consumers : pcCons[c] = "popped"
    <3>1. PICK c \in Consumers : pcCons[c] = "popped"
      BY <2>1
    <3>2. InState("popped") = {c}
      BY <3>1 DEF InState, Inv, LockOwned, InSection
    <3>3. Cardinality(InState("popped")) = 1
      BY <3>2, FS_Singleton
    <3> QED
      BY <2>1, <3>3 DEF CountMatchesBuffer, Inv, CountExact
  <2>2. CASE ~\E c \in Consumers : pcCons[c] = "popped"
    <3>1. InState("popped") = {}
      BY <2>2 DEF InState
    <3>2. Cardinality(InState("popped")) = 0
      BY <3>1, FS_EmptySet
    <3> QED
      BY <2>2, <3>2 DEF CountMatchesBuffer, Inv, CountExact, TypeOK
  <2> QED
    BY <2>1, <2>2
<1> QED
  BY <1>1, InvHolds, PTL

-----------------------------------------------------------------------------
(* No work is stranded.                                                    *)

\* A step that at most wakes consumers, or a signal when the counter rises,
\* keeps somebody awake; a consumer goes to sleep or returns only when the
\* counter is zero, and the mutex keeps it there until the consumer sleeps.
LEMMA StrandedStep ==
  ASSUME Inv, NoStrandedWork, [Next]_vars
  PROVE  NoStrandedWork'
<1> USE DEF Inv, NoStrandedWork, Asleep
<1>1. ASSUME OnlyWakes, UNCHANGED count
      PROVE  NoStrandedWork'
  BY <1>1, SMTT(30) DEF OnlyWakes
<1>2. CASE ProdRead \/ ProdLock \/ ProdWait \/ ProdFinish \/ SpuriousProd
  BY <1>2 DEF ProdRead, ProdLock, ProdWait, ProdFinish, SpuriousProd, bufferVars
<1>3. CASE ProdPush
  <2>1. CASE Waiting = {}
    <3>1. UNCHANGED pcCons
      BY <1>3, <2>1 DEF ProdPush, SignalFill
    <3>2. \A c \in Consumers : pcCons[c] # "waiting"
      BY <2>1 DEF Waiting
    <3> QED
      BY <3>1, <3>2
  <2>2. CASE Waiting # {}
    <3>1. PICK c \in Waiting : pcCons' = [pcCons EXCEPT ![c] = "lock"]
      BY <1>3, <2>2 DEF ProdPush, SignalFill
    <3>2. c \in Consumers /\ pcCons'[c] = "lock"
      BY <3>1 DEF Waiting, TypeOK
    <3> QED
      BY <3>2
  <2> QED
    BY <2>1, <2>2
<1>4. ASSUME NEW c \in Consumers, ConsumerStep(c) \/ SpuriousCons(c)
      PROVE  NoStrandedWork'
  <2> USE DEF SetCons, TypeOK, bufferVars
  <2>1. CASE pcCons'[c] \notin {"waiting", "done"}
    BY <2>1
  <2>2. CASE pcCons'[c] \in {"waiting", "done"}
    <3>1. count' = 0
      BY <1>4, <2>2
         DEF ConsumerStep, ConsLock, ConsCheck, ConsWait, ConsPop, ConsCount,
             ConsProcess, SpuriousCons, CountWhileLocked, NoEmptyPop
    <3> QED
      BY <3>1
  <2> QED
    BY <2>1, <2>2
<1>5. CASE MainOpen
  BY <1>5 DEF MainOpen, MainOrder
<1>6. CASE MainSignal
  BY <1>1, <1>6, SignalOnlyWakes DEF MainSignal, bufferVars
<1>7. CASE MainBroadcast
  BY <1>1, <1>7, BroadcastOnlyWakes DEF MainBroadcast, bufferVars
<1>8. CASE MainJoinProd \/ MainDrained \/ MainJoinCons \/ MainReport
  BY <1>8 DEF MainJoinProd, MainDrained, MainJoinCons, MainReport, bufferVars
<1>9. CASE UNCHANGED vars
  BY <1>9 DEF vars, threadVars, bufferVars
<1> QED
  BY <1>2, <1>3, <1>4, <1>5, <1>6, <1>7, <1>8, <1>9
     DEF Next, ProducerStep, MainStep, Terminated

\* While the buffer has entries some consumer is awake, unless all of them
\* have returned: the one signal for a whole batch of windows is enough, and
\* so is the unlocked signalling of main.
THEOREM NoWorkIsStranded == Spec => []NoStrandedWork
<1>1. Init => NoStrandedWork
  BY DEF Init, NoStrandedWork
<1>2. Inv /\ NoStrandedWork /\ [Next]_vars => NoStrandedWork'
  BY StrandedStep
<1> QED
  BY <1>1, <1>2, InvHolds, PTL DEF Spec

-----------------------------------------------------------------------------
(* The bound of the buffer.                                                *)

CountBounded == OneEntryEach => count <= MAXSIZ

\* The test for equality with MAXSIZ bounds the counter if it grows by one.
LEMMA BoundStep ==
  ASSUME Inv, CountBounded, [Next]_vars
  PROVE  CountBounded'
<1> SUFFICES ASSUME OneEntryEach PROVE count' <= MAXSIZ
  BY DEF CountBounded
<1> USE FilesAssumption DEF Inv, CountBounded
<1>1. CASE ProdPush
  <2>1. file \in DOMAIN Files /\ rec \in DOMAIN Files[file]
    BY <1>1, RecordsType DEF ProdPush, MainOrder, TypeOK, Records, MainControl
  <2>2. Len(Batch(file, rec)) = Files[file][rec] /\ Files[file][rec] \in Nat
    BY <2>1, BatchType
  <2>3. Files[file][rec] <= 1
    BY <2>1 DEF OneEntryEach
  <2> QED
    BY <1>1, <2>2, <2>3 DEF ProdPush, PushAll, Full, TypeOK
<1>2. CASE \E c \in Consumers : ConsCount(c)
  BY <1>2 DEF ConsCount, TypeOK
<1>3. CASE UNCHANGED count
  BY <1>3
<1> QED
  BY <1>1, <1>2, <1>3
     DEF Next, ProducerStep, ConsumerStep, MainStep, Terminated, vars, bufferVars,
         ProdRead, ProdLock, ProdWait, ProdFinish, ConsLock, ConsCheck, ConsWait,
         ConsPop, ConsProcess, MainOpen, MainJoinProd, MainSignal, MainDrained,
         MainBroadcast, MainJoinCons, MainReport, SpuriousProd, SpuriousCons

\* At level 1 the buffer never holds more than MAXSIZ entries.
THEOREM BufferIsBounded == Spec => []BufferBounded
<1>1. Init => CountBounded
  BY FilesAssumption DEF Init, CountBounded
<1>2. Inv /\ CountBounded /\ [Next]_vars => CountBounded'
  BY BoundStep
<1>3. Inv /\ CountBounded => BufferBounded
  BY FilesAssumption DEF Inv, CountBounded, OneEntryEach, BufferBounded, CountExact, TypeOK
<1> QED
  BY <1>1, <1>2, <1>3, InvHolds, PTL DEF Spec

-----------------------------------------------------------------------------
(* Where an entry is.                                                      *)

Buffered(e)  == \E i \in DOMAIN buffer : buffer[i] = e
InHand(e)    == \E c \in Consumers : packet[c] = e
Processed(e) == e \in processed

\* A consumer has something in hand between its pop and its lookup.
HeldWhilePopped ==
  \A c \in Consumers : packet[c] # NoPacket <=> pcCons[c] \in {"popped", "process"}

\* The producer leaves a file when it has read all its records, and main
\* reports when it has opened all files.
AllRead ==
  /\ pcProd = "finish" => rec = Records
  /\ pcProd = "done" /\ pcMain \notin {"open", "done"} => rec = Records
  /\ pcMain = "done" => file > Len(Files)

\* What has been pushed is somewhere, and nothing else is.
Somewhere ==
  \A e \in Entry : e \in Pushed <=> Buffered(e) \/ InHand(e) \/ Processed(e)

\* No entry is in two places, or twice in one.
OnePlace ==
  /\ \A i, j \in DOMAIN buffer : buffer[i] = buffer[j] => i = j
  /\ \A c, d \in Consumers : packet[c] # NoPacket /\ packet[c] = packet[d] => c = d
  /\ \A i \in DOMAIN buffer : ~InHand(buffer[i]) /\ ~Processed(buffer[i])
  /\ \A c \in Consumers : ~Processed(packet[c])

\* Together with Inv this is inductive.
FlowInv ==
  /\ HeldWhilePopped /\ AllRead /\ Somewhere /\ OnePlace
  /\ IsFiniteSet(processed)

-----------------------------------------------------------------------------
(* The entries of the input.                                               *)

\* An entry is a window of a record of a file.
LEMMA EntryShape ==
  ASSUME NEW e \in Entry
  PROVE  /\ e[1] \in DOMAIN Files /\ e[1] \in Nat
         /\ e[2] \in DOMAIN Files[e[1]] /\ e[2] \in Nat \ {0}
         /\ e[3] \in 1..Files[e[1]][e[2]]
         /\ e = <<e[1], e[2], e[3]>>
<1>1. PICK f \in DOMAIN Files :
         \E r \in DOMAIN Files[f] : \E w \in 1..Files[f][r] : e = <<f, r, w>>
  BY DEF Entry
<1>2. PICK r \in DOMAIN Files[f] : \E w \in 1..Files[f][r] : e = <<f, r, w>>
  BY <1>1
<1>3. Files[f] \in Seq(Nat) /\ f \in Nat
  BY FilesAssumption
<1> QED
  BY <1>2, <1>3

\* The windows of a record are different entries, and all that it yields.
LEMMA BatchEntries ==
  ASSUME NEW f \in DOMAIN Files, NEW r \in DOMAIN Files[f]
  PROVE  /\ Batch(f, r) \in Seq(Entry)
         /\ DOMAIN Batch(f, r) = 1..Len(Batch(f, r))
         /\ \A i \in DOMAIN Batch(f, r) : Batch(f, r)[i] = <<f, r, i>>
         /\ \A e \in Entry : (\E i \in DOMAIN Batch(f, r) : Batch(f, r)[i] = e)
                                <=> e[1] = f /\ e[2] = r
<1>1. Batch(f, r) \in Seq(Entry)
  BY BatchType
<1>2. DOMAIN Batch(f, r) = 1..Files[f][r]
  BY DEF Batch
<1>3. \A i \in DOMAIN Batch(f, r) : Batch(f, r)[i] = <<f, r, i>>
  BY DEF Batch
<1>4. ASSUME NEW e \in Entry, e[1] = f, e[2] = r
      PROVE  \E i \in DOMAIN Batch(f, r) : Batch(f, r)[i] = e
  <2>1. e[3] \in 1..Files[f][r] /\ e = <<f, r, e[3]>>
    BY <1>4, EntryShape
  <2> QED
    BY <1>2, <1>3, <2>1
<1>5. ASSUME NEW e \in Entry, NEW i \in DOMAIN Batch(f, r), Batch(f, r)[i] = e
      PROVE  e[1] = f /\ e[2] = r
  BY <1>3, <1>5
<1>6. DOMAIN Batch(f, r) = 1..Len(Batch(f, r))
  BY <1>1, LenProperties
<1> QED
  BY <1>1, <1>3, <1>4, <1>5, <1>6

-----------------------------------------------------------------------------
(* Each part of the invariant is preserved.                                *)

\* Only the pop puts something in a consumer's hand, only the lookup takes it.
LEMMA HeldStep ==
  ASSUME Inv, HeldWhilePopped, [Next]_vars
  PROVE  HeldWhilePopped'
<1> USE DEF Inv, HeldWhilePopped
<1>1. ASSUME OnlyWakes, UNCHANGED packet
      PROVE  HeldWhilePopped'
  BY <1>1 DEF OnlyWakes
<1>2. CASE ProdRead \/ ProdLock \/ ProdWait \/ ProdFinish \/ SpuriousProd
  BY <1>2 DEF ProdRead, ProdLock, ProdWait, ProdFinish, SpuriousProd, workVars
<1>3. CASE ProdPush
  BY <1>1, <1>3, SignalOnlyWakes DEF ProdPush, workVars
<1>4. ASSUME NEW c \in Consumers, ConsumerStep(c) \/ SpuriousCons(c)
      PROVE  HeldWhilePopped'
  <2> USE DEF SetCons, TypeOK, workVars
  <2>1. CASE ConsLock(c) \/ ConsCheck(c) \/ ConsWait(c) \/ SpuriousCons(c)
    BY <2>1 DEF ConsLock, ConsCheck, ConsWait, SpuriousCons
  <2>2. CASE ConsPop(c)
    <3>1. buffer # <<>>
      BY <2>2 DEF ConsPop, NoEmptyPop
    <3>2. Head(buffer) # NoPacket
      BY <3>1, HeadTailProperties, NoPacketAssumption
    <3> QED
      BY <2>2, <3>1, <3>2 DEF ConsPop, queue_pop
  <2>3. CASE ConsCount(c)
    BY <2>3 DEF ConsCount
  <2>4. CASE ConsProcess(c)
    BY <2>4 DEF ConsProcess
  <2> QED
    BY <1>4, <2>1, <2>2, <2>3, <2>4 DEF ConsumerStep
<1>5. CASE MainOpen
  BY <1>5 DEF MainOpen, MainOrder, workVars
<1>6. CASE MainSignal
  BY <1>1, <1>6, SignalOnlyWakes DEF MainSignal, workVars
<1>7. CASE MainBroadcast
  BY <1>1, <1>7, BroadcastOnlyWakes DEF MainBroadcast, workVars
<1>8. CASE MainJoinProd \/ MainDrained \/ MainJoinCons \/ MainReport
  BY <1>8 DEF MainJoinProd, MainDrained, MainJoinCons, MainReport, workVars
<1>9. CASE UNCHANGED vars
  BY <1>9 DEF vars, threadVars, workVars
<1> QED
  BY <1>2, <1>3, <1>4, <1>5, <1>6, <1>7, <1>8, <1>9
     DEF Next, ProducerStep, MainStep, Terminated

\* The loop over the records is left at the end of the file only.
LEMMA ReadStep ==
  ASSUME Inv, AllRead, [Next]_vars
  PROVE  AllRead'
<1> USE DEF Inv, AllRead, Records
<1>1. CASE ProdRead
  BY <1>1 DEF ProdRead, MainOrder
<1>2. CASE ProdLock \/ ProdWait \/ ProdFinish \/ SpuriousProd
  BY <1>2 DEF ProdLock, ProdWait, ProdFinish, SpuriousProd, fileVars, MainOrder
<1>3. CASE ProdPush
  BY <1>3 DEF ProdPush, fileVars, MainOrder
<1>4. ASSUME NEW c \in Consumers, ConsumerStep(c) \/ SpuriousCons(c)
      PROVE  AllRead'
  BY <1>4
     DEF ConsumerStep, ConsLock, ConsCheck, ConsWait, ConsPop, ConsCount, ConsProcess,
         SpuriousCons, fileVars
<1>5. CASE MainOpen \/ MainJoinProd \/ MainSignal \/ MainDrained \/ MainBroadcast
  BY <1>5 DEF MainOpen, MainJoinProd, MainSignal, MainDrained, MainBroadcast, fileVars,
              MainOrder
<1>6. CASE MainJoinCons
  BY <1>6 DEF MainJoinCons, MainOrder
<1>7. CASE MainReport
  BY <1>7 DEF MainReport, fileVars, MainOrder, TypeOK
<1>8. CASE UNCHANGED vars
  BY <1>8 DEF vars, threadVars, fileVars
<1> QED
  BY <1>1, <1>2, <1>3, <1>4, <1>5, <1>6, <1>7, <1>8
     DEF Next, ProducerStep, MainStep, Terminated

\* Pushing adds the entries of the record in progress to those pushed, and no
\* other step adds or removes any: a record out of range has none, and the
\* next file begins where the records of this one end.
LEMMA PushedStep ==
  ASSUME Inv, AllRead, [Next]_vars, NEW e \in Entry
  PROVE  e \in Pushed' <=> e \in Pushed \/ (ProdPush /\ e[1] = file /\ e[2] = rec)
<1>0. e[1] \in Nat /\ e[2] \in Nat \ {0} /\ e[3] \in 1..Files[e[1]][e[2]]
  BY EntryShape
<1> USE <1>0, FilesAssumption DEF Inv, Pushed
<1>1. CASE ProdPush
  BY <1>1, ThreadsAssumption DEF ProdPush, fileVars, TypeOK
<1>2. CASE ProdRead
  <2>1. file \in DOMAIN Files /\ Records \in Nat
    BY <1>2, RecordsType DEF ProdRead, MainOrder, TypeOK
  <2>2. CASE rec < Records /\ rec' = rec + 1
    <3>1. rec \in Nat /\ file \in Nat
      BY <2>1 DEF TypeOK
    <3>2. CASE Files[file][rec + 1] = 0
      <4>1. ~(e[1] = file /\ e[2] = rec + 1)
        BY <3>2
      <4> QED
        BY <1>2, <2>2, <3>1, <3>2, <4>1, SMTT(30) DEF ProdRead, ProdPush
    <3>3. CASE Files[file][rec + 1] # 0
      BY <1>2, <2>2, <3>1, <3>3 DEF ProdRead, ProdPush
    <3> QED
      BY <3>2, <3>3
  <2>3. CASE rec = Records /\ UNCHANGED rec
    BY <1>2, <2>3 DEF ProdRead, ProdPush
  <2> QED
    BY <1>2, <2>2, <2>3 DEF ProdRead
<1>3. CASE MainJoinCons
  <2>1. rec = Records /\ file <= Len(Files) /\ pcProd = "done"
    BY <1>3 DEF MainJoinCons, MainOrder, AllRead
  <2>2. file \in DOMAIN Files /\ Records \in Nat
    BY <2>1, RecordsType DEF TypeOK
  <2>3. e[1] = file => e[2] <= rec
    <3>1. DOMAIN Files[file] = 1..Records
      BY <2>2, RecordsType
    <3>2. e[2] \in DOMAIN Files[e[1]]
      BY EntryShape
    <3> QED
      BY <2>1, <2>2, <3>1, <3>2
  <2>4. file \in Nat /\ file' = file + 1 /\ rec' = 0
    BY <1>3 DEF MainJoinCons, TypeOK
  <2>5. e \in Pushed' <=> e[1] <= file
    BY <2>4
  <2>6. e \in Pushed <=> e[1] <= file
    BY <2>1, <2>2, <2>3, <2>4
  <2> QED
    BY <2>1, <2>5, <2>6 DEF ProdPush
<1>4. CASE ~ProdPush /\ UNCHANGED <<file, rec>>
           /\ (pcProd' \in {"lock", "push", "waiting"} <=> pcProd \in {"lock", "push", "waiting"})
  BY <1>4
<1>5. CASE ProdLock \/ ProdWait \/ ProdFinish \/ SpuriousProd
  BY <1>4, <1>5 DEF ProdLock, ProdWait, ProdFinish, SpuriousProd, ProdPush, fileVars,
                    bufferVars, Full
<1>6. CASE \E c \in Consumers : ConsumerStep(c) \/ SpuriousCons(c)
  BY <1>4, <1>6
     DEF ConsumerStep, ConsLock, ConsCheck, ConsWait, ConsPop, ConsCount, ConsProcess,
         SpuriousCons, fileVars, ProdPush
<1>7. CASE MainOpen
  BY <1>7 DEF MainOpen, MainOrder, fileVars, ProdPush
<1>8. CASE MainJoinProd \/ MainSignal \/ MainDrained \/ MainBroadcast \/ MainReport
  BY <1>4, <1>8 DEF MainJoinProd, MainSignal, MainDrained, MainBroadcast, MainReport,
                    fileVars, ProdPush
<1>9. CASE UNCHANGED vars
  BY <1>4, <1>9 DEF vars, threadVars, fileVars, ProdPush
<1> QED
  BY <1>1, <1>2, <1>3, <1>5, <1>6, <1>7, <1>8, <1>9
     DEF Next, ProducerStep, MainStep, Terminated
\* Appending entries that are nowhere yet leaves every entry in one place.
LEMMA PushPlaces ==
  ASSUME Inv, FlowInv, ProdPush,
         \A e \in Entry : e \in Pushed' <=> e \in Pushed \/ (e[1] = file /\ e[2] = rec)
  PROVE  Somewhere' /\ OnePlace'
<1> DEFINE batch == Batch(file, rec)
<1>1. file \in DOMAIN Files /\ rec \in DOMAIN Files[file]
  BY FilesAssumption, RecordsType
     DEF Inv, ProdPush, MainOrder, TypeOK, Records, MainControl
<1>2. /\ batch \in Seq(Entry)
      /\ \A i \in DOMAIN batch : batch[i] = <<file, rec, i>>
      /\ \A e \in Entry : (\E i \in DOMAIN batch : batch[i] = e) <=> e[1] = file /\ e[2] = rec
  BY <1>1, BatchEntries
<1> HIDE DEF batch
<1>3. buffer \in Seq(Entry) /\ buffer' = buffer \o batch /\ UNCHANGED <<packet, processed>>
  BY DEF Inv, TypeOK, ProdPush, PushAll, workVars, batch
<1>4. /\ Len(buffer) \in Nat /\ DOMAIN buffer = 1..Len(buffer)
      /\ Len(batch) \in Nat /\ DOMAIN batch = 1..Len(batch)
      /\ DOMAIN buffer' = 1..(Len(buffer) + Len(batch))
  <2>1. buffer' \in Seq(Entry) /\ Len(buffer') = Len(buffer) + Len(batch)
    BY <1>2, <1>3, ConcatProperties
  <2> QED
    BY <1>2, <1>3, <2>1, LenProperties
<1>5. \A i \in DOMAIN buffer' :
        \/ i \in DOMAIN buffer /\ buffer'[i] = buffer[i]
        \/ i - Len(buffer) \in DOMAIN batch /\ i \notin DOMAIN buffer
           /\ buffer'[i] = batch[i - Len(buffer)]
  BY <1>2, <1>3, <1>4, ConcatProperties
<1>6. /\ \A i \in DOMAIN buffer : i \in DOMAIN buffer' /\ buffer'[i] = buffer[i]
      /\ \A i \in DOMAIN batch : Len(buffer) + i \in DOMAIN buffer'
                                 /\ buffer'[Len(buffer) + i] = batch[i]
  BY <1>2, <1>3, <1>4, ConcatProperties
<1>7. \A i \in DOMAIN batch : batch[i] \in Entry
  BY <1>2, <1>4, ElementOfSeq
<1>8. \A i \in DOMAIN batch :
        ~Buffered(batch[i]) /\ ~InHand(batch[i]) /\ ~Processed(batch[i])
  <2> SUFFICES ASSUME NEW i \in DOMAIN batch
               PROVE  ~Buffered(batch[i]) /\ ~InHand(batch[i]) /\ ~Processed(batch[i])
    OBVIOUS
  <2>1. batch[i] \notin Pushed
    BY <1>1, <1>2, FilesAssumption DEF Pushed, ProdPush
  <2> QED
    BY <1>7, <2>1 DEF FlowInv, Somewhere
<1>9. \A e \in Entry : Buffered(e)' <=> Buffered(e) \/ \E i \in DOMAIN batch : batch[i] = e
  BY <1>5, <1>6 DEF Buffered
<1>10. Somewhere'
  <2> SUFFICES ASSUME NEW e \in Entry
               PROVE  e \in Pushed' <=> Buffered(e)' \/ InHand(e)' \/ Processed(e)'
    BY DEF Somewhere
  <2>1. (InHand(e)' <=> InHand(e)) /\ (Processed(e)' <=> Processed(e))
    BY <1>3 DEF InHand, Processed
  <2>2. e \in Pushed <=> Buffered(e) \/ InHand(e) \/ Processed(e)
    BY DEF FlowInv, Somewhere
  <2> QED
    BY <1>2, <1>9, <2>1, <2>2
<1>11. \A i, j \in DOMAIN buffer' : buffer'[i] = buffer'[j] => i = j
  <2> SUFFICES ASSUME NEW i \in DOMAIN buffer', NEW j \in DOMAIN buffer',
                      buffer'[i] = buffer'[j]
               PROVE  i = j
    OBVIOUS
  <2>1. CASE i \in DOMAIN buffer /\ j \in DOMAIN buffer
    BY <1>6, <2>1 DEF FlowInv, OnePlace
  <2>2. CASE i \in DOMAIN buffer /\ j \notin DOMAIN buffer
    BY <1>5, <1>8, <2>2 DEF Buffered
  <2>3. CASE i \notin DOMAIN buffer /\ j \in DOMAIN buffer
    BY <1>5, <1>8, <2>3 DEF Buffered
  <2>4. CASE i \notin DOMAIN buffer /\ j \notin DOMAIN buffer
    <3>1. /\ i - Len(buffer) \in DOMAIN batch /\ buffer'[i] = batch[i - Len(buffer)]
          /\ j - Len(buffer) \in DOMAIN batch /\ buffer'[j] = batch[j - Len(buffer)]
      BY <1>5, <2>4
    <3>2. \A k, l \in DOMAIN batch : batch[k] = batch[l] => k = l
      BY <1>2
    <3>3. i - Len(buffer) = j - Len(buffer)
      BY <3>1, <3>2
    <3> QED
      BY <1>4, <3>3
  <2> QED
    BY <2>1, <2>2, <2>3, <2>4
<1>12. \A i \in DOMAIN buffer' : ~InHand(buffer'[i]) /\ ~Processed(buffer'[i])
  BY <1>5, <1>8 DEF FlowInv, OnePlace
<1> QED
  BY <1>3, <1>10, <1>11, <1>12 DEF FlowInv, OnePlace, InHand, Processed

\* The pop moves the oldest entry from the buffer into one consumer's hand.
LEMMA PopPlaces ==
  ASSUME Inv, FlowInv, NEW c \in Consumers, ConsPop(c),
         \A e \in Entry : e \in Pushed' <=> e \in Pushed
  PROVE  Somewhere' /\ OnePlace'
<1>1. /\ buffer \in Seq(Entry) /\ buffer # <<>>
      /\ packet \in [Consumers -> Entry \cup {NoPacket}]
  BY DEF Inv, TypeOK, ConsPop, NoEmptyPop
<1>2. /\ buffer' = Tail(buffer)
      /\ packet' = [packet EXCEPT ![c] = Head(buffer)]
      /\ processed' = processed
  BY <1>1 DEF ConsPop, queue_pop
<1>3. packet[c] = NoPacket
  BY DEF FlowInv, HeldWhilePopped, ConsPop
<1>4. /\ Len(buffer) \in Nat \ {0} /\ DOMAIN buffer = 1..Len(buffer)
      /\ DOMAIN buffer' = 1..(Len(buffer) - 1)
      /\ \A i \in DOMAIN buffer' : buffer'[i] = buffer[i + 1]
      /\ Head(buffer) = buffer[1] /\ Head(buffer) \in Entry
  BY <1>1, <1>2, EmptySeq, LenProperties, HeadTailProperties
<1>5. \A e \in Entry : Buffered(e) <=> Buffered(e)' \/ e = buffer[1]
  <2> SUFFICES ASSUME NEW e \in Entry
               PROVE  Buffered(e) <=> Buffered(e)' \/ e = buffer[1]
    OBVIOUS
  <2>1. ASSUME NEW i \in DOMAIN buffer, buffer[i] = e, i # 1
        PROVE  Buffered(e)'
    <3>1. i - 1 \in DOMAIN buffer' /\ buffer'[i - 1] = e
      BY <1>4, <2>1
    <3> QED
      BY <3>1 DEF Buffered
  <2>2. ASSUME NEW i \in DOMAIN buffer', buffer'[i] = e
        PROVE  Buffered(e)
    <3>1. i + 1 \in DOMAIN buffer /\ buffer[i + 1] = e
      BY <1>4, <2>2
    <3> QED
      BY <3>1 DEF Buffered
  <2>3. e = buffer[1] => Buffered(e)
    BY <1>4 DEF Buffered
  <2> QED
    BY <2>1, <2>2, <2>3 DEF Buffered
<1>6. \A e \in Entry : InHand(e)' <=> InHand(e) \/ e = buffer[1]
  BY <1>1, <1>2, <1>3, <1>4, NoPacketAssumption DEF InHand
<1>7. Somewhere'
  <2> SUFFICES ASSUME NEW e \in Entry
               PROVE  e \in Pushed' <=> Buffered(e)' \/ InHand(e)' \/ Processed(e)'
    BY DEF Somewhere
  <2>1. e \in Pushed <=> Buffered(e) \/ InHand(e) \/ Processed(e)
    BY DEF FlowInv, Somewhere
  <2> QED
    BY <1>2, <1>5, <1>6, <2>1 DEF Processed
<1>8. ~InHand(buffer[1]) /\ ~Processed(buffer[1])
  BY <1>4 DEF FlowInv, OnePlace
<1>9. \A i, j \in DOMAIN buffer' : buffer'[i] = buffer'[j] => i = j
  BY <1>4 DEF FlowInv, OnePlace
<1>10. \A i \in DOMAIN buffer' : /\ \A d \in Consumers : packet'[d] # buffer'[i]
                                /\ buffer'[i] \notin processed'
  <2> SUFFICES ASSUME NEW i \in DOMAIN buffer'
               PROVE  (\A d \in Consumers : packet'[d] # buffer'[i])
                      /\ buffer'[i] \notin processed'
    OBVIOUS
  <2>1. i + 1 \in DOMAIN buffer /\ buffer'[i] = buffer[i + 1] /\ i + 1 # 1
    BY <1>4
  <2>2. ~InHand(buffer[i + 1]) /\ ~Processed(buffer[i + 1]) /\ buffer[i + 1] # buffer[1]
    BY <1>4, <2>1 DEF FlowInv, OnePlace
  <2>3. \A d \in Consumers : packet'[d] = packet[d] \/ packet'[d] = buffer[1]
    BY <1>1, <1>2, <1>4
  <2> QED
    BY <1>2, <2>1, <2>2, <2>3 DEF InHand, Processed
<1>11. /\ \A d, e \in Consumers : packet'[d] # NoPacket /\ packet'[d] = packet'[e] => d = e
       /\ \A d \in Consumers : packet'[d] \notin processed'
  BY <1>1, <1>2, <1>4, <1>8 DEF FlowInv, OnePlace, InHand, Processed
<1> QED
  BY <1>7, <1>9, <1>10, <1>11 DEF OnePlace, InHand, Processed
\* The lookup moves the entry from the consumer's hand to those processed.
LEMMA ProcessPlaces ==
  ASSUME Inv, FlowInv, NEW c \in Consumers, ConsProcess(c),
         \A e \in Entry : e \in Pushed' <=> e \in Pushed
  PROVE  Somewhere' /\ OnePlace'
<1>1. /\ packet \in [Consumers -> Entry \cup {NoPacket}]
      /\ packet[c] # NoPacket /\ packet[c] \in Entry
  BY DEF Inv, TypeOK, ConsProcess, NoEmptyPop
<1>2. /\ packet' = [packet EXCEPT ![c] = NoPacket]
      /\ processed' = processed \cup {packet[c]}
      /\ buffer' = buffer
  BY DEF ConsProcess, bufferVars
<1>3. \A d \in Consumers : packet'[d] = IF d = c THEN NoPacket ELSE packet[d]
  BY <1>1, <1>2
<1>4. Somewhere'
  <2> SUFFICES ASSUME NEW e \in Entry
               PROVE  e \in Pushed' <=> Buffered(e)' \/ InHand(e)' \/ Processed(e)'
    BY DEF Somewhere
  <2>1. e \in Pushed <=> Buffered(e) \/ InHand(e) \/ Processed(e)
    BY DEF FlowInv, Somewhere
  <2>2. InHand(e) <=> InHand(e)' \/ e = packet[c]
    BY <1>1, <1>3, NoPacketAssumption DEF InHand
  <2> QED
    BY <1>2, <2>1, <2>2 DEF Buffered, Processed
<1>5. \A d, e \in Consumers : packet'[d] # NoPacket /\ packet'[d] = packet'[e] => d = e
  BY <1>3 DEF FlowInv, OnePlace
<1>6. \A i \in DOMAIN buffer' : (\A d \in Consumers : packet'[d] # buffer'[i])
                                /\ buffer'[i] \notin processed'
  <2> SUFFICES ASSUME NEW i \in DOMAIN buffer
               PROVE  (\A d \in Consumers : packet'[d] # buffer[i])
                      /\ buffer[i] \notin processed'
    BY <1>2
  <2>1. (\A d \in Consumers : packet[d] # buffer[i]) /\ buffer[i] \notin processed
    BY DEF FlowInv, OnePlace, InHand, Processed
  <2>2. buffer[i] # NoPacket
    BY NoPacketAssumption, ElementOfSeq DEF Inv, TypeOK
  <2> QED
    BY <1>2, <1>3, <2>1, <2>2
<1>7. \A d \in Consumers : packet'[d] \notin processed'
  <2>1. NoPacket \notin processed'
    BY <1>1, <1>2, NoPacketAssumption DEF Inv, TypeOK
  <2>2. \A d \in Consumers : packet[d] \notin processed
    BY DEF FlowInv, OnePlace, Processed
  <2>3. \A d \in Consumers : d # c /\ packet[d] = packet[c] => packet[d] = NoPacket
    BY DEF FlowInv, OnePlace
  <2> QED
    BY <1>1, <1>2, <1>3, <2>1, <2>2, <2>3
<1> QED
  BY <1>2, <1>4, <1>5, <1>6, <1>7 DEF FlowInv, OnePlace, InHand, Processed

\* No other step moves an entry.
LEMMA PlaceStep ==
  ASSUME Inv, FlowInv, [Next]_vars
  PROVE  Somewhere' /\ OnePlace'
<1>1. CASE ProdPush
  BY <1>1, PushedStep, PushPlaces DEF FlowInv
<1>2. ASSUME ~ProdPush PROVE \A e \in Entry : e \in Pushed' <=> e \in Pushed
  BY <1>2, PushedStep DEF FlowInv
<1>3. ASSUME NEW c \in Consumers, ConsPop(c)
      PROVE  Somewhere' /\ OnePlace'
  BY <1>2, <1>3, PopPlaces DEF ConsPop, ProdPush, SetCons, Unlock, PushAll
<1>4. ASSUME NEW c \in Consumers, ConsProcess(c)
      PROVE  Somewhere' /\ OnePlace'
  BY <1>2, <1>4, ProcessPlaces DEF ConsProcess, ProdPush
<1>5. CASE ~ProdPush /\ UNCHANGED <<buffer, packet, processed>>
  <2>1. OnePlace'
    BY <1>5 DEF FlowInv, OnePlace, InHand, Processed
  <2>2. \A e \in Entry : /\ Buffered(e)' <=> Buffered(e)
                         /\ InHand(e)' <=> InHand(e)
                         /\ Processed(e)' <=> Processed(e)
    BY <1>5 DEF Buffered, InHand, Processed
  <2> QED
    BY <1>2, <1>5, <2>1, <2>2 DEF FlowInv, Somewhere
<1>6. CASE MainOpen
  <2>1. \A c \in Consumers : pcCons[c] = "done"
    BY <1>6 DEF MainOpen, Inv, MainOrder
  <2>2. Len(buffer) = 0
    BY <1>6, <2>1 DEF MainOpen, Inv, MainOrder, CountExact
  <2>3. buffer = <<>>
    BY <2>2, EmptySeq DEF Inv, TypeOK
  <2> QED
    BY <1>5, <1>6, <2>3 DEF MainOpen, workVars, ProdPush
<1>7. CASE ProdRead \/ ProdLock \/ ProdWait \/ ProdFinish \/ SpuriousProd
  BY <1>5, <1>7 DEF ProdRead, ProdLock, ProdWait, ProdFinish, SpuriousProd, ProdPush, Full,
                    bufferVars, workVars, fileVars
<1>8. CASE \E c \in Consumers : ConsLock(c) \/ ConsCheck(c) \/ ConsWait(c) \/ ConsCount(c)
                                \/ SpuriousCons(c)
  BY <1>5, <1>8 DEF ConsLock, ConsCheck, ConsWait, ConsCount, SpuriousCons, ProdPush,
                    bufferVars, workVars
<1>9. CASE MainJoinProd \/ MainSignal \/ MainDrained \/ MainBroadcast \/ MainJoinCons \/ MainReport
  BY <1>5, <1>9 DEF MainJoinProd, MainSignal, MainDrained, MainBroadcast, MainJoinCons,
                    MainReport, ProdPush, bufferVars, workVars
<1>10. CASE UNCHANGED vars
  BY <1>5, <1>10 DEF vars, threadVars, bufferVars, workVars, ProdPush
<1> QED
  BY <1>1, <1>3, <1>4, <1>6, <1>7, <1>8, <1>9, <1>10
     DEF Next, ProducerStep, ConsumerStep, MainStep, Terminated

\* The entries processed are finite in number: each step adds one at most.
LEMMA FiniteStep ==
  ASSUME IsFiniteSet(processed), [Next]_vars
  PROVE  IsFiniteSet(processed')
<1>1. processed' = processed \/ \E e : processed' = processed \cup {e}
  BY DEF Next, vars, workVars, ProducerStep, ConsumerStep, MainStep, Terminated,
         ProdRead, ProdLock, ProdWait, ProdPush, ProdFinish, ConsLock, ConsCheck, ConsWait,
         ConsPop, ConsCount, ConsProcess, MainOpen, MainJoinProd, MainSignal, MainDrained,
         MainBroadcast, MainJoinCons, MainReport, SpuriousProd, SpuriousCons
<1> QED
  BY <1>1, FS_AddElement

\* Before the first file has been read every entry is unread.
LEMMA FlowInvInit == Init => FlowInv
<1> SUFFICES ASSUME Init PROVE FlowInv
  OBVIOUS
<1>1. HeldWhilePopped /\ AllRead /\ OnePlace /\ IsFiniteSet(processed)
  BY FS_EmptySet DEF Init, HeldWhilePopped, AllRead, OnePlace, InHand, Processed
<1>2. \A e \in Entry : e \notin Pushed
  BY EntryShape, FilesAssumption DEF Init, Pushed
<1>3. \A e \in Entry : ~Buffered(e) /\ ~InHand(e) /\ ~Processed(e)
  BY NoPacketAssumption DEF Init, Buffered, InHand, Processed
<1> QED
  BY <1>1, <1>2, <1>3 DEF FlowInv, Somewhere

\* Where the entries are, at any time.
THEOREM FlowInvHolds == Spec => []FlowInv
<1>1. Inv /\ FlowInv /\ [Next]_vars => FlowInv'
  BY HeldStep, ReadStep, PlaceStep, FiniteStep DEF FlowInv
<1> QED
  BY <1>1, FlowInvInit, InvHolds, PTL DEF Spec
-----------------------------------------------------------------------------
(* Nothing is lost and nothing is handed out twice.                        *)

\* As many entries as places that hold one.
LEMMA CountPlaces ==
  ASSUME Inv, FlowInv
  PROVE  /\ Len(buffer) + Cardinality(Holders) + Cardinality(processed) = Cardinality(Pushed)
         /\ IsFiniteSet(Pushed)
<1> DEFINE inBuffer == {buffer[i] : i \in DOMAIN buffer}
           inHands == {packet[c] : c \in Holders}
<1>1. IsFiniteSet(inBuffer) /\ Cardinality(inBuffer) = Len(buffer)
  <2>1. Len(buffer) \in Nat /\ DOMAIN buffer = 1..Len(buffer)
    BY LenProperties DEF Inv, TypeOK
  <2>2. IsFiniteSet(1..Len(buffer)) /\ Cardinality(1..Len(buffer)) = Len(buffer)
    <3>1. 1 \in Int /\ Len(buffer) \in Int
      BY <2>1
    <3>2. /\ IsFiniteSet(1..Len(buffer))
          /\ Cardinality(1..Len(buffer)) = IF 1 > Len(buffer) THEN 0 ELSE Len(buffer) - 1 + 1
      BY <3>1, FS_Interval
    <3> QED
      BY <2>1, <3>2
  <2>3. [i \in 1..Len(buffer) |-> buffer[i]] \in Bijection(1..Len(buffer), inBuffer)
    BY <2>1 DEF FlowInv, OnePlace, Bijection, Injection, Surjection, IsInjective
  <2> QED
    BY <2>2, <2>3, FS_Bijection DEF ExistsBijection
<1>2. IsFiniteSet(inHands) /\ Cardinality(inHands) = Cardinality(Holders)
  <2>1. IsFiniteSet(Holders)
    BY ThreadsAssumption, FS_Subset DEF Holders
  <2>2. [c \in Holders |-> packet[c]] \in Bijection(Holders, inHands)
    BY DEF Holders, FlowInv, OnePlace, Bijection, Injection, Surjection, IsInjective
  <2> QED
    BY <2>1, <2>2, FS_Bijection DEF ExistsBijection
<1>3. IsFiniteSet(processed)
  BY DEF FlowInv
<1>4. Pushed = inBuffer \cup inHands \cup processed
  <2>1. \A e \in Entry : e \in inBuffer <=> Buffered(e)
    BY DEF Buffered
  <2>2. \A e \in Entry : e \in inHands <=> InHand(e)
    BY NoPacketAssumption DEF InHand, Holders
  <2>3. inBuffer \subseteq Entry /\ inHands \subseteq Entry /\ processed \subseteq Entry
    BY ElementOfSeq DEF Inv, TypeOK, Holders
  <2>4. Pushed \subseteq Entry
    BY DEF Pushed
  <2> QED
    BY <2>1, <2>2, <2>3, <2>4 DEF FlowInv, Somewhere, Processed
<1>5. inBuffer \cap inHands = {}
  BY DEF FlowInv, OnePlace, InHand, Holders
<1>6. (inBuffer \cup inHands) \cap processed = {}
  BY DEF FlowInv, OnePlace, Processed, Holders
<1> HIDE DEF inBuffer, inHands
<1>7. /\ IsFiniteSet(inBuffer \cup inHands)
      /\ Cardinality(inBuffer \cup inHands) = Len(buffer) + Cardinality(Holders)
  <2>1. Len(buffer) \in Nat /\ Cardinality(Holders) \in Nat
    BY <1>1, <1>2, FS_CardinalityType
  <2> QED
    <3>1. /\ IsFiniteSet(inBuffer \cup inHands)
          /\ Cardinality(inBuffer \cup inHands)
               = Cardinality(inBuffer) + Cardinality(inHands) - Cardinality(inBuffer \cap inHands)
      BY <1>1, <1>2, FS_Union
    <3>2. Cardinality(inBuffer \cap inHands) = 0
      BY <1>5, FS_EmptySet
    <3> QED
      BY <1>1, <1>2, <2>1, <3>1, <3>2
<1>8. Cardinality(Pushed) = Cardinality(inBuffer \cup inHands) + Cardinality(processed)
  <2>1. Cardinality(inBuffer \cup inHands) \in Nat /\ Cardinality(processed) \in Nat
    BY <1>3, <1>7, FS_CardinalityType
  <2> QED
    <3>1. Cardinality((inBuffer \cup inHands) \cup processed)
            = Cardinality(inBuffer \cup inHands) + Cardinality(processed)
                - Cardinality((inBuffer \cup inHands) \cap processed)
      BY <1>3, <1>7, FS_Union
    <3>2. Cardinality((inBuffer \cup inHands) \cap processed) = 0
      BY <1>6, FS_EmptySet
    <3> QED
      BY <1>4, <2>1, <3>1, <3>2
<1>9. IsFiniteSet(Pushed)
  BY <1>3, <1>4, <1>7, FS_Union
<1> QED
  BY <1>7, <1>8, <1>9

\* Every entry pushed is in the buffer, in the hands of one consumer or
\* processed, and in one of these places only.
THEOREM NothingLostOrRepeated == Spec => []Conservation
<1>1. Inv /\ FlowInv => Conservation
  <2> SUFFICES ASSUME Inv, FlowInv PROVE Conservation
    OBVIOUS
  <2>1. \A e \in Entry : e \in {buffer[i] : i \in DOMAIN buffer} <=> Buffered(e)
    BY DEF Buffered
  <2>2. \A e \in Entry : e \in {packet[c] : c \in Holders} <=> InHand(e)
    BY NoPacketAssumption DEF InHand, Holders
  <2>3. /\ {buffer[i] : i \in DOMAIN buffer} \subseteq Entry
        /\ {packet[c] : c \in Holders} \subseteq Entry
        /\ processed \subseteq Entry
        /\ Pushed \subseteq Entry
    BY ElementOfSeq DEF Inv, TypeOK, Holders, Pushed
  <2>4. {buffer[i] : i \in DOMAIN buffer} \cup {packet[c] : c \in Holders} \cup processed
          = Pushed
    BY <2>1, <2>2, <2>3 DEF FlowInv, Somewhere, Processed
  <2> QED
    BY <2>4, CountPlaces DEF Conservation
<1> QED
  BY <1>1, InvHolds, FlowInvHolds, PTL

\* With all threads of a file back, the places of its entries are known.
LEMMA DoneWhenOpen ==
  ASSUME Inv, FlowInv
  PROVE  FilesDone
<1> SUFFICES ASSUME pcMain \in {"open", "done"}
             PROVE  buffer = <<>> /\ processed = {e \in Entry : e[1] < file}
  BY DEF FilesDone
<1>1. \A c \in Consumers : pcCons[c] = "done"
  BY DEF Inv, MainOrder
<1>2. count = 0 /\ pcProd = "done"
  BY DEF Inv, MainOrder
<1>3. buffer = <<>>
  BY <1>1, <1>2, EmptySeq DEF Inv, CountExact, TypeOK
<1>4. \A c \in Consumers : packet[c] = NoPacket
  BY <1>1 DEF FlowInv, HeldWhilePopped
<1>5. \A e \in Entry : e \in processed <=> e \in Pushed
  BY <1>3, <1>4, NoPacketAssumption DEF FlowInv, Somewhere, Buffered, InHand, Processed
<1>6. \A e \in Entry : e \in Pushed <=> e[1] < file
  <2> SUFFICES ASSUME NEW e \in Entry PROVE e \in Pushed <=> e[1] < file
    OBVIOUS
  <2>1. e[1] \in 1..Len(Files) /\ e[2] \in Nat \ {0}
    BY EntryShape, FilesAssumption
  <2>2. CASE pcMain = "open"
    BY <2>1, <2>2, <1>2 DEF Pushed, Inv, MainOrder
  <2>3. CASE pcMain = "done"
    BY <2>1, <2>3, <1>2, FilesAssumption DEF Pushed, FlowInv, AllRead, Inv, TypeOK
  <2> QED
    BY <2>2, <2>3
<1>7. processed \subseteq Entry
  BY DEF Inv, TypeOK
<1> QED
  BY <1>3, <1>5, <1>6, <1>7

\* When main turns to the next file, or reports, every entry of the files
\* before has gone through the cache and no other has.
THEOREM FilesAreDone == Spec => []FilesDone
BY DoneWhenOpen, InvHolds, FlowInvHolds, PTL
-----------------------------------------------------------------------------
(* The pipeline implements PacketFlow.                                     *)

\* Pushing the entries of a record is one production: they join at the end of
\* the queue, each for the first time.
LEMMA PushProduces ==
  ASSUME Inv, FlowInv, FlowInv', [Next]_vars, ProdPush
  PROVE  Flow!Produce
<1> DEFINE new == {buffer'[i] : i \in (Len(buffer) + 1)..Len(buffer')}
<1>1. file \in DOMAIN Files /\ rec \in DOMAIN Files[file]
  BY FilesAssumption, RecordsType
     DEF Inv, ProdPush, MainOrder, TypeOK, Records, MainControl
<1>2. /\ Batch(file, rec) \in Seq(Entry) /\ buffer \in Seq(Entry)
      /\ buffer' = buffer \o Batch(file, rec)
      /\ UNCHANGED <<packet, processed>>
  BY <1>1, BatchEntries DEF Inv, TypeOK, ProdPush, PushAll, workVars
<1>3. /\ buffer' \in Seq(Entry)
      /\ Len(buffer) \in Nat /\ Len(buffer') \in Nat /\ Len(buffer) <= Len(buffer')
      /\ \A i \in 1..Len(buffer) : buffer'[i] = buffer[i]
  BY <1>2, ConcatProperties
<1>4. Flow!IsPrefix(buffer, buffer')
  <2>1. \A i \in 1..Len(buffer) : buffer[i] \in Entry /\ buffer'[i] \in Entry
    BY <1>2, <1>3, ElementOfSeq
  <2>2. /\ SubSeq(buffer, 1, Len(buffer)) \in Seq(Entry)
        /\ Len(SubSeq(buffer, 1, Len(buffer))) = Len(buffer)
        /\ \A i \in 1..Len(buffer) : SubSeq(buffer, 1, Len(buffer))[i] = buffer[i]
    BY <1>3, <2>1, SubSeqProperties
  <2>3. /\ SubSeq(buffer', 1, Len(buffer)) \in Seq(Entry)
        /\ Len(SubSeq(buffer', 1, Len(buffer))) = Len(buffer)
        /\ \A i \in 1..Len(buffer) : SubSeq(buffer', 1, Len(buffer))[i] = buffer'[i]
    BY <1>3, <2>1, SubSeqProperties
  <2>4. SubSeq(buffer, 1, Len(buffer)) = SubSeq(buffer', 1, Len(buffer))
    BY <1>3, <2>2, <2>3, SeqEqual
  <2> QED
    BY <1>3, <2>4 DEF Flow!IsPrefix
<1>5. Flow!IsInjective(buffer')
  BY DEF FlowInv, OnePlace, Flow!IsInjective
<1>6. \A i \in (Len(buffer) + 1)..Len(buffer') :
        /\ i \in DOMAIN buffer'
        /\ buffer'[i] \in Entry
        /\ \A c \in Consumers : packet[c] # buffer'[i]
        /\ buffer'[i] \notin processed
  <2> SUFFICES ASSUME NEW i \in (Len(buffer) + 1)..Len(buffer')
               PROVE  /\ i \in DOMAIN buffer'
                      /\ buffer'[i] \in Entry
                      /\ \A c \in Consumers : packet[c] # buffer'[i]
                      /\ buffer'[i] \notin processed
    OBVIOUS
  <2>1. i \in 1..Len(buffer') /\ i \in DOMAIN buffer'
    BY <1>3, LenProperties
  <2> QED
    BY <1>2, <1>3, <2>1, ElementOfSeq DEF FlowInv, OnePlace, InHand, Processed
<1>7. new \subseteq Entry /\ new \cap (processed \cup {packet[c] : c \in Consumers}) = {}
  BY <1>6
<1> QED
  BY <1>2, <1>4, <1>5, <1>7 DEF Flow!Produce

\* Every step of the threads is a production, a take, a finish or none of the
\* queue's business.
LEMMA FlowStep ==
  ASSUME Inv, FlowInv, FlowInv', [Next]_vars
  PROVE  [Flow!Next]_(Flow!flowVars)
<1>1. CASE ProdPush
  BY <1>1, PushProduces DEF Flow!Next
<1>2. ASSUME NEW c \in Consumers, ConsPop(c)
      PROVE  Flow!Next
  <2>1. buffer # <<>> /\ packet[c] = NoPacket
    BY <1>2 DEF Inv, NoEmptyPop, FlowInv, HeldWhilePopped, ConsPop
  <2>2. Flow!Take(c)
    BY <1>2, <2>1 DEF ConsPop, queue_pop, Flow!Take
  <2> QED
    BY <2>2 DEF Flow!Next
<1>3. ASSUME NEW c \in Consumers, ConsProcess(c)
      PROVE  Flow!Next
  <2>1. packet[c] # NoPacket
    BY <1>3 DEF Inv, NoEmptyPop, ConsProcess
  <2>2. Flow!Finish(c)
    BY <1>3, <2>1 DEF ConsProcess, bufferVars, Flow!Finish
  <2> QED
    BY <2>2 DEF Flow!Next
<1>4. CASE UNCHANGED <<buffer, packet, processed>>
  BY <1>4 DEF Flow!flowVars
<1>5. CASE MainOpen
  <2>1. \A c \in Consumers : pcCons[c] = "done"
    BY <1>5 DEF MainOpen, Inv, MainOrder
  <2>2. Len(buffer) = 0
    BY <1>5, <2>1 DEF MainOpen, Inv, MainOrder, CountExact
  <2>3. buffer = <<>>
    BY <2>2, EmptySeq DEF Inv, TypeOK
  <2> QED
    BY <1>4, <1>5, <2>3 DEF MainOpen, workVars
<1>6. CASE ProdRead \/ ProdLock \/ ProdWait \/ ProdFinish \/ SpuriousProd
  BY <1>4, <1>6 DEF ProdRead, ProdLock, ProdWait, ProdFinish, SpuriousProd, bufferVars, workVars
<1>7. CASE \E c \in Consumers : ConsLock(c) \/ ConsCheck(c) \/ ConsWait(c) \/ ConsCount(c)
                                \/ SpuriousCons(c)
  BY <1>4, <1>7 DEF ConsLock, ConsCheck, ConsWait, ConsCount, SpuriousCons, bufferVars, workVars
<1>8. CASE MainJoinProd \/ MainSignal \/ MainDrained \/ MainBroadcast \/ MainJoinCons \/ MainReport
  BY <1>4, <1>8 DEF MainJoinProd, MainSignal, MainDrained, MainBroadcast, MainJoinCons,
                    MainReport, bufferVars, workVars
<1>9. CASE UNCHANGED vars
  BY <1>4, <1>9 DEF vars, bufferVars, workVars
<1> QED
  BY <1>1, <1>2, <1>3, <1>5, <1>6, <1>7, <1>8, <1>9
     DEF Next, ProducerStep, ConsumerStep, MainStep, Terminated

\* The threads, the counter and the condition variables implement a queue
\* that delivers each entry once, in the order of the input, to one consumer.
THEOREM PipelineImplementsFlow == Spec => FlowSpec
<1>1. Init => Flow!Init
  BY DEF Init, Flow!Init
<1>2. Inv /\ FlowInv /\ FlowInv' /\ [Next]_vars => [Flow!Next]_(Flow!flowVars)
  BY FlowStep
<1> QED
  BY <1>1, <1>2, InvHolds, FlowInvHolds, PTL DEF Spec, FlowSpec, Flow!Spec

-----------------------------------------------------------------------------
(* Consumers that return early.                                            *)

\* With one file `complete' is not stored before the producer has finished.
CompleteMeansDone ==
  /\ complete = 1 => pcProd = "done"
  /\ complete = 1 /\ pcMain = "open" => file > Len(Files)

\* `complete' is stored at the end of the loop over the records, and no second
\* file starts with it.
LEMMA CompleteStep ==
  ASSUME Len(Files) = 1, Inv, AllRead, CompleteMeansDone, [Next]_vars
  PROVE  CompleteMeansDone'
<1> USE DEF Inv, CompleteMeansDone
<1>1. CASE ProdRead \/ ProdLock \/ ProdWait \/ ProdPush \/ SpuriousProd
  BY <1>1 DEF ProdRead, ProdLock, ProdWait, ProdPush, SpuriousProd
<1>2. CASE ProdFinish
  BY <1>2 DEF ProdFinish, MainOrder
<1>3. CASE \E c \in Consumers : ConsumerStep(c) \/ SpuriousCons(c)
  BY <1>3
     DEF ConsumerStep, ConsLock, ConsCheck, ConsWait, ConsPop, ConsCount, ConsProcess,
         SpuriousCons, fileVars
<1>4. CASE MainOpen
  BY <1>4 DEF MainOpen, TypeOK
<1>5. CASE MainJoinProd \/ MainSignal \/ MainDrained \/ MainBroadcast \/ MainReport
  BY <1>5 DEF MainJoinProd, MainSignal, MainDrained, MainBroadcast, MainReport
<1>6. CASE MainJoinCons
  BY <1>6 DEF MainJoinCons, TypeOK
<1>7. CASE UNCHANGED vars
  BY <1>7 DEF vars, threadVars, fileVars
<1> QED
  BY <1>1, <1>2, <1>3, <1>4, <1>5, <1>6, <1>7
     DEF Next, ProducerStep, MainStep, Terminated

\* A consumer that returns has found the flag stored and the buffer empty.
LEMMA ReturnStep ==
  ASSUME Inv, [Next]_vars, NEW c \in Consumers, pcCons[c] # "done", pcCons'[c] = "done"
  PROVE  complete = 1 /\ buffer = <<>>
<1> USE DEF Inv
<1>1. ASSUME OnlyWakes PROVE FALSE
  BY <1>1 DEF OnlyWakes
<1>2. CASE ProdPush \/ MainSignal
  BY <1>1, <1>2, SignalOnlyWakes DEF ProdPush, MainSignal
<1>3. CASE MainBroadcast
  BY <1>1, <1>3, BroadcastOnlyWakes DEF MainBroadcast
<1>4. ASSUME NEW d \in Consumers, ConsumerStep(d) \/ SpuriousCons(d)
      PROVE  complete = 1 /\ buffer = <<>>
  <2> USE DEF SetCons, TypeOK
  <2>1. CASE ConsCheck(d)
    <3>1. count = 0 /\ complete = 1 /\ pcCons[d] = "check"
      BY <1>4, <2>1 DEF ConsCheck
    <3>2. \A e \in Consumers : pcCons[e] # "popped"
      BY <3>1 DEF LockOwned, InSection
    <3>3. Len(buffer) = 0
      BY <3>1, <3>2 DEF CountExact
    <3> QED
      BY <3>1, <3>3, EmptySeq
  <2>2. CASE ConsCount(d)
    BY <2>2 DEF ConsCount, NoEmptyPop
  <2>3. CASE ConsLock(d) \/ ConsWait(d) \/ ConsPop(d) \/ ConsProcess(d) \/ SpuriousCons(d)
    BY <2>3 DEF ConsLock, ConsWait, ConsPop, ConsProcess, SpuriousCons
  <2> QED
    BY <1>4, <2>1, <2>2, <2>3 DEF ConsumerStep
<1>5. CASE MainOpen
  BY <1>5 DEF MainOpen
<1>6. CASE UNCHANGED pcCons
  BY <1>6
<1> QED
  BY <1>2, <1>3, <1>4, <1>5, <1>6
     DEF Next, ProducerStep, MainStep, Terminated, ProdRead, ProdLock, ProdWait, ProdFinish,
         SpuriousProd, MainJoinProd, MainDrained, MainJoinCons, MainReport, vars, threadVars

\* With one file a consumer returns only after the producer has finished and
\* leaves nothing in the buffer.  From the second file on `complete' may be
\* stale and this is false.
THEOREM ConsumersStayForOneFile ==
  ASSUME Len(Files) = 1
  PROVE  Spec => ConsumersOutliveProducer
<1>1. Init => CompleteMeansDone
  BY DEF Init, CompleteMeansDone
<1>2. Inv /\ FlowInv /\ CompleteMeansDone /\ [Next]_vars => CompleteMeansDone'
  BY CompleteStep DEF FlowInv
<1>3. Inv /\ CompleteMeansDone /\ [Next]_vars => [ReturnsWhenComplete]_vars
  BY ReturnStep DEF CompleteMeansDone, ReturnsWhenComplete
<1> QED
  BY <1>1, <1>2, <1>3, InvHolds, FlowInvHolds, PTL DEF Spec, ConsumersOutliveProducer
=============================================================================
