------------------------------ MODULE ProdCon ------------------------------
(***************************************************************************)
(* The two trials of a bounded buffer that came before the pipeline:       *)
(* prodconBase.c has a mutex and two condition variables around a ring,    *)
(* prodconExtra.c has a mutex and two semaphores around a stack.  Both run *)
(* any number of producers and consumers; the threads of prodconBase.c are *)
(* there, but its main returns before it starts them.                      *)
(*                                                                         *)
(* An item is named by its producer and its turn.  A thread waiting on a   *)
(* condition variable has control point "waiting".                         *)
(*                                                                         *)
(* A definition headed "Fault:" is a faulty variant of the one after it.   *)
(***************************************************************************)
EXTENDS Integers, Sequences, FiniteSets

CONSTANTS
  Producers, Consumers,
  MAX,    \* slots: MAX of prodconBase.c, BUFFER_SIZE of prodconExtra.c
  loops,  \* turns of a loop; bounds the endless loop of producers in prodconExtra.c
  Free    \* the mutex has no owner

ASSUME ProdConAssumption ==
  /\ Producers \cap Consumers = {} /\ Free \notin Producers \cup Consumers
  /\ IsFiniteSet(Producers) /\ IsFiniteSet(Consumers)
  /\ MAX \in Nat \ {0}
  /\ loops \in Nat \ {0}

VARIABLES
  design,             \* "conditions" (prodconBase.c) or "semaphores" (prodconExtra.c)
  running,            \* the threads there are
  pc, turn,           \* control point of each thread, its i
  mutex,              \* the owner of the mutex
  buffer, count,      \* as in the code; `counter' in prodconExtra.c
  fill_ptr, use_ptr,  \* of the ring
  empty, full,        \* the semaphores
  stored, taken,      \* items in the order of entry, of removal (history)
  exited              \* main of prodconExtra.c has called exit

ringVars    == <<fill_ptr, use_ptr>>
historyVars == <<stored, taken>>
semaphores  == <<empty, full>>
staticVars  == <<design, running, exited>>
dataVars    == <<buffer, count, ringVars, historyVars>>
prodconVars == <<staticVars, pc, turn, mutex, dataVars, semaphores>>

Item == Producers \X (0..(loops - 1))

Goto(t, point) == pc' = [pc EXCEPT ![t] = point]

\* The control point behind the last statement of a turn.
Again(t) ==
  IF (design = "semaphores" /\ t \in Consumers) \/ turn[t] + 1 < loops THEN "start" ELSE "done"

\* Only a consumer of prodconExtra.c does not count its turns.
CountTurn(t) ==
  turn' = IF design = "semaphores" /\ t \in Consumers THEN turn
          ELSE [turn EXCEPT ![t] = @ + 1]

-----------------------------------------------------------------------------
(* prodconBase.c.                                                          *)

Lock(t) ==
  /\ design = "conditions"
  /\ pc[t] \in {"start", "woken"}
  /\ mutex = Free
  /\ mutex' = t
  /\ Goto(t, IF pc[t] = "start" THEN "test" ELSE "retest")
  /\ UNCHANGED <<staticVars, turn, dataVars, semaphores>>

\* Fault: a thread that was woken does not test again.
MustWaitOnce(t) == pc[t] = "test" /\ count = (IF t \in Producers THEN MAX ELSE 0)

\* A producer waits for room, a consumer for an item.
MustWait(t) == count = IF t \in Producers THEN MAX ELSE 0

Wait(t) ==
  /\ pc[t] \in {"test", "retest"}
  /\ MustWait(t)
  /\ mutex' = Free
  /\ Goto(t, "waiting")
  /\ UNCHANGED <<staticVars, turn, dataVars, semaphores>>

put(item) ==
  /\ buffer' = [buffer EXCEPT ![fill_ptr] = item]
  /\ fill_ptr' = (fill_ptr + 1) % MAX
  /\ count' = count + 1
  /\ stored' = Append(stored, item)
  /\ UNCHANGED <<use_ptr, taken>>

get ==
  /\ taken' = Append(taken, buffer[use_ptr])
  /\ use_ptr' = (use_ptr + 1) % MAX
  /\ count' = count - 1
  /\ UNCHANGED <<buffer, fill_ptr, stored>>

\* Fault: the two condition variables are swapped.
WaitersSwapped(t) ==
  {u \in running : pc[u] = "waiting" /\ (u \in Producers <=> t \in Producers)}

\* Those who wait for what t does.
Waiters(t) ==
  {u \in running : pc[u] = "waiting" /\ (u \in Producers <=> t \in Consumers)}

\* put or get, the signal to one waiter, and the release of the mutex.
Pass(t) ==
  /\ pc[t] \in {"test", "retest"}
  /\ ~MustWait(t)
  /\ IF t \in Producers THEN put(<<t, turn[t]>>) ELSE get
  /\ IF Waiters(t) = {} THEN Goto(t, Again(t))
     ELSE \E u \in Waiters(t) : pc' = [pc EXCEPT ![t] = Again(t), ![u] = "woken"]
  /\ CountTurn(t)
  /\ mutex' = Free
  /\ UNCHANGED <<staticVars, semaphores>>

\* POSIX lets a condition wait return without a signal.
Spurious(t) ==
  /\ pc[t] = "waiting"
  /\ Goto(t, "woken")
  /\ UNCHANGED <<staticVars, turn, mutex, dataVars, semaphores>>

-----------------------------------------------------------------------------
(* prodconExtra.c.                                                         *)

\* sem_wait: a producer takes an empty slot, a consumer a full one.
SemWait(t) ==
  /\ design = "semaphores"
  /\ pc[t] = "start"
  /\ \/ t \in Producers /\ empty > 0 /\ empty' = empty - 1 /\ UNCHANGED full
     \/ t \in Consumers /\ full > 0 /\ full' = full - 1 /\ UNCHANGED empty
  /\ Goto(t, "lock")
  /\ UNCHANGED <<staticVars, turn, mutex, dataVars>>

SemLock(t) ==
  /\ pc[t] = "lock"
  /\ mutex = Free
  /\ mutex' = t
  /\ Goto(t, "item")
  /\ UNCHANGED <<staticVars, turn, dataVars, semaphores>>

\* Both return -1 and do nothing where there is no room, or no item.
insert_item(item) ==
  IF count < MAX
  THEN /\ buffer' = [buffer EXCEPT ![count] = item]
       /\ count' = count + 1
       /\ stored' = Append(stored, item)
       /\ UNCHANGED <<ringVars, taken>>
  ELSE UNCHANGED dataVars

remove_item ==
  IF count > 0
  THEN /\ taken' = Append(taken, buffer[count - 1])
       /\ count' = count - 1
       /\ UNCHANGED <<buffer, ringVars, stored>>
  ELSE UNCHANGED dataVars

UseItem(t) ==
  /\ pc[t] = "item"
  /\ IF t \in Producers THEN insert_item(<<t, turn[t]>>) ELSE remove_item
  /\ Goto(t, "unlock")
  /\ UNCHANGED <<staticVars, turn, mutex, semaphores>>

SemUnlock(t) ==
  /\ pc[t] = "unlock"
  /\ mutex' = Free
  /\ Goto(t, "post")
  /\ UNCHANGED <<staticVars, turn, dataVars, semaphores>>

\* Fault: the semaphore that was taken is posted.
PostOwn(t) ==
  /\ pc[t] = "post"
  /\ IF t \in Consumers THEN full' = full + 1 /\ UNCHANGED empty
     ELSE empty' = empty + 1 /\ UNCHANGED full
  /\ CountTurn(t)
  /\ Goto(t, Again(t))
  /\ UNCHANGED <<staticVars, mutex, dataVars>>

SemPost(t) ==
  /\ pc[t] = "post"
  /\ IF t \in Producers THEN full' = full + 1 /\ UNCHANGED empty
     ELSE empty' = empty + 1 /\ UNCHANGED full
  /\ CountTurn(t)
  /\ Goto(t, Again(t))
  /\ UNCHANGED <<staticVars, mutex, dataVars>>

\* main has slept for its time.
Exit ==
  /\ design = "semaphores"
  /\ exited' = TRUE
  /\ UNCHANGED <<design, running, pc, turn, mutex, dataVars, semaphores>>

-----------------------------------------------------------------------------
ProdConInit ==
  /\ design \in {"conditions", "semaphores"}
  /\ running \in {P \cup C : P \in SUBSET Producers, C \in SUBSET Consumers}
  /\ pc = [t \in running |-> "start"]
  /\ turn = [t \in running |-> 0]
  /\ mutex = Free
  /\ buffer = [k \in 0..(MAX - 1) |-> CHOOSE x \in Item : TRUE]
  /\ count = 0 /\ fill_ptr = 0 /\ use_ptr = 0
  /\ empty = MAX /\ full = 0
  /\ stored = <<>> /\ taken = <<>>
  /\ exited = FALSE

Step(t) ==
  \/ Lock(t) \/ Wait(t) \/ Pass(t)
  \/ SemWait(t) \/ SemLock(t) \/ UseItem(t) \/ SemUnlock(t) \/ SemPost(t)

ProdConNext ==
  /\ ~exited
  /\ Exit \/ \E t \in running : Step(t) \/ Spurious(t)

\* A runnable thread keeps running and gets a mutex that becomes free again
\* and again.
ProdConSpec ==
  /\ ProdConInit
  /\ [][ProdConNext]_prodconVars
  /\ \A t \in Producers \cup Consumers :
       /\ WF_prodconVars(~exited /\ t \in running /\ Step(t))
       /\ SF_prodconVars(~exited /\ t \in running /\ Lock(t))

-----------------------------------------------------------------------------
(* Properties.                                                             *)

\* The items between the pointers of the ring, or below the top of the stack.
Inside ==
  IF design = "conditions" THEN {buffer[(use_ptr + k) % MAX] : k \in 0..(count - 1)}
  ELSE {buffer[k] : k \in 0..(count - 1)}

Bounded == INSTANCE BoundedBuffer WITH
             Items <- Item, Capacity <- MAX,
             inside <- Inside, removed <- {taken[i] : i \in DOMAIN taken}

\* Either program is a bounded buffer: no item is overwritten, lost or handed
\* out twice, however many threads there are on each side.
BufferSpec == Bounded!Spec

At(threads, points) == Cardinality({t \in running \cap threads : pc[t] \in points})

\* The semaphores of prodconExtra.c account for every slot: those taken by
\* producers, filled, taken by consumers and free again.  So insert_item
\* always finds room and remove_item an item.
SlotsAccounted ==
  design = "semaphores" =>
    /\ empty + At(Producers, {"lock", "item"}) + count
         + At(Consumers, {"unlock", "post"}) = MAX
    /\ full + At(Producers, {"unlock", "post"}) + At(Consumers, {"lock", "item"}) = count

\* Nobody sleeps for ever while there is something for it to do: what can be
\* stored and taken by the threads there are is stored and taken in the end,
\* unless the process has exited.
WorkIsDone ==
  LET Smaller(a, b) == IF a < b THEN a ELSE b
      Puts == loops * Cardinality(running \cap Producers)
      Gets == IF design = "semaphores" /\ running \cap Consumers # {} THEN Puts
              ELSE loops * Cardinality(running \cap Consumers)
  IN  <>[]\/ exited
          \/ Len(taken) = Smaller(Puts, Gets) /\ Len(stored) = Smaller(Puts, Gets + MAX)
=============================================================================
