---------------------------- MODULE TwoLockQueue ----------------------------
(***************************************************************************)
(* The concurrent queue of threadedRE.c: a linked list with a dummy node,  *)
(* one mutex for each end, and memory from malloc and free.  Its callers   *)
(* are any number of threads that push and threads that pop, with no lock  *)
(* of their own, which is what the queue is built for; threadedRE.c itself *)
(* calls it under countlock.                                               *)
(*                                                                         *)
(* One action is one access to memory that another thread may also access. *)
(*                                                                         *)
(* A definition headed "Fault:" is a faulty variant of the one after it.   *)
(***************************************************************************)
EXTENDS Integers, Sequences, FiniteSets

CONSTANTS
  Pushers, Poppers,  \* the threads
  Item,              \* what is pushed, each item once
  Node,              \* addresses of nodes
  NULL, Unlocked,
  NoItem

ASSUME QueueAssumption ==
  /\ Pushers \cap Poppers = {}
  /\ NULL \notin Node
  /\ NoItem \notin Item
  /\ Unlocked \notin Pushers \cup Poppers
  /\ IsFiniteSet(Node)

VARIABLES
  head, tail,          \* the two pointers of queue_t
  headLock, tailLock,  \* owners of its mutexes
  next, p,             \* the fields of each node
  live,                \* addresses that malloc has given out
  pc,                  \* control point of each thread
  tmp,                 \* each thread's local pointer tmp
  newHead,             \* each popper's local pointer newHead
  got,                 \* what each popper has copied to *p
  pushed, popped,      \* items given to queue_push, items returned (history)
  alive                \* the process has not been killed

ends   == <<head, tail>>
locks  == <<headLock, tailLock>>
heap   == <<next, p, live>>
locals == <<tmp, newHead, got>>
queueVars == <<ends, locks, heap, pc, locals, pushed, popped, alive>>

Goto(t, point) == pc' = [pc EXCEPT ![t] = point]

\* The call returns and its local variables are gone.
Return(t) ==
  /\ Goto(t, "idle")
  /\ tmp' = [tmp EXCEPT ![t] = NULL]
  /\ IF t \in Poppers
     THEN /\ newHead' = [newHead EXCEPT ![t] = NULL]
          /\ got' = [got EXCEPT ![t] = NoItem]
     ELSE UNCHANGED <<newHead, got>>

-----------------------------------------------------------------------------
(* queue_push.                                                             *)

\* malloc gives any free address; nobody else knows the node yet.
PushAlloc(t) ==
  /\ pc[t] = "idle"
  /\ \E n \in Node \ live, item \in Item \ pushed :
       /\ live' = live \cup {n}
       /\ p' = [p EXCEPT ![n] = item]
       /\ next' = [next EXCEPT ![n] = NULL]
       /\ tmp' = [tmp EXCEPT ![t] = n]
       /\ pushed' = pushed \cup {item}
  /\ Goto(t, "lock")
  /\ UNCHANGED <<ends, locks, newHead, got, popped, alive>>

\* There is no memory: the node is not written, but the call goes on.
PushAllocFails(t) ==
  /\ pc[t] = "idle"
  /\ \E item \in Item \ pushed : pushed' = pushed \cup {item}
  /\ Goto(t, "lock")
  /\ UNCHANGED <<ends, locks, heap, locals, popped, alive>>

PushLock(t) ==
  /\ pc[t] = "lock"
  /\ tailLock = Unlocked
  /\ tailLock' = t
  /\ Goto(t, "link")
  /\ UNCHANGED <<ends, headLock, heap, locals, pushed, popped, alive>>

\* Fault: the mutex is released before the tail is moved.
PushUnlocksEarly(t) ==
  /\ pc[t] = "link"
  /\ tail # NULL
  /\ next' = [next EXCEPT ![tail] = tmp[t]]
  /\ tailLock' = Unlocked
  /\ Goto(t, "advance")
  /\ UNCHANGED <<ends, headLock, p, live, locals, pushed, popped, alive>>

PushLink(t) ==
  /\ pc[t] = "link"
  /\ tail # NULL
  /\ next' = [next EXCEPT ![tail] = tmp[t]]
  /\ Goto(t, "advance")
  /\ UNCHANGED <<ends, locks, p, live, locals, pushed, popped, alive>>

\* The push behind one without a node writes through a null pointer.
PushFaults(t) ==
  /\ pc[t] = "link"
  /\ tail = NULL
  /\ alive' = FALSE
  /\ UNCHANGED <<ends, locks, heap, pc, locals, pushed, popped>>

PushAdvance(t) ==
  /\ pc[t] = "advance"
  /\ tail' = tmp[t]
  /\ Goto(t, "unlock")
  /\ UNCHANGED <<head, locks, heap, locals, pushed, popped, alive>>

PushUnlock(t) ==
  /\ pc[t] = "unlock"
  /\ tailLock' = Unlocked
  /\ Return(t)
  /\ UNCHANGED <<ends, headLock, heap, pushed, popped, alive>>

-----------------------------------------------------------------------------
(* queue_pop.                                                              *)

\* Fault: the mutex does not exclude other poppers.
PopLockShared(t) ==
  /\ pc[t] = "idle"
  /\ headLock' = t
  /\ Goto(t, "first")
  /\ UNCHANGED <<ends, tailLock, heap, locals, pushed, popped, alive>>

PopLock(t) ==
  /\ pc[t] = "idle"
  /\ headLock = Unlocked
  /\ headLock' = t
  /\ Goto(t, "first")
  /\ UNCHANGED <<ends, tailLock, heap, locals, pushed, popped, alive>>

\* tmp = q->head, newHead = tmp->next: a push may be at work on that field.
PopFirst(t) ==
  /\ pc[t] = "first"
  /\ tmp' = [tmp EXCEPT ![t] = head]
  /\ newHead' = [newHead EXCEPT ![t] = next[head]]
  /\ Goto(t, IF next[head] = NULL THEN "empty" ELSE "copy")
  /\ UNCHANGED <<ends, locks, heap, got, pushed, popped, alive>>

\* The return value is -1 and *p is not assigned.
PopEmpty(t) ==
  /\ pc[t] = "empty"
  /\ headLock' = Unlocked
  /\ Return(t)
  /\ UNCHANGED <<ends, tailLock, heap, pushed, popped, alive>>

PopCopy(t) ==
  /\ pc[t] = "copy"
  /\ got' = [got EXCEPT ![t] = p[newHead[t]]]
  /\ Goto(t, "swing")
  /\ UNCHANGED <<ends, locks, heap, tmp, newHead, pushed, popped, alive>>

\* Fault: the new head is freed in place of the old one.
SwingSwapped(t) ==
  /\ pc[t] = "swing"
  /\ head' = newHead[t]
  /\ tmp' = [tmp EXCEPT ![t] = newHead[t]]
  /\ Goto(t, "unlock")
  /\ UNCHANGED <<tail, locks, heap, newHead, got, pushed, popped, alive>>

PopSwing(t) ==
  /\ pc[t] = "swing"
  /\ head' = newHead[t]
  /\ Goto(t, "unlock")
  /\ UNCHANGED <<tail, locks, heap, locals, pushed, popped, alive>>

PopUnlock(t) ==
  /\ pc[t] = "unlock"
  /\ headLock' = Unlocked
  /\ Goto(t, "free")
  /\ UNCHANGED <<ends, tailLock, heap, locals, pushed, popped, alive>>

\* Fault: the old head is not freed.
PopLeaks(t) ==
  /\ pc[t] = "free"
  /\ popped' = popped \cup {got[t]}
  /\ Return(t)
  /\ UNCHANGED <<ends, locks, heap, pushed, alive>>

\* free(tmp), outside the mutex, and the return to the caller.  What a freed
\* node holds is of no use to anybody (NoUseAfterFree), so it is cleared.
PopFree(t) ==
  /\ pc[t] = "free"
  /\ live' = live \ {tmp[t]}
  /\ next' = [next EXCEPT ![tmp[t]] = NULL]
  /\ p' = [p EXCEPT ![tmp[t]] = NoItem]
  /\ popped' = popped \cup {got[t]}
  /\ Return(t)
  /\ UNCHANGED <<ends, locks, pushed, alive>>

-----------------------------------------------------------------------------
(* queue_init: one dummy node.                                             *)
QueueInit ==
  /\ \E dummy \in Node : head = dummy /\ tail = dummy /\ live = {dummy}
  /\ headLock = Unlocked
  /\ tailLock = Unlocked
  /\ next = [n \in Node |-> NULL]
  /\ p = [n \in Node |-> NoItem]
  /\ pc = [t \in Pushers \cup Poppers |-> "idle"]
  /\ tmp = [t \in Pushers \cup Poppers |-> NULL]
  /\ newHead = [t \in Poppers |-> NULL]
  /\ got = [t \in Poppers |-> NoItem]
  /\ pushed = {}
  /\ popped = {}
  /\ alive = TRUE

Push(t) ==
  \/ PushAlloc(t) \/ PushAllocFails(t) \/ PushLock(t)
  \/ PushLink(t) \/ PushFaults(t) \/ PushAdvance(t) \/ PushUnlock(t)

Pop(t) ==
  \/ PopLock(t) \/ PopFirst(t) \/ PopEmpty(t)
  \/ PopCopy(t) \/ PopSwing(t) \/ PopUnlock(t) \/ PopFree(t)

Killed == ~alive /\ UNCHANGED queueVars

QueueNext ==
  \/ alive /\ ((\E t \in Pushers : Push(t)) \/ (\E t \in Poppers : Pop(t)))
  \/ Killed

QueueSpec == QueueInit /\ [][QueueNext]_queueVars

-----------------------------------------------------------------------------
(* Properties.                                                             *)

\* No step touches a node that has been freed, although the tail may point
\* to a freed node for a while: a pop can take the new node and free the old
\* one between the two assignments of a push.
NoUseAfterFree ==
  /\ \A t \in Pushers :
       pc[t] = "link" => tail \in live \cup {NULL} /\ tmp[t] \in live \cup {NULL}
  /\ \A t \in Poppers :
       /\ pc[t] = "first" => head \in live
       /\ pc[t] \in {"copy", "swing"} => newHead[t] \in live
       /\ pc[t] \in {"swing", "unlock", "free"} => tmp[t] \in live

\* Walk[i] is the node i links away from the head.
Walk[i \in 0..Cardinality(Node)] ==
  IF i = 0 THEN head
  ELSE IF Walk[i - 1] = NULL THEN NULL ELSE next[Walk[i - 1]]

\* The items in the queue, oldest first.
Contents ==
  LET n == CHOOSE k \in 0..Cardinality(Node) :
             Walk[k] # NULL /\ (k = Cardinality(Node) \/ Walk[k + 1] = NULL)
  IN  [i \in 1..n |-> p[Walk[i]]]

\* When no call is in progress the nodes in use are those of the list: one
\* for each item and the dummy.
NoLeak ==
  (\A t \in Pushers \cup Poppers : pc[t] = "idle") =>
     /\ live = {Walk[i] : i \in 0..Cardinality(Node)} \ {NULL}
     /\ Cardinality(live) = 1 + Len(Contents)

\* Nothing is lost but the one item whose push got no memory; the tail is null
\* from then on, and the push that comes next ends the process.
OneLost ==
  (\A t \in Pushers \cup Poppers : pc[t] = "idle") =>
     LET lost == pushed \ (popped \cup {Contents[i] : i \in DOMAIN Contents})
     IN  Cardinality(lost) = IF tail = NULL THEN 1 ELSE 0

\* The queue is a FIFO that hands out each item once: a push takes effect
\* when it links its node, a pop when it moves the head.
Fifo == INSTANCE PacketFlow WITH
          Workers <- Poppers, Entries <- Item, NoEntry <- NoItem,
          queue <- Contents,
          held <- [t \in Poppers |-> IF pc[t] \in {"unlock", "free"} THEN got[t] ELSE NoItem],
          finished <- popped

FifoSpec == Fifo!Spec
=============================================================================
