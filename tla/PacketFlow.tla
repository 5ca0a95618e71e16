----------------------------- MODULE PacketFlow -----------------------------
(***************************************************************************)
(* What the buffer between the producer and the consumers promises: every  *)
(* entry enters once, leaves in the order of entry to exactly one worker,  *)
(* and is finished by that worker.  There is no lock, counter or condition *)
(* variable here.                                                          *)
(***************************************************************************)
EXTENDS Integers, Sequences, SequencesExt

CONSTANTS Workers, Entries, NoEntry

VARIABLES
  queue,    \* entries that nobody has taken, oldest first
  held,     \* the entry each worker has in hand, or NoEntry
  finished  \* the entries that some worker has finished

flowVars == <<queue, held, finished>>

Init ==
  /\ queue = <<>>
  /\ held = [w \in Workers |-> NoEntry]
  /\ finished = {}

\* Entries never seen before join the queue at its end.
Produce ==
  /\ IsPrefix(queue, queue')
  /\ IsInjective(queue')
  /\ LET new == {queue'[i] : i \in (Len(queue) + 1)..Len(queue')}
     IN  /\ new \subseteq Entries
         /\ new \cap (finished \cup {held[w] : w \in Workers}) = {}
  /\ UNCHANGED <<held, finished>>

Take(w) ==
  /\ held[w] = NoEntry
  /\ queue # <<>>
  /\ held' = [held EXCEPT ![w] = Head(queue)]
  /\ queue' = Tail(queue)
  /\ UNCHANGED finished

Finish(w) ==
  /\ held[w] # NoEntry
  /\ finished' = finished \cup {held[w]}
  /\ held' = [held EXCEPT ![w] = NoEntry]
  /\ UNCHANGED queue

Next == Produce \/ \E w \in Workers : Take(w) \/ Finish(w)

Spec == Init /\ [][Next]_flowVars
=============================================================================
