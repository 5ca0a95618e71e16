--------------------------- MODULE MCTwoLockQueue ---------------------------
(***************************************************************************)
(* TwoLockQueue for model checking: two threads at each end, and fewer     *)
(* addresses than nodes allocated in all, so that addresses are used again.*)
(***************************************************************************)
EXTENDS TwoLockQueue, TLC

QueueSymmetry ==
  Permutations(Pushers) \cup Permutations(Poppers)
    \cup Permutations(Item) \cup Permutations(Node)
=============================================================================
