--------------------------- MODULE BoundedBuffer ---------------------------
(***************************************************************************)
(* What a bounded buffer promises, whatever it synchronises with and in    *)
(* whatever order it hands out its items: an item enters once, while there *)
(* is room, and is taken once.                                             *)
(***************************************************************************)
EXTENDS Integers, FiniteSets

CONSTANTS Items, Capacity

VARIABLES inside, removed

Init == inside = {} /\ removed = {}

Enter ==
  /\ Cardinality(inside) < Capacity
  /\ \E x \in Items \ (inside \cup removed) : inside' = inside \cup {x}
  /\ UNCHANGED removed

Leave ==
  \E x \in inside :
    /\ inside' = inside \ {x}
    /\ removed' = removed \cup {x}

Spec == Init /\ [][Enter \/ Leave]_<<inside, removed>>
=============================================================================
