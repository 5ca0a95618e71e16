-------------------------- MODULE RedundancyFilter --------------------------
(***************************************************************************)
(* What the cache promises to the statistics: it knows some of the items   *)
(* it was asked about; a query for an item counts as a hit, with the       *)
(* weight of the item, exactly when an item that is the same is known.  It *)
(* may forget items at any query, and learns none but the one asked for.   *)
(* The weight of an item depends on a mode that is fixed from the start.   *)
(***************************************************************************)
EXTENDS Integers

CONSTANTS Items, Weight, Same

VARIABLES mode, known, hits, weight

filterVars == <<mode, known, hits, weight>>

Known(p) == \E e \in known : <<e, p>> \in Same

Init == mode \in DOMAIN Weight /\ known = {} /\ hits = 0 /\ weight = 0

Report(p) ==
  /\ Known(p)
  /\ hits' = hits + 1
  /\ weight' = weight + Weight[mode][p]
  /\ known' \subseteq known

Learn(p) ==
  /\ ~Known(p)
  /\ known' \subseteq known \cup {p}
  /\ UNCHANGED <<hits, weight>>

Next == UNCHANGED mode /\ \E p \in Items : Report(p) \/ Learn(p)

Spec == Init /\ [][Next]_filterVars
=============================================================================
