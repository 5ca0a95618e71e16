----------------------------- MODULE MCLevel22 -----------------------------
(***************************************************************************)
(* Inputs for model-checking Level22.                                      *)
(***************************************************************************)
EXTENDS Level22, TLC

\* Two files; each ends with a record that is made up from the last one.
TwoFiles == << <<1>>, <<0, 1>> >>

\* All windows share a bucket.  What is made up repeats the record before it.
Repeating == [e \in Entry |-> IF e[1] = 1 THEN "a" ELSE "b"]

OneBucket == [p \in Payload |-> 0]

ConsumerSymmetry == Permutations(Consumers)
=============================================================================
