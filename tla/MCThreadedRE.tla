---------------------------- MODULE MCThreadedRE ----------------------------
(***************************************************************************)
(* Inputs for model-checking ThreadedRE.                                   *)
(***************************************************************************)
EXTENDS ThreadedRE

\* Level 1: a file of four records in range and one that is not.  Payload "a"
\* comes twice, "b" comes between in a bucket of its own.
Payloads1 == << <<1, 1, 0, 1, 1>> >>
Content1 == [e \in Entry |-> IF e[2] \in {2, 5} THEN "b" ELSE "a"]
Hash1 == [p \in Payload |-> IF p = "a" THEN 0 ELSE 1]

\* Level 2: two files; a record of several windows, a record out of range.  Two
\* windows share a bucket, one is not at a multiple of 32, and the cache holds
\* two nodes, so that windows are evicted from their own bucket and another.
Windows2 == << <<2, 1, 1>>, <<1, 0, 1>> >>
Content2 == [e \in Entry |-> CASE e[3] = 2 -> "b" [] e = <<1, 3, 1>> -> "d"
                               [] e \in {<<1, 2, 1>>, <<2, 3, 1>>} -> "c" [] OTHER -> "a"]
Hash2 == [p \in Payload |-> CASE p = "a" -> 0 [] p = "b" -> 3 [] p = "c" -> 2 [] p = "d" -> 1]

Lengths == [p \in Payload |-> IF p = "a" THEN 76 ELSE 300]
Equality == {<<p, p>> : p \in Payload}

ConsumerSymmetry == Permutations(Consumers)
=============================================================================
