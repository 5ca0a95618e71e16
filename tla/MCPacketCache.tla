--------------------------- MODULE MCPacketCache ---------------------------
(***************************************************************************)
(* Inputs for model-checking PacketCache: four payloads in three buckets.  *)
(* a, b and c share a bucket, and a and b a hash as well; the last bucket  *)
(* is empty for good.                                                      *)
(***************************************************************************)
EXTENDS PacketCache

SmallHash == [p \in Payload |-> CASE p = "a" -> 3
                                  [] p = "b" -> 3
                                  [] p = "c" -> 6
                                  [] OTHER -> 1]

\* Payloads of level 1 have several lengths.
Lengths == [p \in Payload |-> CASE p = "a" -> 76 [] p = "b" -> 80 [] OTHER -> 100]

Equality == {<<p, p>> : p \in Payload}
=============================================================================
