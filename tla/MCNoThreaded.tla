---------------------------- MODULE MCNoThreaded ----------------------------
(***************************************************************************)
(* Inputs for model-checking the readers: whole captures with records in   *)
(* and out of range, with and without repeated packets, and captures that  *)
(* are snapped or cut short; command lines with the options in all places. *)
(***************************************************************************)
EXTENDS NoThreaded

Record(length, ts, data) == [incl |-> length, orig |-> length, ts |-> ts, data |-> data]
File(records, cut) == <<"file", [records |-> records, cut |-> cut]>>

Captures ==
  { \* a repeated packet: the same second behind both, another one, end of file
    File(<<Record(132, 1, "p"), Record(132, 1, "p"), Record(60, 1, "q")>>, 0),
    File(<<Record(132, 1, "p"), Record(132, 2, "p")>>, 0),
    File(<<Record(128, 1, "q"), Record(2404, 1, "p"), Record(132, 1, "q"),
           Record(132, 1, "p")>>, 0),
    \* too small, too big, and a limit of the range
    File(<<Record(124, 1, "q"), Record(132, 2, "p"), Record(2404, 1, "p")>>, 0),
    \* no packet
    File(<<>>, 0),
    \* one packet snapped to its first 96 bytes; a packet cut short twice
    File(<<[incl |-> 96, orig |-> 140, ts |-> 1, data |-> "p"], Record(132, 1, "p")>>, 0),
    File(<<Record(128, 1, "q"), Record(132, 1, "p")>>, 40),
    File(<<Record(128, 1, "q"), Record(132, 1, "p")>>, 140) }

\* Two short captures, and options in one word, in two, and without a value.
F == File(<<Record(128, 1, "q")>>, 0)
G == File(<<Record(128, 1, "q"), Record(60, 1, "p")>>, 0)
Option(o) == <<"option", o>>
Is(n) == <<"value", n>>
Joined(o, n) == <<"joined", o, n>>

OneCommand == {<<Option("level"), Is(1), f>> : f \in Captures}

CommandSet ==
  {<<f>> : f \in Captures} \cup {<<Option("level"), Is(1), f, g>> : f, g \in Captures}
    \cup
  { <<F, Option("level"), Is(1), G>>, <<F, G, Option("thread"), Is(3)>>,
    <<Option("thread"), Is(10), F, Option("level"), Is(2), G>>,
    <<Joined("level", 1), F, G>>, <<F, Joined("thread", 3), G, Joined("level", 1), F>>,
    <<F, Joined("thread", 3)>>, <<Joined("level", 1), Joined("thread", 3), F>>,
    <<F, G, Option("level")>>, <<F, Option("level"), G>>, <<Option("level"), Option("thread"), F>>,
    <<F, Is(3), G>>,
    <<Option("level"), Is(3), F>>, <<Option("thread"), Is(1), F>>, <<Option("thread"), Is(11), F>>,
    <<>> }

\* Packet "p" has zeros, "q" has none but in its header.
Zeros == {<<"data", "p", 70>>, <<"data", "p", 128>>, <<"data", "q", 20>>}

Words == {0, 128, 5000}

\* Payloads of the same length share a bucket.
LengthBucket(p) == Cardinality(DOMAIN p) % NumBuckets
=============================================================================
