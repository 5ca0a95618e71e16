----------------------------- MODULE NoThreaded -----------------------------
(***************************************************************************)
(* noThreaded.c, the sequential prototype: a reading loop that does not    *)
(* test for the end of the file, and the table looked up on the spot.  It  *)
(* runs beside the reader of threadedRE.c, over the same captures.         *)
(*                                                                         *)
(* Payloads with the same hash are taken to be the same; they may share a  *)
(* bucket without that.                                                    *)
(***************************************************************************)
EXTENDS PcapReader

CONSTANTS
  NumBuckets,  \* 30000 in the code
  BucketOf(_)  \* hash of a payload, modulo NumBuckets

VARIABLES
  table,                           \* g_MyBigTable, the chain of each bucket
  cacheHits, totalDuplicateBytes,  \* as in the code
  totalBytes,
  checked                          \* payloads looked up: file, place, bytes (history)

resultVars == <<cacheHits, totalDuplicateBytes, totalBytes>>
checkVars  == <<table, resultVars, checked>>
allVars    == <<readerVars, checkVars>>

\* Where the walk behind the head of a chain stops.
Stop(chain, p) ==
  LET matches == {i \in 2..Len(chain) : chain[i] = p}
  IN  IF matches = {} THEN Len(chain) ELSE CHOOSE i \in matches : \A j \in matches : i <= j

\* The bucket is the cursor of the walk and stays where a match was found.
checkPacketsForDuplicates(p, bytes) ==
  LET chain == table[BucketOf(p)]
      hits  == Cardinality({i \in {1, Stop(chain, p)} \cap DOMAIN chain : chain[i] = p})
  IN  /\ table' = [table EXCEPT ![BucketOf(p)] =
                     IF hits = 0 THEN Append(chain, p)
                                 ELSE SubSeq(chain, Stop(chain, p), Len(chain))]
      /\ cacheHits' = cacheHits + hits
      /\ totalDuplicateBytes' = totalDuplicateBytes + (IF hits = 0 THEN 0 ELSE bytes)

\* The read of the length: what it does not reach keeps what was there.
LengthsRead(at) ==
  CASE BytesRead(cap, at, 4) = 4 -> WordAt(cap, at)
    [] BytesRead(cap, at, 4) = 0 -> {nPacketLength}
    [] OTHER -> OtherWords

\* One turn of the loop of DumpAllPacketLengths.
DumpTurn ==
  LET at   == Sought(cap, pos, 8)
      body == Sought(cap, at, 8)
  IN  /\ program = "noThreaded"
      /\ pc = "loop"
      /\ ~eof
      /\ \E n \in LengthsRead(at) :
           /\ nPacketLength' = n
           /\ \/ Skip(body, n) /\ UNCHANGED checkVars
              \/ /\ Payload(body, n)
                 /\ LET read  == payloads'[Len(payloads')]
                        bytes == [i \in 0..(read.bytes - 1) |-> byData'[i]]
                    IN  /\ totalBytes' = totalBytes + read.bytes
                        /\ checkPacketsForDuplicates(bytes, read.bytes)
                        /\ checked' = Append(checked, [cap |-> cap, from |-> read.from,
                                                       bytes |-> bytes])
      /\ UNCHANGED <<commandVars, cap, files, pc, windowVars>>

NoThreadedInit ==
  /\ ReaderInit
  /\ table = [b \in 0..(NumBuckets - 1) |-> <<>>]
  /\ cacheHits = 0 /\ totalDuplicateBytes = 0 /\ totalBytes = 0
  /\ checked = <<>>

ReadStep == (NextOption \/ Start \/ Open \/ OpenFails \/ Turn \/ LoopEnds \/ PushWindow) /\ UNCHANGED checkVars

Stopped ==
  \/ pc \in {"exit", "killed"}
  \/ pc \in {"open", "end"} /\ files = Len(filenames)

AllRead == Stopped /\ UNCHANGED allVars

NoThreadedNext == ReadStep \/ DumpTurn \/ AllRead

\* Both are sequential programs: they go on while they can.  Every step moves
\* on in the command line, the program, the stream or the windows.
progress == <<parsed, pc, files, stream, left>>

ReadersSpec == NoThreadedInit /\ [][NoThreadedNext]_allVars /\ WF_progress(NoThreadedNext)

-----------------------------------------------------------------------------
(* Properties.                                                             *)

\* Every reading loop ends, but for that of noThreaded.c when the length left
\* at the end of the file is out of range, which is then skipped over and over:
\* for a whole capture, exactly when its last record is out of range.
Stuck ==
  program = "noThreaded" /\ pc = "loop" /\ pos = Size(cap) /\ ~eof /\ ~InRange(nPacketLength)

LoopsEnd ==
  <>[]/\ Stopped <=> ~Stuck
      /\ program = "noThreaded" /\ level = 1 /\ files > 0 /\ Whole(cap) /\ LengthGiven =>
           (Stuck <=> ~InRange(cap.records[Len(cap.records)].orig))

\* The packet a payload comes from, and the second in the record behind it, if any.
Origin(c) ==
  LET r == RecordAt(c.cap, c.from)
      records == c.cap.records
  IN  <<records[r].data, records[r].orig,
        {records[s].ts : s \in {r + 1} \cap DOMAIN records}>>

\* Packets that have something to tell them by: none is all zeros behind the
\* bytes left out, and none was captured in the second 0, in 1970.
Legible(capture) ==
  \A r \in DOMAIN capture.records :
    /\ \E k \in 56..127 : <<"data", capture.records[r].data, k>> \notin ZeroBytes
    /\ \E k \in 0..3 : <<"ts_sec", capture.records[r].ts, k>> \notin ZeroBytes

\* A packet counts as redundant only if the packets behind it and behind its
\* earlier copy were captured in the same second, and always then unless two
\* payloads share a bucket.
RedundantInSameSecond ==
  (\A i \in DOMAIN checked : LET capture == checked[i].cap
                            IN  Whole(capture) /\ capture.records # <<>> /\ Legible(capture)) =>
    LET Repeats == {i \in DOMAIN checked :
                      \E j \in 1..(i - 1) : Origin(checked[j]) = Origin(checked[i])}
    IN  /\ \A i, j \in DOMAIN checked :
             checked[i].bytes = checked[j].bytes <=> Origin(checked[i]) = Origin(checked[j])
        /\ cacheHits <= Cardinality(Repeats)
        /\ (\A i, j \in DOMAIN checked :
              BucketOf(checked[i].bytes) = BucketOf(checked[j].bytes)
                => checked[i].bytes = checked[j].bytes)
           => cacheHits = Cardinality(Repeats)
=============================================================================
