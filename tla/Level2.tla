------------------------------- MODULE Level2 -------------------------------
(***************************************************************************)
(* level2.c, the program from which level 2 of threadedRE.c was made: the  *)
(* threads of level1.c, with windows of 64 bytes for payloads and a cache  *)
(* that is bounded.                                                        *)
(***************************************************************************)
EXTENDS Level1

CONSTANTS NodeSize, CacheLimit  \* sizeof(struct Node), 64000000

VARIABLE totalCacheSize

level2Vars == <<level1Vars, totalCacheSize>>

\* All windows of a record, under one acquisition of countlock.
PushWindows ==
  LET windows == Files[file][rec]
  IN  PushOnto([w \in 1..windows |-> <<file, rec, w>>], 64 * windows)

Room == totalCacheSize < CacheLimit - NodeSize

\* A window is inserted if it begins at a multiple of 32.  A full cache gives
\* up a node for it: the one where the walk of its bucket stopped, or if the
\* bucket is empty the first of the first bucket that is not.
CheckWindow(c) ==
  LET p       == Content[held[c]]
      chain   == table[BucketOf(p)]
      insert  == Matches(p) = {} /\ (held[c][3] - 1) % 32 = 0
      first   == Min({b \in DOMAIN table : table[b] # <<>>})
  IN  /\ Looked(c)
      /\ CountHits(p, 64)
      /\ \/ /\ insert /\ Room
            /\ table' = [table EXCEPT ![BucketOf(p)] = Append(chain, p)]
         \/ /\ insert /\ ~Room /\ chain # <<>>
            /\ table' = [table EXCEPT ![BucketOf(p)] = Append(Tail(FromCursor(p)), p)]
         \/ /\ insert /\ ~Room /\ chain = <<>>
            /\ table' = [table EXCEPT ![first] = Tail(@), ![BucketOf(p)] = <<p>>]
         \/ /\ ~insert
            /\ table' = [table EXCEPT ![BucketOf(p)] = FromCursor(p)]
      /\ totalCacheSize' = totalCacheSize + (IF insert /\ Room THEN NodeSize ELSE 0)

Level2Next ==
  \/ \E c \in Consumers : CheckWindow(c)
  \/ (Common \/ PushWindows) /\ UNCHANGED totalCacheSize

Level2Spec == Level1Init /\ totalCacheSize = 0 /\ [][Level2Next]_level2Vars
=============================================================================
