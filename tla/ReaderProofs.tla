---------------------------- MODULE ReaderProofs ----------------------------
(***************************************************************************)
(* Proofs about PcapReader and NoThreaded: which files are read, where the *)
(* readers are in a capture, whose bytes are in the windows, which windows *)
(* the cache finds equal, and what noThreaded.c counts, for every command  *)
(* line and every capture.                                                 *)
(***************************************************************************)
EXTENDS NoThreaded, FiniteSetTheorems, SequenceTheorems, WellFoundedInduction, TLAPS

\* A set of natural numbers that is not empty has a least element.
LEMMA LeastNumber ==
  ASSUME NEW S \in SUBSET Nat, S # {}
  PROVE  \E i \in S : \A j \in S : i <= j
<1>1. PICK i \in S : \A j \in S : ~(<<j, i>> \in OpToRel(<, Nat))
  BY NatLessThanWellFounded, WFMin
<1>2. \A j \in S : ~(j < i)
  BY <1>1 DEF OpToRel
<1> QED
  BY <1>2

\* Induction over the natural numbers, for a property given as a set.
LEMMA NatSetInduction ==
  ASSUME NEW P \in SUBSET Nat, 0 \in P, \A n \in P : n + 1 \in P
  PROVE  \A n \in Nat : n \in P
<1> SUFFICES ASSUME Nat \ P # {} PROVE FALSE
  OBVIOUS
<1>1. PICK n \in Nat \ P : \A m \in Nat \ P : n <= m
  BY LeastNumber
<1>2. n - 1 \in Nat /\ n - 1 \notin Nat \ P
  BY <1>1
<1>3. (n - 1) + 1 \in P
  BY <1>2
<1> QED
  BY <1>1, <1>3

-----------------------------------------------------------------------------
(***************************************************************************)
(* Captures.                                                               *)
(***************************************************************************)

\* The headers up to any record have their places: the recursion ends.
LEMMA HeadersExist ==
  ASSUME NEW c, NEW n \in Nat
  PROVE  \E at : at = [r \in 1..(n + 1) |->
                         IF r = 1 THEN 24 ELSE at[r - 1] + 16 + c.records[r - 1].incl]
<1> DEFINE Partial(at, m) ==
             at = [r \in 1..(m + 1) |->
                     IF r = 1 THEN 24 ELSE at[r - 1] + 16 + c.records[r - 1].incl]
           P == {m \in Nat : \E at : Partial(at, m)}
<1>1. 0 \in P
  <2> DEFINE at == [r \in 1..(0 + 1) |-> 24]
  <2>1. Partial(at, 0)
    OBVIOUS
  <2> QED
    BY <2>1
<1>2. ASSUME NEW m \in P PROVE m + 1 \in P
  <2>0. m \in Nat
    OBVIOUS
  <2>1. PICK at : Partial(at, m)
    OBVIOUS
  <2> DEFINE next == [r \in 1..((m + 1) + 1) |->
                        IF r = 1 THEN 24 ELSE at[r - 1] + 16 + c.records[r - 1].incl]
  <2>2. \A r \in 1..(m + 1) : next[r] = at[r]
    <3>1. \A r \in 1..(m + 1) :
             at[r] = IF r = 1 THEN 24 ELSE at[r - 1] + 16 + c.records[r - 1].incl
      BY <2>1
    <3>2. \A r \in 1..(m + 1) : r \in 1..((m + 1) + 1)
      BY <2>0
    <3>3. \A r \in 1..((m + 1) + 1) :
             next[r] = IF r = 1 THEN 24 ELSE at[r - 1] + 16 + c.records[r - 1].incl
      OBVIOUS
    <3> HIDE DEF next
    <3> QED
      BY <3>1, <3>2, <3>3
  <2>3. \A r \in 1..((m + 1) + 1) : r # 1 => r - 1 \in 1..(m + 1)
    BY <2>0
  <2>4. \A r \in 1..((m + 1) + 1) :
          (IF r = 1 THEN 24 ELSE at[r - 1] + 16 + c.records[r - 1].incl)
             = IF r = 1 THEN 24 ELSE next[r - 1] + 16 + c.records[r - 1].incl
    BY <2>2, <2>3
  <2>5. Partial(next, m + 1)
    BY <2>4
  <2> HIDE DEF Partial, next
  <2> QED
    BY <2>0, <2>5
<1> HIDE DEF P
<1>3. n \in P
  BY <1>1, <1>2, NatSetInduction DEF P
<1> QED
  BY <1>3 DEF P

\* Where the headers are.
LEMMA Headers ==
  ASSUME NEW c, IsCapture(c)
  PROVE  /\ HeaderAt(c)[1] = 24
         /\ \A r \in 1..Len(c.records) :
              HeaderAt(c)[r + 1] = HeaderAt(c)[r] + 16 + c.records[r].incl
<1> DEFINE L == Len(c.records)
           at == HeaderAt(c)
           Step(r) == IF r = 1 THEN 24 ELSE at[r - 1] + 16 + c.records[r - 1].incl
<1>1. L \in Nat
  BY DEF IsCapture
<1>2. at = [r \in 1..(L + 1) |-> Step(r)]
  BY <1>1, HeadersExist DEF HeaderAt
<1>3. \A r \in 1..(L + 1) : at[r] = Step(r)
  <2> DEFINE V == [r \in 1..(L + 1) |-> Step(r)]
  <2>1. \A r \in 1..(L + 1) : V[r] = Step(r)
    OBVIOUS
  <2>2. at = V
    BY <1>2
  <2> HIDE DEF V, at
  <2> QED
    BY <2>1, <2>2, Zenon
<1> HIDE DEF at
<1>4. at[1] = 24
  <2>1. 1 \in 1..(L + 1)
    BY <1>1
  <2> QED
    BY <1>3, <2>1
<1>5. ASSUME NEW r \in 1..L PROVE at[r + 1] = at[r] + 16 + c.records[r].incl
  <2>1. r + 1 \in 1..(L + 1) /\ r + 1 # 1 /\ (r + 1) - 1 = r
    BY <1>1
  <2> QED
    BY <1>3, <2>1
<1> QED
  BY <1>4, <1>5 DEF at

\* They are numbers, and lie 16 bytes apart at least.
LEMMA HeadersApart ==
  ASSUME NEW c, IsCapture(c)
  PROVE  /\ \A r \in 1..(Len(c.records) + 1) : HeaderAt(c)[r] \in Nat /\ HeaderAt(c)[r] >= 24
         /\ \A r, s \in 1..(Len(c.records) + 1) :
              r < s => HeaderAt(c)[r] + 16 <= HeaderAt(c)[s]
<1> DEFINE L == Len(c.records)
           at == HeaderAt(c)
<1>1. L \in Nat /\ \A r \in 1..L : c.records[r].incl \in Nat
  BY DEF IsCapture
<1>2. at[1] = 24 /\ \A r \in 1..L : at[r + 1] = at[r] + 16 + c.records[r].incl
  BY Headers
<1> HIDE DEF at, L
<1> DEFINE P == {n \in Nat : n <= L => at[n + 1] \in Nat /\ at[n + 1] >= 24}
           Q == {n \in Nat : \A r \in 1..(L + 1) :
                               r + n + 1 <= L + 1 => at[r] + 16 <= at[r + n + 1]}
<1>3. \A n \in Nat : n \in P
  <2>1. 0 \in P
    BY <1>2
  <2>2. ASSUME NEW n \in P PROVE n + 1 \in P
    <3> SUFFICES ASSUME n + 1 <= L PROVE at[(n + 1) + 1] \in Nat /\ at[(n + 1) + 1] >= 24
      OBVIOUS
    <3>1. n \in Nat /\ n + 1 \in 1..L /\ n <= L
      BY <1>1
    <3>2. at[(n + 1) + 1] = at[n + 1] + 16 + c.records[n + 1].incl
      BY <1>2, <3>1
    <3> QED
      BY <1>1, <3>1, <3>2
  <2> HIDE DEF P
  <2>3. P \in SUBSET Nat
    BY DEF P
  <2> QED
    BY <2>1, <2>2, <2>3, NatSetInduction
<1>4. \A r \in 1..(L + 1) : at[r] \in Nat /\ at[r] >= 24
  <2> SUFFICES ASSUME NEW r \in 1..(L + 1) PROVE at[r] \in Nat /\ at[r] >= 24
    OBVIOUS
  <2>1. r - 1 \in Nat /\ r - 1 <= L /\ (r - 1) + 1 = r
    BY <1>1
  <2>2. at[(r - 1) + 1] \in Nat /\ at[(r - 1) + 1] >= 24
    BY <1>3, <2>1
  <2> QED
    BY <2>1, <2>2
<1>5. \A n \in Nat : n \in Q
  <2>1. 0 \in Q
    <3> SUFFICES ASSUME NEW r \in 1..(L + 1), r + 0 + 1 <= L + 1
                 PROVE  at[r] + 16 <= at[r + 0 + 1]
      OBVIOUS
    <3>1. r \in 1..L /\ r + 0 + 1 = r + 1
      BY <1>1
    <3>2. at[r + 1] = at[r] + 16 + c.records[r].incl
      BY <1>2, <3>1
    <3> QED
      BY <1>1, <1>4, <3>1, <3>2
  <2>2. ASSUME NEW n \in Q PROVE n + 1 \in Q
    <3> SUFFICES ASSUME NEW r \in 1..(L + 1), r + (n + 1) + 1 <= L + 1
                 PROVE  at[r] + 16 <= at[r + (n + 1) + 1]
      OBVIOUS
    <3>1. n \in Nat /\ r + n + 1 \in 1..L /\ r + (n + 1) + 1 = (r + n + 1) + 1
      BY <1>1
    <3>2. at[r] + 16 <= at[r + n + 1]
      BY <1>1, <3>1
    <3>3. at[(r + n + 1) + 1] = at[r + n + 1] + 16 + c.records[r + n + 1].incl
      BY <1>2, <3>1
    <3>4. at[r] \in Nat /\ at[r + n + 1] \in Nat
      BY <1>1, <1>4, <3>1
    <3> HIDE DEF Q
    <3> QED
      BY <1>1, <3>1, <3>2, <3>3, <3>4
  <2> HIDE DEF Q
  <2>3. Q \in SUBSET Nat
    BY DEF Q
  <2> QED
    BY <2>1, <2>2, <2>3, NatSetInduction
<1>6. ASSUME NEW r \in 1..(L + 1), NEW s \in 1..(L + 1), r < s
      PROVE  at[r] + 16 <= at[s]
  <2>1. s - r - 1 \in Nat /\ r + (s - r - 1) + 1 = s /\ s <= L + 1
    BY <1>1, <1>6
  <2>2. s - r - 1 \in Q
    BY <1>5, <2>1
  <2> QED
    BY <2>1, <2>2
<1> QED
  BY <1>4, <1>6 DEF at, L

\* Where a reader is after k records of a whole capture: four bytes behind
\* the next header's first, or at the end.
StandAt(c, k) ==
  IF HeaderAt(c)[k + 1] + 4 < Size(c) THEN HeaderAt(c)[k + 1] + 4 ELSE Size(c)

\* Behind the last record nothing is left to read.
LEMMA StandAtEnd ==
  ASSUME NEW c, IsCapture(c), Whole(c)
  PROVE  /\ Size(c) \in Nat
         /\ StandAt(c, Len(c.records)) = Size(c)
         /\ Sought(c, Size(c), 8) = Size(c)
         /\ BytesRead(c, Size(c), 4) = 0
<1> DEFINE L == Len(c.records)
           end == HeaderAt(c)[L + 1]
<1>1. L \in Nat
  BY DEF IsCapture
<1>2. end \in Nat
  BY <1>1, HeadersApart
<1>3. Size(c) = end
  BY <1>2 DEF Size, Whole
<1>4. StandAt(c, L) = IF end + 4 < end THEN end + 4 ELSE end
  BY <1>3 DEF StandAt
<1> HIDE DEF end
<1> QED
  BY <1>2, <1>3, <1>4 DEF Sought, BytesRead

\* What a turn reads, from the header at h of a record of n bytes.
TurnReads(c, h, n, size) ==
  /\ h + 4 < size
  /\ Sought(c, h + 4, 8) = h + 12
  /\ BytesRead(c, h + 12, 4) = 4
  /\ Sought(c, Sought(c, h + 12, 8), n) = IF h + 20 + n < size THEN h + 20 + n ELSE size
  /\ InRange(n) =>
       /\ Sought(c, Sought(c, h + 12, 8), 52) = h + 72
       /\ BytesRead(c, h + 72, n - 52) = IF size = h + 16 + n THEN n - 56 ELSE n - 52

\* It does so if the file goes on behind the record, or ends with it.
LEMMA TurnArithmetic ==
  ASSUME NEW c, NEW h \in Nat, NEW n \in Nat, NEW size \in Nat, size = Size(c),
         size = h + 16 + n \/ size >= h + 32 + n
  PROVE  TurnReads(c, h, n, size)
<1>1. /\ \A p, d : Sought(c, p, d) = IF p + d < size THEN p + d ELSE size
      /\ \A p, d : BytesRead(c, p, d) = Sought(c, p, d) - p
  BY DEF Sought, BytesRead
<1>2. h + 4 < size
  OBVIOUS
<1>3. Sought(c, h + 4, 8) = h + 12
  BY <1>1
<1>4. Sought(c, h + 12, 4) = h + 16
  BY <1>1
<1>5. BytesRead(c, h + 12, 4) = 4
  BY <1>1, <1>4
<1>6. Sought(c, h + 12, 8) = IF h + 20 < size THEN h + 20 ELSE size
  BY <1>1
<1>7. Sought(c, Sought(c, h + 12, 8), n) = IF h + 20 + n < size THEN h + 20 + n ELSE size
  BY <1>1, <1>6
<1>8. ASSUME InRange(n)
      PROVE  /\ Sought(c, Sought(c, h + 12, 8), 52) = h + 72
             /\ BytesRead(c, h + 72, n - 52) = IF size = h + 16 + n THEN n - 56 ELSE n - 52
  <2>1. 128 <= n
    BY <1>8 DEF InRange
  <2>2. Sought(c, Sought(c, h + 12, 8), 52) = h + 72
    BY <1>1, <1>6, <2>1
  <2>3. Sought(c, h + 72, n - 52) = IF h + 20 + n < size THEN h + 20 + n ELSE size
    BY <1>1, <2>1
  <2>4. BytesRead(c, h + 72, n - 52) = Sought(c, h + 72, n - 52) - (h + 72)
    BY <1>1
  <2> QED
    BY <2>2, <2>3, <2>4
<1> QED
  BY <1>2, <1>3, <1>5, <1>7, <1>8 DEF TurnReads

\* What the next turn reads and where it leaves the reader: the length is
\* orig_len, and the payload ends at the next header's second word.
LEMMA RecordTurn ==
  ASSUME NEW c, IsCapture(c), Whole(c), NEW k \in 0..(Len(c.records) - 1)
  PROVE  LET h == HeaderAt(c)[k + 1]
             n == c.records[k + 1].orig
         IN  /\ h \in Nat /\ n \in Nat
             /\ StandAt(c, k) = h + 4
             /\ Sought(c, h + 4, 8) = h + 12
             /\ BytesRead(c, h + 12, 4) = 4
             /\ WordAt(c, h + 12) = {n}
             /\ Sought(c, Sought(c, h + 12, 8), n) = StandAt(c, k + 1)
             /\ InRange(n) =>
                  /\ Sought(c, Sought(c, h + 12, 8), 52) = h + 72
                  /\ BytesRead(c, h + 72, n - 52) =
                       IF k + 1 = Len(c.records) THEN n - 56 ELSE n - 52
                  /\ h + 72 + BytesRead(c, h + 72, n - 52) = StandAt(c, k + 1)
                  /\ k + 1 = Len(c.records) => h + 72 + (n - 56) = Size(c)
<1> DEFINE L == Len(c.records)
           at == HeaderAt(c)
           size == Size(c)
           h == at[k + 1]
           n == c.records[k + 1].orig
<1>1. /\ L \in Nat /\ k \in Nat /\ k + 1 \in 1..L
      /\ n \in Nat /\ c.records[k + 1].incl = n
  BY DEF IsCapture, Whole
<1>2. \A r \in 1..(L + 1) : at[r] \in Nat
  BY HeadersApart
<1>3. \A r, s \in 1..(L + 1) : r < s => at[r] + 16 <= at[s]
  BY HeadersApart
<1>4. at[(k + 1) + 1] = h + 16 + n
  BY <1>1, Headers
<1>5. size = at[L + 1]
  BY <1>1, <1>2 DEF Size, Whole
<1>6. h \in Nat
  BY <1>1, <1>2
<1>7. size \in Nat
  BY <1>1, <1>2, <1>5
<1>8. WordAt(c, h + 12) = {n}
  <2>1. \A s \in 1..L : h + 12 # at[s] + 8
    <3> SUFFICES ASSUME NEW s \in 1..L, h + 12 = at[s] + 8 PROVE FALSE
      OBVIOUS
    <3>1. s \in 1..(L + 1) /\ k + 1 \in 1..(L + 1) /\ at[s] \in Nat
      BY <1>1, <1>2
    <3> HIDE DEF L
    <3>2. s < k + 1 => at[s] + 16 <= h
      BY <1>3, <3>1
    <3>3. k + 1 < s => h + 16 <= at[s]
      BY <1>3, <3>1
    <3>4. s = k + 1 => at[s] = h
      OBVIOUS
    <3>5. s < k + 1 \/ k + 1 < s \/ s = k + 1
      BY <1>1, <3>1
    <3> HIDE DEF h, at
    <3> QED
      BY <1>6, <3>1, <3>2, <3>3, <3>4, <3>5
  <2>2. \A s \in 1..L : h + 12 = at[s] + 12 <=> s = k + 1
    <3> SUFFICES ASSUME NEW s \in 1..L PROVE h + 12 = at[s] + 12 <=> s = k + 1
      OBVIOUS
    <3>1. s \in 1..(L + 1) /\ k + 1 \in 1..(L + 1) /\ at[s] \in Nat
      BY <1>1, <1>2
    <3> HIDE DEF L
    <3>2. s < k + 1 => at[s] + 16 <= h
      BY <1>3, <3>1
    <3>3. k + 1 < s => h + 16 <= at[s]
      BY <1>3, <3>1
    <3>4. s = k + 1 => at[s] = h
      OBVIOUS
    <3>5. s < k + 1 \/ k + 1 < s \/ s = k + 1
      BY <1>1, <3>1
    <3> HIDE DEF h, at
    <3> QED
      BY <1>6, <3>1, <3>2, <3>3, <3>4, <3>5
  <2>3. DOMAIN c.records = 1..L
    BY DEF IsCapture
  <2>4. {c.records[r].incl : r \in {s \in DOMAIN c.records : h + 12 = at[s] + 8}} = {}
    BY <2>1, <2>3
  <2>5. {c.records[r].orig : r \in {s \in DOMAIN c.records : h + 12 = at[s] + 12}} = {n}
    <3>1. {s \in DOMAIN c.records : h + 12 = at[s] + 12} = {k + 1}
      BY <1>1, <2>2, <2>3
    <3> QED
      BY <3>1
  <2> QED
    BY <2>4, <2>5 DEF WordAt
<1>9. StandAt(c, k) = IF h + 4 < size THEN h + 4 ELSE size
  BY DEF StandAt
<1>10. StandAt(c, k + 1) = IF at[(k + 1) + 1] + 4 < size THEN at[(k + 1) + 1] + 4 ELSE size
  BY DEF StandAt
<1>11. k + 1 = L => size = h + 16 + n
  BY <1>4, <1>5
<1>12. k + 1 # L => at[(k + 1) + 1] + 16 <= size
  <2> SUFFICES ASSUME k + 1 # L PROVE at[(k + 1) + 1] + 16 <= at[L + 1]
    BY <1>5
  <2>1. (k + 1) + 1 \in 1..(L + 1) /\ L + 1 \in 1..(L + 1) /\ (k + 1) + 1 < L + 1
    BY <1>1
  <2> QED
    BY <1>3, <2>1
<1> DEFINE next == at[(k + 1) + 1]
<1> HIDE DEF h, n, size, next
<1>13. StandAt(c, k + 1) = IF h + 20 + n < size THEN h + 20 + n ELSE size
  BY <1>1, <1>4, <1>6, <1>10 DEF next
<1>14. k + 1 # L => size >= h + 32 + n
  BY <1>1, <1>4, <1>6, <1>7, <1>12 DEF next
<1>15. size = h + 16 + n \/ size >= h + 32 + n
  BY <1>11, <1>14
<1>16. size = Size(c)
  BY DEF size
<1>17. TurnReads(c, h, n, size)
  BY <1>1, <1>6, <1>7, <1>15, <1>16, TurnArithmetic
<1>18. StandAt(c, k) = h + 4
  BY <1>9, <1>17 DEF TurnReads
<1>19. size = h + 16 + n <=> k + 1 = L
  BY <1>1, <1>6, <1>7, <1>11, <1>14
<1>20. InRange(n) => /\ BytesRead(c, h + 72, n - 52) = IF k + 1 = L THEN n - 56 ELSE n - 52
                     /\ h + 72 + BytesRead(c, h + 72, n - 52) = StandAt(c, k + 1)
                     /\ k + 1 = L => h + 72 + (n - 56) = size
  <2> SUFFICES ASSUME InRange(n)
               PROVE  /\ BytesRead(c, h + 72, n - 52) = IF k + 1 = L THEN n - 56 ELSE n - 52
                      /\ h + 72 + BytesRead(c, h + 72, n - 52) = StandAt(c, k + 1)
                      /\ k + 1 = L => h + 72 + (n - 56) = size
    OBVIOUS
  <2>1. CASE k + 1 = L
    <3>1. size = h + 16 + n
      BY <1>11, <2>1
    <3>2. BytesRead(c, h + 72, n - 52) = n - 56
      BY <1>17, <3>1 DEF TurnReads
    <3>3. StandAt(c, k + 1) = size
      BY <1>1, <1>6, <1>7, <1>13, <3>1
    <3> QED
      BY <1>1, <1>6, <2>1, <3>1, <3>2, <3>3
  <2>2. CASE k + 1 # L
    <3>1. size # h + 16 + n
      BY <1>19, <2>2
    <3>2. BytesRead(c, h + 72, n - 52) = n - 52
      BY <1>17, <3>1 DEF TurnReads
    <3>3. StandAt(c, k + 1) = h + 20 + n
      BY <1>1, <1>6, <1>7, <1>13, <1>14, <2>2
    <3> QED
      BY <1>1, <1>6, <2>2, <3>2, <3>3
  <2> QED
    BY <2>1, <2>2
<1> QED
  BY <1>1, <1>6, <1>8, <1>13, <1>17, <1>18, <1>20 DEF TurnReads, h, n, size

-----------------------------------------------------------------------------
(***************************************************************************)
(* The command line.                                                       *)
(***************************************************************************)

\* Options are moved about, but no word is lost, and no more of them are
\* taken for files than there are.
WordsKept(s) ==
  /\ DOMAIN s = {"first", "rest", "files", "set"}
  /\ s.first \in Seq(GivenWords) /\ s.rest \in Seq(GivenWords)
  /\ s.files \in Int
  /\ s.files <= Len(s.first) + Len(s.rest)

\* A turn of the loop over getopt_long_only keeps the words.
LEMMA GetoptKeeps ==
  ASSUME NEW s, WordsKept(s), Options(s.rest) # {}
  PROVE  WordsKept(Getopt(s))
<1> DEFINE i == CHOOSE i \in Options(s.rest) : \A j \in Options(s.rest) : i <= j
           words == IF Kind(s.rest[i]) = "option" /\ i < Len(s.rest) THEN 2 ELSE 1
           moved == [s EXCEPT !.first = @ \o SubSeq(s.rest, i, i + words - 1),
                              !.rest  = SubSeq(@, 1, i - 1) \o SubSeq(@, i + words, Len(@))]
           whole == [moved EXCEPT !.files = CountTwoWords(@),
                                  !.set[s.rest[i][2]] = Value(s.rest, i)]
<1>1. s.rest \in Seq(GivenWords) /\ s.first \in Seq(GivenWords) /\ Len(s.rest) \in Nat
  BY DEF WordsKept
<1>2. i \in 1..Len(s.rest)
  <2>1. Options(s.rest) \subseteq 1..Len(s.rest)
    BY <1>1 DEF Options
  <2>2. \E k \in Options(s.rest) : \A j \in Options(s.rest) : k <= j
    BY <1>1, <2>1, LeastNumber
  <2>3. i \in Options(s.rest)
    BY <2>2
  <2> QED
    BY <2>1, <2>3
<1>3. words \in 1..2 /\ i + words - 1 <= Len(s.rest)
  BY <1>1, <1>2
<1> HIDE DEF i, words
<1> DEFINE taken == SubSeq(s.rest, i, i + words - 1)
           before == SubSeq(s.rest, 1, i - 1)
           behind == SubSeq(s.rest, i + words, Len(s.rest))
<1>4. taken \in Seq(GivenWords) /\ Len(taken) = words
  BY <1>1, <1>2, <1>3, SubSeqProperties
<1>5. before \in Seq(GivenWords) /\ Len(before) = i - 1
  BY <1>1, <1>2, <1>3, SubSeqProperties
<1>6. behind \in Seq(GivenWords) /\ Len(behind) = Len(s.rest) - i - words + 1
  BY <1>1, <1>2, <1>3, SubSeqProperties
<1>7. /\ DOMAIN moved = {"first", "rest", "files", "set"}
      /\ moved.first = s.first \o taken
      /\ moved.rest = before \o behind
      /\ moved.files = s.files
  BY DEF WordsKept
<1> HIDE DEF taken, before, behind
<1>8. /\ s.first \o taken \in Seq(GivenWords) /\ before \o behind \in Seq(GivenWords)
      /\ Len(s.first \o taken) = Len(s.first) + Len(taken)
      /\ Len(before \o behind) = Len(before) + Len(behind)
  BY <1>1, <1>4, <1>5, <1>6, ConcatProperties
<1>9. WordsKept(moved)
  <2>1. Len(moved.first) + Len(moved.rest) = Len(s.first) + Len(s.rest)
    <3>1. Len(s.first) \in Nat /\ i \in Nat
      BY <1>1, <1>2
    <3>2. Len(s.first \o taken) + Len(before \o behind) = Len(s.first) + Len(s.rest)
      <4> DEFINE lenFirst == Len(s.first)
                 lenRest == Len(s.rest)
      <4>1. lenFirst \in Nat /\ lenRest \in Nat
        BY <1>1
      <4>2. Len(s.first \o taken) = lenFirst + words
        BY <1>4, <1>8
      <4>3. Len(before \o behind) = (i - 1) + (lenRest - i - words + 1)
        BY <1>5, <1>6, <1>8
      <4>4. words \in Nat
        BY <1>3
      <4> HIDE DEF lenFirst, lenRest
      <4>5. (lenFirst + words) + ((i - 1) + (lenRest - i - words + 1)) = lenFirst + lenRest
        BY <3>1, <4>1, <4>4
      <4> QED
        BY <4>2, <4>3, <4>5 DEF lenFirst, lenRest
    <3> QED
      BY <1>7, <3>2
  <2> HIDE DEF moved
  <2> QED
    BY <1>7, <1>8, <2>1 DEF WordsKept
<1> HIDE DEF moved
<1>10. WordsKept(whole)
  <2>1. /\ DOMAIN whole = {"first", "rest", "files", "set"}
        /\ whole.first = moved.first /\ whole.rest = moved.rest
        /\ whole.files = moved.files - 2
    BY <1>9 DEF WordsKept, CountTwoWords
  <2> HIDE DEF whole
  <2> QED
    BY <1>9, <2>1 DEF WordsKept
<1>11. Getopt(s) \in {moved, whole}
  BY DEF Getopt, moved, whole, words, i
<1> QED
  BY <1>9, <1>10, <1>11

\* The files are words of the command line.
LEMMA FilenamesGiven ==
  ASSUME NEW s, WordsKept(s)
  PROVE  Filenames(s) \in Seq(GivenWords)
<1> DEFINE words == s.first \o s.rest
<1>1. words \in Seq(GivenWords) /\ Len(words) = Len(s.first) + Len(s.rest)
  BY ConcatProperties DEF WordsKept
<1> HIDE DEF words
<1>2. s.files \in Int /\ s.files <= Len(words) /\ Len(words) \in Nat
  BY <1>1 DEF WordsKept
<1>3. SubSeq(words, Len(words) - s.files + 1, Len(words)) \in Seq(GivenWords)
  <2>1. \A i \in (Len(words) - s.files + 1)..Len(words) : words[i] \in GivenWords
    <3> DEFINE n == Len(words)
               m == s.files
    <3>1. n \in Nat /\ m \in Int /\ m <= n
      BY <1>2
    <3> HIDE DEF n, m
    <3>2. \A i \in (n - m + 1)..n : i \in 1..n
      BY <3>1
    <3>3. \A i \in 1..n : words[i] \in GivenWords
      BY <1>1, ElementOfSeq DEF n
    <3>4. \A i \in (n - m + 1)..n : words[i] \in GivenWords
      BY <3>2, <3>3
    <3> QED
      BY <3>4 DEF n, m
  <2>2. Len(words) - s.files + 1 \in Int
    BY <1>2
  <2> QED
    BY <1>2, <2>1, <2>2, SubSeqProperties
<1> QED
  BY <1>3 DEF Filenames, words

\* The control of the readers: each is at one of its places, with a capture.
Control ==
  /\ program \in Programs
  /\ WordsKept(parsed)
  /\ files \in Nat
  /\ pc \in {"start", "open", "loop", "windows", "end", "exit", "killed"}
  /\ pc \in {"start", "open"} => files = 0
  /\ IsCapture(cap)
  /\ program = "noThreaded" => pc # "windows" /\ held = << >>

LEMMA ControlInit == NoThreadedInit => Control
<1> SUFFICES ASSUME NoThreadedInit PROVE Control
  OBVIOUS
<1>1. WordsKept(parsed)
  <2>1. argv \in Seq(GivenWords)
    BY CommandsAssumption DEF NoThreadedInit, ReaderInit
  <2>2. parsed = [first |-> << >>, rest |-> argv, files |-> Len(argv), set |-> Defaults]
    BY DEF NoThreadedInit, ReaderInit, Unparsed
  <2> QED
    BY <2>1, <2>2 DEF WordsKept
<1>2. IsCapture(cap)
  <2>1. cap = [records |-> << >>, cut |-> 0]
    BY DEF NoThreadedInit, ReaderInit
  <2> QED
    BY <2>1 DEF IsCapture
<1> QED
  BY <1>1, <1>2 DEF Control, NoThreadedInit, ReaderInit

\* What is opened is a capture.
LEMMA OpenedIsCapture ==
  ASSUME Control, files < Len(filenames), Kind(filenames[files + 1]) = "file"
  PROVE  IsCapture(filenames[files + 1][2])
<1>1. filenames \in Seq(GivenWords)
  BY FilenamesGiven DEF Control, filenames
<1>2. filenames[files + 1] \in GivenWords
  BY <1>1 DEF Control
<1> QED
  BY <1>2, CommandsAssumption

LEMMA ControlStep == Control /\ [NoThreadedNext]_allVars => Control'
<1> SUFFICES ASSUME Control, [NoThreadedNext]_allVars PROVE Control'
  OBVIOUS
<1>1. CASE NextOption
  <2>1. WordsKept(parsed')
    BY <1>1, GetoptKeeps DEF Control, NextOption
  <2>2. UNCHANGED <<program, files, pc, cap, held>>
    BY <1>1 DEF NextOption, stream, windowVars
  <2> QED
    BY <2>1, <2>2 DEF Control
<1>2. CASE Start
  BY <1>2 DEF Control, Start, commandVars, stream, windowVars
<1>3. CASE Open
  <2>1. IsCapture(cap')
    BY <1>3, OpenedIsCapture DEF Open, MayOpen
  <2>2. UNCHANGED <<program, parsed>> /\ files' = files + 1 /\ held' = << >>
    BY <1>3 DEF Open, commandVars
  <2>3. pc' \in {"end", "loop"}
    BY <1>3 DEF Open
  <2> QED
    BY <2>1, <2>2, <2>3 DEF Control
<1>4. CASE OpenFails
  BY <1>4 DEF Control, OpenFails, commandVars, stream, windowVars
<1>5. CASE Turn
  <2>1. UNCHANGED <<program, parsed, files, cap, held>> /\ program = "threadedRE"
    BY <1>5 DEF Turn, commandVars
  <2>2. pc' \in {"end", "windows", "loop"}
    BY <1>5 DEF Turn
  <2> QED
    BY <2>1, <2>2 DEF Control
<1>6. CASE LoopEnds
  BY <1>6 DEF Control, LoopEnds, commandVars, stream, windowVars
<1>7. CASE PushWindow
  <2>1. UNCHANGED <<program, parsed, files, cap>>
    BY <1>7 DEF PushWindow, commandVars, stream
  <2>2. pc' \in {"windows", "loop"} /\ pc = "windows"
    BY <1>7 DEF PushWindow
  <2> QED
    BY <2>1, <2>2 DEF Control
<1>8. CASE DumpTurn
  <2>1. UNCHANGED <<program, parsed, files, cap, pc, held>>
    BY <1>8 DEF DumpTurn, commandVars, windowVars
  <2> QED
    BY <2>1 DEF Control
<1>9. CASE UNCHANGED allVars
  <2>1. UNCHANGED <<program, parsed, files, pc, cap, held>>
    BY <1>9 DEF allVars, readerVars, commandVars, stream, windowVars
  <2> QED
    BY <2>1 DEF Control
<1> QED
  BY <1>1, <1>2, <1>3, <1>4, <1>5, <1>6, <1>7, <1>8, <1>9 DEF NoThreadedNext, ReadStep, AllRead

-----------------------------------------------------------------------------
(***************************************************************************)
(* Which files are opened.                                                 *)
(***************************************************************************)

\* f finds the words of rest in the command line: in their order, and among
\* them all its files.
Part(f, rest, words) ==
  /\ f \in [1..Len(rest) -> 1..Len(words)]
  /\ \A i, j \in 1..Len(rest) : i < j => f[i] < f[j]
  /\ \A i \in 1..Len(rest) : rest[i] = words[f[i]]
  /\ \A p \in Places(words, "file") : \E i \in 1..Len(rest) : f[i] = p

\* The options joined with their value that are no longer there.
Dropped(f, n, words) == {p \in Places(words, "joined") : \A i \in 1..n : f[i] # p}

\* What getopt leaves of a complete command line is complete, and main counts
\* a file less than there are words for each joined option dropped.
FilesLeft(s, words) ==
  Complete(words) =>
    /\ Complete(s.rest)
    /\ \E f : /\ Part(f, s.rest, words)
              /\ s.files = Len(s.rest) - Cardinality(Dropped(f, Len(s.rest), words))

\* The places of words are finite in number.
LEMMA PlacesFinite ==
  ASSUME NEW words \in Seq(GivenWords), NEW kind
  PROVE  /\ Places(words, kind) \subseteq 1..Len(words)
         /\ IsFiniteSet(Places(words, kind))
         /\ \A S \in SUBSET Places(words, kind) : IsFiniteSet(S) /\ Cardinality(S) \in Nat
<1>1. Len(words) \in Nat /\ DOMAIN words = 1..Len(words)
  OBVIOUS
<1>2. Places(words, kind) \subseteq 1..Len(words)
  BY <1>1 DEF Places
<1>3. IsFiniteSet(1..Len(words))
  BY <1>1, FS_Interval
<1>4. IsFiniteSet(Places(words, kind))
  BY <1>2, <1>3, FS_Subset
<1> QED
  BY <1>2, <1>4, FS_Subset, FS_CardinalityType

\* Where a word is found in a sequence from which some have been taken out.
Behind(m, i, n) == IF m < i THEN m ELSE m + n

TakenOut(t, rest, i, n) ==
  /\ t \in Seq(GivenWords)
  /\ Len(t) = Len(rest) - n
  /\ \A m \in 1..Len(t) : Behind(m, i, n) \in 1..Len(rest) /\ t[m] = rest[Behind(m, i, n)]

LEMMA TakeOut ==
  ASSUME NEW rest \in Seq(GivenWords), NEW i \in 1..Len(rest), NEW n \in 1..2,
         i + n - 1 <= Len(rest)
  PROVE  TakenOut(SubSeq(rest, 1, i - 1) \o SubSeq(rest, i + n, Len(rest)), rest, i, n)
<1> DEFINE s == SubSeq(rest, 1, i - 1)
           u == SubSeq(rest, i + n, Len(rest))
           t == s \o u
           L == Len(rest)
<1>1. L \in Nat
  OBVIOUS
<1>2. s \in Seq(GivenWords) /\ Len(s) = i - 1 /\ \A m \in 1..(i - 1) : s[m] = rest[m]
  BY <1>1, SubSeqProperties
<1>3. u \in Seq(GivenWords) /\ Len(u) = L - i - n + 1
  BY <1>1, SubSeqProperties
<1>4. \A m \in 1..(L - i - n + 1) : u[m] = rest[i + n + m - 1]
  BY <1>1, SubSeqProperties
<1> HIDE DEF s, u
<1>5. t \in Seq(GivenWords) /\ Len(t) = Len(s) + Len(u)
      /\ \A m \in 1..(Len(s) + Len(u)) : t[m] = IF m <= Len(s) THEN s[m] ELSE u[m - Len(s)]
  BY <1>2, <1>3, ConcatProperties
<1> HIDE DEF t, L
<1>6. i \in Int /\ n \in Int /\ 1 <= i /\ i <= L /\ 1 <= n /\ i + n - 1 <= L
  BY <1>1 DEF L
<1>7. Len(t) = L - n
  BY <1>1, <1>2, <1>3, <1>5, <1>6
<1>8. ASSUME NEW m \in 1..(L - n)
      PROVE  Behind(m, i, n) \in 1..L /\ t[m] = rest[Behind(m, i, n)]
  <2>1. CASE m < i
    <3>1. Behind(m, i, n) = m
      BY <2>1 DEF Behind
    <3>2. m \in 1..L /\ m <= Len(s) /\ m \in 1..(i - 1)
      BY <1>1, <1>2, <1>6, <2>1
    <3>3. m \in 1..(Len(s) + Len(u))
      BY <1>1, <1>2, <1>3, <1>6, <3>2
    <3>4. t[m] = s[m] /\ s[m] = rest[m]
      BY <1>2, <1>5, <3>2, <3>3
    <3> QED
      BY <3>1, <3>2, <3>4
  <2>2. CASE ~(m < i)
    <3>1. Behind(m, i, n) = m + n /\ m + n \in 1..L
      BY <1>1, <1>6, <2>2 DEF Behind
    <3>2. m \in 1..(Len(s) + Len(u)) /\ ~(m <= Len(s)) /\ m - Len(s) = m - i + 1
      BY <1>1, <1>2, <1>3, <1>6, <2>2
    <3>3. t[m] = u[m - i + 1]
      BY <1>5, <3>2
    <3>4. m - i + 1 \in 1..(L - i - n + 1) /\ i + n + (m - i + 1) - 1 = m + n
      BY <1>1, <1>6, <2>2
    <3> QED
      BY <1>4, <3>1, <3>3, <3>4
  <2> QED
    BY <2>1, <2>2
<1> QED
  BY <1>5, <1>7, <1>8 DEF TakenOut, t, s, u, L

\* g finds what f finds but for the n words from place i.
Without(g, t, f, rest, i, n) ==
  \A p : (\E m \in 1..Len(t) : g[m] = p) <=>
            (\E m \in 1..Len(rest) : f[m] = p /\ ~(m \in i..(i + n - 1)))

NoFiles(rest, i, n) == \A m \in i..(i + n - 1) : Kind(rest[m]) # "file"

\* What is found of a command line after words that are no files have been
\* taken out.
LEMMA PartOfPart ==
  ASSUME NEW words \in Seq(GivenWords), NEW rest \in Seq(GivenWords), NEW f,
         Part(f, rest, words), NEW i \in 1..Len(rest), NEW n \in 1..2, i + n - 1 <= Len(rest),
         NEW t, TakenOut(t, rest, i, n), NoFiles(rest, i, n)
  PROVE  \E g : Part(g, t, words) /\ Without(g, t, f, rest, i, n)
<1> DEFINE g == [m \in 1..Len(t) |-> f[Behind(m, i, n)]]
           L == Len(rest)
<1>1. L \in Nat /\ Len(t) = L - n /\ i \in Int /\ n \in Int /\ 1 <= i /\ 1 <= n /\ i <= L
  BY DEF TakenOut
<1>2. \A m \in 1..Len(t) : Behind(m, i, n) \in 1..L /\ t[m] = rest[Behind(m, i, n)]
  BY DEF TakenOut
<1>3. /\ f \in [1..L -> 1..Len(words)]
      /\ \A k, m \in 1..L : k < m => f[k] < f[m]
      /\ \A m \in 1..L : rest[m] = words[f[m]]
      /\ \A p \in Places(words, "file") : \E m \in 1..L : f[m] = p
  BY DEF Part
<1> HIDE DEF L
<1>4. g \in [1..Len(t) -> 1..Len(words)]
  BY <1>2, <1>3
<1>5. \A k, m \in 1..Len(t) : k < m => Behind(k, i, n) < Behind(m, i, n)
  BY <1>1 DEF Behind
<1>6. \A k, m \in 1..Len(t) : k < m => g[k] < g[m]
  BY <1>2, <1>3, <1>5
<1>7. \A m \in 1..Len(t) : t[m] = words[g[m]]
  BY <1>2, <1>3
<1>8. \A m \in 1..Len(t) : ~(Behind(m, i, n) \in i..(i + n - 1))
  BY <1>1 DEF Behind
<1>9. ASSUME NEW m \in 1..L, ~(m \in i..(i + n - 1))
      PROVE  \E k \in 1..Len(t) : Behind(k, i, n) = m
  <2>1. CASE m < i
    BY <1>1, <2>1 DEF Behind, L
  <2>2. CASE m >= i + n
    <3>1. m - n \in 1..Len(t) /\ ~(m - n < i) /\ (m - n) + n = m
      BY <1>1, <2>2
    <3> QED
      BY <3>1 DEF Behind
  <2> QED
    BY <1>1, <1>9, <2>1, <2>2
<1>10. \A p : (\E m \in 1..Len(t) : g[m] = p) <=>
                (\E m \in 1..L : f[m] = p /\ ~(m \in i..(i + n - 1)))
  BY <1>2, <1>8, <1>9
<1>11. \A p \in Places(words, "file") : \E m \in 1..Len(t) : g[m] = p
  <2> SUFFICES ASSUME NEW p \in Places(words, "file") PROVE \E m \in 1..Len(t) : g[m] = p
    OBVIOUS
  <2>1. PICK m \in 1..L : f[m] = p
    BY <1>3
  <2>2. Kind(rest[m]) = "file"
    BY <1>3, <2>1 DEF Places
  <2> QED
    BY <1>10, <2>1, <2>2 DEF NoFiles, L
<1> HIDE DEF g
<1>12. Part(g, t, words)
  BY <1>4, <1>6, <1>7, <1>11 DEF Part
<1> QED
  BY <1>10, <1>12 DEF L, Without

\* getopt's option is the first one; of a complete command line it takes the
\* option and its value, and leaves the rest complete.
LEMMA FirstOption ==
  ASSUME NEW rest \in Seq(GivenWords), Complete(rest), Options(rest) # {}
  PROVE  LET i == CHOOSE i \in Options(rest) : \A j \in Options(rest) : i <= j
             n == IF Kind(rest[i]) = "option" /\ i < Len(rest) THEN 2 ELSE 1
         IN  /\ i \in 1..Len(rest) /\ n \in 1..2 /\ i + n - 1 <= Len(rest)
             /\ \/ n = 2 /\ Kind(rest[i]) = "option" /\ Kind(rest[i + 1]) = "value"
                \/ n = 1 /\ Kind(rest[i]) = "joined"
             /\ \A t : TakenOut(t, rest, i, n) => Complete(t)
<1> DEFINE i == CHOOSE i \in Options(rest) : \A j \in Options(rest) : i <= j
           n == IF Kind(rest[i]) = "option" /\ i < Len(rest) THEN 2 ELSE 1
           L == Len(rest)
<1>1. L \in Nat /\ DOMAIN rest = 1..L
  OBVIOUS
<1>2. Options(rest) \subseteq 1..L
  BY <1>1 DEF Options
<1>3. \E k \in Options(rest) : \A j \in Options(rest) : k <= j
  BY <1>1, <1>2, LeastNumber
<1>4. i \in Options(rest) /\ \A j \in Options(rest) : i <= j
  BY <1>3
<1> HIDE DEF i
<1>5. i \in 1..L /\ Kind(rest[i]) \in {"option", "joined"}
  BY <1>1, <1>4 DEF Options
<1>6. \A j \in 1..L : j < i => Kind(rest[j]) \notin {"option", "joined"}
  BY <1>1, <1>2, <1>4, <1>5 DEF Options
<1>7. \A j \in 1..L : /\ Kind(rest[j]) = "option" => j < L /\ Kind(rest[j + 1]) = "value"
                      /\ Kind(rest[j]) = "value" => j > 1 /\ Kind(rest[j - 1]) = "option"
  BY <1>1 DEF Complete, Places
<1>8. \/ n = 2 /\ Kind(rest[i]) = "option" /\ Kind(rest[i + 1]) = "value" /\ i < L
      \/ n = 1 /\ Kind(rest[i]) = "joined"
  BY <1>5, <1>7
<1> HIDE DEF n, L
<1>9. n \in 1..2 /\ i + n - 1 <= L
  BY <1>1, <1>5, <1>8
<1>10. ASSUME NEW t, TakenOut(t, rest, i, n)
       PROVE  Complete(t)
  <2>1. t \in Seq(GivenWords) /\ Len(t) = L - n /\ Len(t) \in Nat /\ DOMAIN t = 1..Len(t)
    BY <1>10 DEF TakenOut, L
  <2>2. \A m \in 1..Len(t) : Behind(m, i, n) \in 1..L /\ t[m] = rest[Behind(m, i, n)]
    BY <1>10 DEF TakenOut, L
  <2>3. ASSUME NEW m \in 1..Len(t), Kind(t[m]) = "option"
        PROVE  m < Len(t) /\ Kind(t[m + 1]) = "value"
    <3>1. Kind(rest[Behind(m, i, n)]) = "option" /\ Behind(m, i, n) \in 1..L
      BY <2>2, <2>3
    <3>2. ~(m < i)
      BY <1>1, <1>5, <1>6, <3>1 DEF Behind
    <3>3. Behind(m, i, n) = m + n
      BY <3>2 DEF Behind
    <3>4. m + n < L /\ Kind(rest[(m + n) + 1]) = "value"
      BY <1>7, <3>1, <3>3
    <3>5. m + 1 \in 1..Len(t) /\ Behind(m + 1, i, n) = (m + n) + 1 /\ m < Len(t)
      BY <1>1, <1>5, <1>9, <2>1, <3>2, <3>4 DEF Behind
    <3> QED
      BY <2>2, <3>4, <3>5
  <2>4. ASSUME NEW m \in 1..Len(t), Kind(t[m]) = "value"
        PROVE  m > 1 /\ Kind(t[m - 1]) = "option"
    <3> DEFINE b == Behind(m, i, n)
    <3>1. Kind(rest[b]) = "value" /\ b \in 1..L
      BY <2>2, <2>4
    <3>2. b > 1 /\ Kind(rest[b - 1]) = "option" /\ b - 1 \in 1..L
      BY <1>1, <1>7, <3>1
    <3>3. ~(b - 1 < i)
      BY <1>6, <3>2
    <3>4. b = m + n /\ ~(m < i)
      BY <1>1, <1>5, <3>3 DEF Behind
    <3>5. n = 2 \/ n = 1
      BY <1>8
    <3>6. m # i
      <4> SUFFICES ASSUME m = i PROVE FALSE
        OBVIOUS
      <4>1. CASE n = 1
        <5>1. b - 1 = i
          BY <1>1, <1>5, <3>4, <4>1
        <5> QED
          BY <1>8, <3>2, <4>1, <5>1
      <4>2. CASE n = 2
        <5>1. b - 1 = i + 1
          BY <1>1, <1>5, <3>4, <4>2
        <5> QED
          BY <1>8, <3>2, <4>2, <5>1
      <4> QED
        BY <3>5, <4>1, <4>2
    <3>7. m > 1 /\ m - 1 \in 1..Len(t) /\ ~(m - 1 < i)
      BY <1>1, <1>5, <2>1, <3>4, <3>6
    <3>8. Behind(m - 1, i, n) = b - 1
      <4>1. Behind(m - 1, i, n) = (m - 1) + n
        BY <3>7 DEF Behind
      <4>2. (m - 1) + n = (m + n) - 1
        BY <1>9, <2>1
      <4> QED
        BY <3>4, <4>1, <4>2
    <3> HIDE DEF b
    <3> QED
      BY <2>2, <3>2, <3>7, <3>8
  <2> QED
    BY <2>1, <2>3, <2>4 DEF Complete, Places
<1> QED
  BY <1>1, <1>5, <1>8, <1>9, <1>10 DEF i, n, L

\* The part of the words that getopt leaves.
LEMMA GetoptLeaves ==
  ASSUME NEW words \in Seq(GivenWords), NEW s, WordsKept(s), FilesLeft(s, words),
         Options(s.rest) # {}
  PROVE  FilesLeft(Getopt(s), words)
<1> SUFFICES ASSUME Complete(words)
             PROVE  /\ Complete(Getopt(s).rest)
                    /\ \E g : /\ Part(g, Getopt(s).rest, words)
                              /\ Getopt(s).files
                                   = Len(Getopt(s).rest)
                                       - Cardinality(Dropped(g, Len(Getopt(s).rest), words))
  BY DEF FilesLeft
<1> DEFINE rest == s.rest
           i == CHOOSE i \in Options(rest) : \A j \in Options(rest) : i <= j
           n == IF Kind(rest[i]) = "option" /\ i < Len(rest) THEN 2 ELSE 1
           t == SubSeq(rest, 1, i - 1) \o SubSeq(rest, i + n, Len(rest))
<1>1. /\ DOMAIN s = {"first", "rest", "files", "set"}
      /\ rest \in Seq(GivenWords) /\ s.files \in Int /\ Len(rest) \in Nat
  BY DEF WordsKept
<1>2. Complete(rest)
  BY DEF FilesLeft
<1>3. PICK f : Part(f, rest, words) /\ s.files = Len(rest) - Cardinality(Dropped(f, Len(rest), words))
  BY DEF FilesLeft
<1>4. /\ i \in 1..Len(rest) /\ n \in 1..2 /\ i + n - 1 <= Len(rest)
      /\ \/ n = 2 /\ Kind(rest[i]) = "option" /\ Kind(rest[i + 1]) = "value"
         \/ n = 1 /\ Kind(rest[i]) = "joined"
      /\ \A u : TakenOut(u, rest, i, n) => Complete(u)
  BY <1>1, <1>2, FirstOption
<1>5. Getopt(s).rest = t /\ Getopt(s).files = s.files - 2
  <2> DEFINE moved == [s EXCEPT !.first = @ \o SubSeq(s.rest, i, i + n - 1),
                                !.rest  = SubSeq(@, 1, i - 1) \o SubSeq(@, i + n, Len(@))]
             whole == [moved EXCEPT !.files = CountTwoWords(@),
                                    !.set[s.rest[i][2]] = Value(s.rest, i)]
  <2>1. ~(n = 1 /\ Kind(rest[i]) = "option")
    BY <1>4
  <2>2. Getopt(s) = IF n = 1 /\ Kind(rest[i]) = "option" THEN moved ELSE whole
    BY DEF Getopt
  <2> HIDE DEF i, n
  <2>3. moved.rest = t /\ moved.files = s.files /\ DOMAIN moved = {"first", "rest", "files", "set"}
    BY <1>1
  <2> HIDE DEF moved, t
  <2>4. whole.rest = moved.rest /\ whole.files = moved.files - 2
    BY <2>3 DEF CountTwoWords
  <2> QED
    BY <2>1, <2>2, <2>3, <2>4
<1> HIDE DEF i, n, t
<1>6. TakenOut(t, rest, i, n)
  BY <1>1, <1>4, TakeOut DEF t
<1> HIDE DEF rest
<1>7. \A m \in i..(i + n - 1) : Kind(rest[m]) \in {"option", "value", "joined"}
  <2> SUFFICES ASSUME NEW m \in i..(i + n - 1)
               PROVE  Kind(rest[m]) \in {"option", "value", "joined"}
    OBVIOUS
  <2>1. CASE n = 1
    <3>1. m = i
      BY <1>4, <2>1
    <3> QED
      BY <1>4, <2>1, <3>1
  <2>2. CASE n = 2
    <3>1. m = i \/ m = i + 1
      BY <1>4, <2>2
    <3> QED
      BY <1>4, <2>2, <3>1
  <2> QED
    BY <1>4, <2>1, <2>2
<1>8. PICK g : Part(g, t, words) /\ Without(g, t, f, rest, i, n)
  <2>1. NoFiles(rest, i, n)
    BY <1>7 DEF NoFiles
  <2> QED
    BY <1>1, <1>3, <1>4, <1>6, <2>1, PartOfPart
<1> DEFINE D == Dropped(f, Len(rest), words)
           E == Dropped(g, Len(t), words)
<1>9. IsFiniteSet(D) /\ Cardinality(D) \in Nat
  BY PlacesFinite DEF Dropped
<1>10. /\ f \in [1..Len(rest) -> 1..Len(words)]
       /\ \A k, m \in 1..Len(rest) : k < m => f[k] < f[m]
       /\ \A m \in 1..Len(rest) : rest[m] = words[f[m]]
  BY <1>3 DEF Part
<1>11. \A k, m \in 1..Len(rest) : f[k] = f[m] => k = m
  <2> SUFFICES ASSUME NEW k \in 1..Len(rest), NEW m \in 1..Len(rest), f[k] = f[m]
               PROVE  k = m
    OBVIOUS
  <2>1. f[k] \in Int /\ Len(words) \in Nat
    BY <1>10
  <2>2. ~(k < m) /\ ~(m < k)
    BY <1>10, <2>1
  <2> QED
    BY <2>2
<1>12. Len(t) = Len(rest) - n
  BY <1>6 DEF TakenOut
<1>13. \A p : p \in E <=> /\ p \in Places(words, "joined")
                          /\ \A m \in 1..Len(rest) : f[m] = p => m \in i..(i + n - 1)
  BY <1>8 DEF Dropped, Without
<1>14. \A m \in 1..Len(rest) : f[m] \in Places(words, "joined") <=> Kind(rest[m]) = "joined"
  <2>1. DOMAIN words = 1..Len(words)
    OBVIOUS
  <2> QED
    BY <1>10, <2>1 DEF Places
<1>15. Cardinality(E) = Cardinality(D) + (2 - n)
  <2>1. CASE n = 2
    <3>1. \A m \in 1..Len(rest) : m \in i..(i + n - 1) => Kind(rest[m]) # "joined"
      <4> SUFFICES ASSUME NEW m \in i..(i + n - 1) PROVE Kind(rest[m]) # "joined"
        OBVIOUS
      <4>1. m = i \/ m = i + 1
        BY <1>4, <2>1
      <4> QED
        BY <1>4, <2>1, <4>1
    <3>2. E = D
      BY <1>13, <1>14, <3>1 DEF Dropped
    <3> QED
      BY <1>9, <2>1, <3>2
  <2>2. CASE n = 1
    <3>1. \A m \in 1..Len(rest) : m \in i..(i + n - 1) <=> m = i
      BY <1>4, <2>2
    <3>2. f[i] \in Places(words, "joined") /\ f[i] \notin D
      BY <1>4, <1>14, <2>2 DEF Dropped
    <3>3. E = D \cup {f[i]}
      BY <1>4, <1>11, <1>13, <3>1, <3>2 DEF Dropped
    <3>4. Cardinality(D \cup {f[i]}) = Cardinality(D) + 1
      BY <1>9, <3>2, FS_AddElement
    <3> QED
      BY <1>9, <2>2, <3>3, <3>4
  <2> QED
    BY <1>4, <2>1, <2>2
<1>16. s.files - 2 = Len(t) - Cardinality(E)
  <2>1. s.files = Len(rest) - Cardinality(D)
    BY <1>3
  <2>2. n \in Int /\ Len(rest) \in Nat
    BY <1>1, <1>4
  <2> QED
    BY <1>1, <1>9, <1>12, <1>15, <2>1, <2>2
<1>17. Complete(t)
  BY <1>4, <1>6
<1> QED
  BY <1>5, <1>8, <1>16, <1>17

\* The first files are lost to the options joined with their value.
NamedInOrder(s, words) ==
  LET named  == Places(words, "file")
      joined == Cardinality(Places(words, "joined"))
  IN  /\ joined < Cardinality(named) => Len(Filenames(s)) = Cardinality(named) - joined
      /\ joined >= Cardinality(named) => Filenames(s) = <<>>
      /\ \A k \in DOMAIN Filenames(s) : \E i \in named :
           /\ Filenames(s)[k] = words[i]
           /\ Cardinality({j \in named : j <= i}) = joined + k

\* Once no options are left, the files are, in their order.
LEMMA FilesRemain ==
  ASSUME NEW words \in Seq(GivenWords), NEW rest \in Seq(GivenWords), NEW f,
         Part(f, rest, words), Complete(rest), Options(rest) = {}
  PROVE  /\ \A m \in 1..Len(rest) : f[m] \in Places(words, "file") /\ rest[m] = words[f[m]]
         /\ \A k \in 0..Len(rest) :
              Cardinality({p \in Places(words, "file") : \E m \in 1..k : f[m] = p}) = k
         /\ \A m \in 1..Len(rest) :
              Cardinality({p \in Places(words, "file") : p <= f[m]}) = m
         /\ Cardinality(Places(words, "file")) = Len(rest)
         /\ Dropped(f, Len(rest), words) = Places(words, "joined")
<1> DEFINE L == Len(rest)
           named == Places(words, "file")
           First(k) == {p \in named : \E m \in 1..k : f[m] = p}
<1>1. L \in Nat /\ DOMAIN rest = 1..L /\ Len(words) \in Nat /\ DOMAIN words = 1..Len(words)
  OBVIOUS
<1>2. /\ f \in [1..L -> 1..Len(words)]
      /\ \A k, m \in 1..L : k < m => f[k] < f[m]
      /\ \A m \in 1..L : rest[m] = words[f[m]]
      /\ \A p \in named : \E m \in 1..L : f[m] = p
  BY DEF Part
<1>3. \A m \in 1..L : Kind(rest[m]) = "file"
  <2> SUFFICES ASSUME NEW m \in 1..L PROVE Kind(rest[m]) = "file"
    OBVIOUS
  <2>1. rest[m] \in GivenWords
    BY <1>1
  <2>2. Kind(rest[m]) \in {"file", "option", "joined", "value"}
    BY <2>1, CommandsAssumption
  <2>3. \A j \in 1..L : Kind(rest[j]) \notin {"option", "joined"}
    BY <1>1 DEF Options
  <2>4. Kind(rest[m]) # "value"
    <3> SUFFICES ASSUME Kind(rest[m]) = "value" PROVE FALSE
      OBVIOUS
    <3>1. m > 1 /\ Kind(rest[m - 1]) = "option"
      BY <1>1 DEF Complete, Places
    <3>2. m - 1 \in 1..L
      BY <1>1, <3>1
    <3> QED
      BY <2>3, <3>1, <3>2
  <2> QED
    BY <2>2, <2>3, <2>4
<1>4. \A m \in 1..L : f[m] \in named
  BY <1>1, <1>2, <1>3 DEF Places
<1> HIDE DEF L
<1>5. \A k, m \in 1..L : f[k] <= f[m] <=> k <= m
  <2> SUFFICES ASSUME NEW k \in 1..L, NEW m \in 1..L PROVE f[k] <= f[m] <=> k <= m
    OBVIOUS
  <2>1. f[k] \in Int /\ f[m] \in Int
    BY <1>1, <1>2
  <2>2. (k < m => f[k] < f[m]) /\ (m < k => f[m] < f[k])
    BY <1>2
  <2>3. k = m => f[k] = f[m]
    OBVIOUS
  <2>4. k < m \/ k = m \/ m < k
    BY <1>1
  <2> QED
    BY <1>1, <2>1, <2>2, <2>3, <2>4
<1>6. \A k, m \in 1..L : f[k] = f[m] => k = m
  <2> SUFFICES ASSUME NEW k \in 1..L, NEW m \in 1..L, f[k] = f[m] PROVE k = m
    OBVIOUS
  <2>1. f[k] \in Int
    BY <1>1, <1>2
  <2>2. f[k] <= f[m] /\ f[m] <= f[k]
    BY <2>1
  <2>3. k <= m /\ m <= k
    BY <1>5, <2>2
  <2> QED
    BY <1>1, <2>3
<1>7. ASSUME NEW k \in 0..L
      PROVE  Cardinality(First(k)) = k
  <2> DEFINE h == [m \in 1..k |-> f[m]]
  <2>1. k \in Nat /\ 1..k \subseteq 1..L
    BY <1>1
  <2>2. h \in Bijection(1..k, First(k))
    <3>1. \A m \in 1..k : h[m] \in First(k)
      BY <1>4, <2>1
    <3>2. \A a, b \in 1..k : h[a] = h[b] => a = b
      BY <1>6, <2>1
    <3>3. \A p \in First(k) : \E m \in 1..k : h[m] = p
      OBVIOUS
    <3> HIDE DEF h, First
    <3>4. h \in [1..k -> First(k)]
      BY <3>1 DEF h
    <3> QED
      BY <3>2, <3>3, <3>4 DEF Bijection, Injection, Surjection, IsInjective
  <2>3. IsFiniteSet(1..k) /\ Cardinality(1..k) = k
    BY <2>1, FS_Interval
  <2> HIDE DEF First
  <2> QED
    BY <2>2, <2>3, FS_Bijection DEF ExistsBijection
<1>8. \A m \in 1..L : {p \in named : p <= f[m]} = First(m)
  <2> SUFFICES ASSUME NEW m \in 1..L, NEW p \in named
               PROVE  p <= f[m] <=> \E k \in 1..m : f[k] = p
    OBVIOUS
  <2>1. PICK k \in 1..L : f[k] = p
    BY <1>2
  <2>2. p <= f[m] <=> k <= m
    BY <1>5, <2>1
  <2>3. \A j \in 1..m : j \in 1..L /\ (f[j] = p => j = k)
    <3>1. 1..m \subseteq 1..L
      BY <1>1
    <3> QED
      BY <1>6, <2>1, <3>1
  <2>4. k <= m <=> k \in 1..m
    BY <1>1
  <2> QED
    BY <2>1, <2>2, <2>3, <2>4
<1>9. named = First(L)
  BY <1>2
<1> HIDE DEF First
<1>10. \A m \in 1..L : Cardinality({p \in named : p <= f[m]}) = m
  <2>1. 1..L \subseteq 0..L
    BY <1>1
  <2> QED
    BY <1>7, <1>8, <2>1
<1>11. Cardinality(named) = L
  BY <1>1, <1>7, <1>9
<1>12. Dropped(f, L, words) = Places(words, "joined")
  BY <1>4 DEF Dropped, Places
<1> QED
  BY <1>2, <1>4, <1>7, <1>10, <1>11, <1>12 DEF L, First

\* Then main takes the right words for the files.
LEMMA NamesTaken ==
  ASSUME NEW words \in Seq(GivenWords), NEW s, WordsKept(s), FilesLeft(s, words),
         Complete(words), Options(s.rest) = {}
  PROVE  NamedInOrder(s, words)
<1> DEFINE rest == s.rest
           L == Len(s.rest)
           F == Len(s.first)
           named == Places(words, "file")
           joined == Cardinality(Places(words, "joined"))
           all == s.first \o s.rest
           n == s.files
<1>1. /\ s.first \in Seq(GivenWords) /\ s.rest \in Seq(GivenWords)
      /\ L \in Nat /\ F \in Nat /\ joined \in Nat
  <2>1. joined \in Nat
    BY PlacesFinite
  <2> QED
    BY <2>1 DEF WordsKept
<1>2. PICK f : Part(f, rest, words) /\ n = L - Cardinality(Dropped(f, L, words))
  BY DEF FilesLeft
<1>3. Complete(rest)
  BY DEF FilesLeft
<1>4. /\ \A m \in 1..L : f[m] \in named /\ rest[m] = words[f[m]]
      /\ \A m \in 1..L : Cardinality({p \in named : p <= f[m]}) = m
      /\ Cardinality(named) = L
      /\ n = L - joined
  BY <1>1, <1>2, <1>3, FilesRemain
<1>5. /\ all \in Seq(GivenWords) /\ Len(all) = F + L
      /\ \A i \in 1..(F + L) : all[i] = IF i <= F THEN s.first[i] ELSE s.rest[i - F]
  BY <1>1, ConcatProperties
<1>6. Filenames(s) = SubSeq(all, Len(all) - n + 1, Len(all))
  BY DEF Filenames
<1> HIDE DEF all, L, F, n, joined, named
<1>7. CASE joined >= L
  <2>1. Len(all) < Len(all) - n + 1 /\ Len(all) \in Int /\ Len(all) - n + 1 \in Int
    BY <1>1, <1>4, <1>5, <1>7
  <2>2. Filenames(s) = <<>>
    BY <1>6, <2>1, SubSeqEmpty
  <2>3. DOMAIN Filenames(s) = {}
    BY <2>2
  <2> QED
    BY <1>1, <1>4, <1>7, <2>2, <2>3 DEF NamedInOrder, named, joined
<1>8. CASE joined < L
  <2> DEFINE from == F + joined + 1
             to == F + L
  <2>1. Filenames(s) = SubSeq(all, from, to) /\ from \in Int /\ to \in Int /\ from <= to
    <3>1. Len(all) - n + 1 = from /\ Len(all) = to
      BY <1>1, <1>4, <1>5
    <3> QED
      BY <1>1, <1>6, <1>8, <3>1
  <2>2. \A i \in from..to : all[i] \in GivenWords
    <3>1. from..to \subseteq 1..Len(all)
      BY <1>1, <1>5
    <3> QED
      BY <1>5, <3>1
  <2>3. /\ Len(Filenames(s)) = to - from + 1
        /\ \A k \in 1..(to - from + 1) : Filenames(s)[k] = all[from + k - 1]
        /\ Filenames(s) \in Seq(GivenWords)
    BY <2>1, <2>2, SubSeqProperties
  <2>4. to - from + 1 = L - joined
    BY <1>1
  <2>5. \A k \in 1..(L - joined) : from + k - 1 \in 1..(F + L) /\ ~(from + k - 1 <= F)
                                   /\ joined + k \in 1..L
    BY <1>1, <1>8
  <2>6. \A k \in 1..(L - joined) : Filenames(s)[k] = rest[joined + k]
    <3> SUFFICES ASSUME NEW k \in 1..(L - joined) PROVE Filenames(s)[k] = rest[joined + k]
      OBVIOUS
    <3>1. Filenames(s)[k] = all[from + k - 1]
      BY <2>3, <2>4
    <3> DEFINE i == from + k - 1
    <3>2. i \in 1..(F + L) /\ ~(i <= F) /\ i - F = joined + k
      BY <1>1, <1>8
    <3> HIDE DEF i
    <3>3. all[i] = s.rest[i - F]
      BY <1>5, <3>2
    <3> QED
      BY <3>1, <3>2, <3>3 DEF i
  <2>7. \A k \in 1..(L - joined) : \E i \in named :
          /\ Filenames(s)[k] = words[i]
          /\ Cardinality({j \in named : j <= i}) = joined + k
    BY <1>4, <2>5, <2>6
  <2>8. DOMAIN Filenames(s) = 1..(L - joined) /\ Len(Filenames(s)) = L - joined
    BY <2>3, <2>4
  <2>9. \A k \in DOMAIN Filenames(s) : \E i \in named :
          /\ Filenames(s)[k] = words[i]
          /\ Cardinality({j \in named : j <= i}) = joined + k
    BY <2>7, <2>8
  <2>10. ~(joined >= Cardinality(named)) /\ Len(Filenames(s)) = Cardinality(named) - joined
    BY <1>1, <1>4, <1>8, <2>8
  <2> QED
    BY <2>9, <2>10, Zenon DEF NamedInOrder, named, joined
<1> QED
  BY <1>1, <1>7, <1>8

\* What of the command line is behind main, and what it has made of it.
FilesInv ==
  /\ argv \in Seq(GivenWords)
  /\ FilesLeft(parsed, argv)
  /\ pc # "start" => Options(parsed.rest) = {}
  /\ pc = "killed" => \E k \in DOMAIN filenames : Kind(filenames[k]) # "file"

LEMMA FilesInvInit == NoThreadedInit => FilesInv
<1> SUFFICES ASSUME NoThreadedInit PROVE FilesInv
  OBVIOUS
<1>1. argv \in Seq(GivenWords) /\ pc = "start"
  BY CommandsAssumption DEF NoThreadedInit, ReaderInit
<1>2. parsed.rest = argv /\ parsed.files = Len(argv)
  BY DEF NoThreadedInit, ReaderInit, Unparsed
<1> DEFINE f == [i \in 1..Len(argv) |-> i]
<1>3. Part(f, argv, argv)
  <2>1. Len(argv) \in Nat /\ DOMAIN argv = 1..Len(argv)
    BY <1>1
  <2> QED
    BY <2>1 DEF Part, Places
<1>4. Dropped(f, Len(argv), argv) = {}
  <2>1. DOMAIN argv = 1..Len(argv)
    BY <1>1
  <2> QED
    BY <2>1 DEF Dropped, Places
<1>5. Len(argv) = Len(argv) - Cardinality({})
  BY <1>1, FS_EmptySet
<1> HIDE DEF f
<1>6. FilesLeft(parsed, argv)
  BY <1>2, <1>3, <1>4, <1>5 DEF FilesLeft
<1> QED
  BY <1>1, <1>6 DEF FilesInv

LEMMA FilesInvStep == Control /\ FilesInv /\ [NoThreadedNext]_allVars => FilesInv'
<1> SUFFICES ASSUME Control, FilesInv, [NoThreadedNext]_allVars PROVE FilesInv'
  OBVIOUS
<1>1. CASE NextOption
  <2>1. UNCHANGED <<argv, pc>> /\ pc = "start"
    BY <1>1 DEF NextOption
  <2>2. FilesLeft(parsed', argv)
    BY <1>1, GetoptLeaves DEF Control, FilesInv, NextOption
  <2> QED
    BY <2>1, <2>2 DEF FilesInv
<1>2. CASE Start
  <2>1. UNCHANGED <<argv, parsed>> /\ Options(parsed.rest) = {} /\ pc' \in {"open", "exit"}
    BY <1>2 DEF Start, commandVars
  <2> QED
    BY <2>1 DEF FilesInv
<1>3. CASE OpenFails
  <2>1. UNCHANGED <<argv, parsed>> /\ pc # "start" /\ Kind(filenames[files + 1]) # "file"
    BY <1>3 DEF OpenFails, MayOpen, commandVars
  <2>2. files + 1 \in DOMAIN filenames
    <3>1. filenames \in Seq(GivenWords)
      BY FilenamesGiven DEF Control, filenames
    <3>2. files \in Nat /\ files < Len(filenames)
      BY <1>3 DEF OpenFails, MayOpen, Control
    <3> QED
      BY <3>1, <3>2
  <2>3. filenames' = filenames
    BY <2>1 DEF filenames
  <2> QED
    BY <2>1, <2>2, <2>3 DEF FilesInv
<1>4. CASE Open \/ Turn \/ LoopEnds \/ PushWindow \/ DumpTurn
  <2>1. UNCHANGED <<argv, parsed>> /\ pc # "start" /\ pc' \in {"loop", "windows", "end"}
    BY <1>4 DEF Open, Turn, LoopEnds, PushWindow, DumpTurn, MayOpen, commandVars
  <2> QED
    BY <2>1 DEF FilesInv
<1>5. CASE UNCHANGED allVars
  <2>1. UNCHANGED <<argv, parsed, pc>>
    BY <1>5 DEF allVars, readerVars, commandVars
  <2>2. filenames' = filenames
    BY <2>1 DEF filenames
  <2> QED
    BY <2>1, <2>2 DEF FilesInv
<1> QED
  BY <1>1, <1>2, <1>3, <1>4, <1>5 DEF NoThreadedNext, ReadStep, AllRead

\* The files opened are those named, in their order, wherever the options
\* stand: but for the first ones, as many as there are options joined with
\* their value.  Only a word that stands alone ends the process.
THEOREM FilesNamedAreRead == ReadersSpec => []FilesAsNamed
<1>1. Control /\ FilesInv => FilesAsNamed
  <2> SUFFICES ASSUME Control, FilesInv, pc # "start", Complete(argv)
               PROVE  NamedInOrder(parsed, argv) /\ pc # "killed"
    BY Zenon DEF FilesAsNamed, NamedInOrder, filenames, FilesInv
  <2>1. NamedInOrder(parsed, argv)
    BY NamesTaken DEF Control, FilesInv
  <2>2. \A k \in DOMAIN filenames : Kind(filenames[k]) = "file"
    BY <2>1, Zenon DEF NamedInOrder, filenames, Places
  <2> QED
    BY <2>1, <2>2 DEF FilesInv
<1>2. Control /\ FilesInv /\ [NoThreadedNext]_allVars => (Control /\ FilesInv)'
  BY ControlStep, FilesInvStep
<1> QED
  BY <1>1, <1>2, ControlInit, FilesInvInit, PTL DEF ReadersSpec

-----------------------------------------------------------------------------
(***************************************************************************)
(* Where the readers are in a whole capture.                               *)
(***************************************************************************)

\* The payload read from record r.
PayloadOf(r) ==
  LET from == HeaderAt(cap)[r] + 16 + 56
  IN  [from |-> from, bytes |-> BytesRead(cap, from, cap.records[r].orig - 52)]

\* k records have been read, and those in range have given the payloads.
After(k) ==
  /\ Len(payloads) = Count(k)
  /\ IF eof THEN k = Len(cap.records) ELSE pos = StandAt(cap, k)
  /\ pc = "windows" => /\ k \in InRangeRecords /\ nPacketLength = cap.records[k].orig
                       /\ payloads # << >> /\ payloads[Len(payloads)] = PayloadOf(k)
  /\ program = "noThreaded" /\ k > 0 => nPacketLength = cap.records[k].orig
  /\ ~eof /\ k = Len(cap.records) => k \notin InRangeRecords

\* In a loop this is true of some k, and at its end of all records.  Payloads
\* come from the records in range, in their order.
InStep ==
  Whole(cap) /\ LengthGiven =>
    /\ payloads \in Seq([from : Int, bytes : Int])
    /\ \A i \in DOMAIN payloads : \E r \in InRangeRecords : Count(r) = i /\ payloads[i] = PayloadOf(r)
    /\ pc \in {"loop", "windows"} => \E k \in 0..Len(cap.records) : After(k)
    /\ pc = "end" /\ (program = "threadedRE" \/ level = 1) =>
         Len(payloads) = Cardinality(InRangeRecords)

-----------------------------------------------------------------------------
\* Records in range are counted one by one.
LEMMA CountStep ==
  ASSUME IsCapture(cap)
  PROVE  /\ Count(0) = 0
         /\ \A k \in 0..(Len(cap.records) - 1) :
              Count(k + 1) = Count(k) + (IF k + 1 \in InRangeRecords THEN 1 ELSE 0)
         /\ Count(Len(cap.records)) = Cardinality(InRangeRecords)
         /\ \A k \in 0..Len(cap.records) : Count(k) \in Nat
<1> DEFINE L == Len(cap.records)
           Upto(k) == {s \in InRangeRecords : s <= k}
<1>1. L \in Nat /\ InRangeRecords \subseteq 1..L
  BY DEF IsCapture, InRangeRecords
<1>2. IsFiniteSet(InRangeRecords)
  <2>1. IsFiniteSet(1..L)
    BY <1>1, FS_Interval
  <2> QED
    BY <1>1, <2>1, FS_Subset
<1> HIDE DEF L
<1>0. \A s \in InRangeRecords : s \in Nat /\ 0 < s /\ s <= L
  BY <1>1
<1>3. \A k : IsFiniteSet(Upto(k)) /\ Cardinality(Upto(k)) \in Nat
  BY <1>2, FS_Subset, FS_CardinalityType
<1>4. Upto(0) = {} /\ Upto(L) = InRangeRecords
  BY <1>0
<1>5. ASSUME NEW k \in 0..(L - 1)
      PROVE  Upto(k + 1) = IF k + 1 \in InRangeRecords THEN Upto(k) \cup {k + 1} ELSE Upto(k)
  <2>1. \A s \in InRangeRecords : s <= k + 1 <=> s <= k \/ s = k + 1
    BY <1>0, <1>1
  <2>2. k + 1 <= k + 1
    BY <1>1
  <2>3. CASE k + 1 \in InRangeRecords
    BY <2>1, <2>2, <2>3
  <2>4. CASE k + 1 \notin InRangeRecords
    BY <2>1, <2>4
  <2> QED
    BY <2>3, <2>4
<1>6. ASSUME NEW k \in 0..(L - 1) PROVE k + 1 \notin Upto(k)
  BY <1>1
<1>7. ASSUME NEW k \in 0..(L - 1)
      PROVE  Cardinality(Upto(k + 1)) =
               Cardinality(Upto(k)) + (IF k + 1 \in InRangeRecords THEN 1 ELSE 0)
  <2>1. CASE k + 1 \in InRangeRecords
    <3>1. Upto(k + 1) = Upto(k) \cup {k + 1}
      BY <1>5, <2>1
    <3>2. Cardinality(Upto(k) \cup {k + 1}) = Cardinality(Upto(k)) + 1
      BY <1>3, <1>6, FS_AddElement
    <3> QED
      BY <2>1, <3>1, <3>2
  <2>2. CASE k + 1 \notin InRangeRecords
    <3>1. Upto(k + 1) = Upto(k)
      BY <1>5, <2>2
    <3> HIDE DEF Upto
    <3> QED
      BY <1>3, <2>2, <3>1
  <2> QED
    BY <2>1, <2>2
<1>8. \A k : Count(k) = Cardinality(Upto(k))
  BY DEF Count
<1>9. Cardinality({}) = 0
  BY FS_EmptySet
<1> HIDE DEF Upto
<1> QED
  BY <1>3, <1>4, <1>7, <1>8, <1>9 DEF L

\* What the invariant says of the records is about the capture alone.
LEMMA SameRecords ==
  ASSUME cap' = cap
  PROVE  /\ InRangeRecords' = InRangeRecords
         /\ \A k : Count(k)' = Count(k)
         /\ \A r : PayloadOf(r)' = PayloadOf(r)
<1>1. InRangeRecords' = InRangeRecords
  BY DEF InRangeRecords
<1>2. \A k : Count(k)' = Count(k)
  BY <1>1 DEF Count
<1>3. \A r : PayloadOf(r)' = PayloadOf(r)
  BY DEF PayloadOf
<1> QED
  BY <1>1, <1>2, <1>3

\* A step that does not read leaves the invariant alone.
LEMMA InStepFrame ==
  ASSUME InStep, UNCHANGED <<program, cap, pos, eof, nPacketLength, payloads>>,
         pc' \in {"loop", "windows"} => pc \in {"loop", "windows"} /\ pc' \in {"loop", pc},
         pc' = "end" => pc = "end" /\ level' = level
  PROVE  InStep'
<1>1. /\ InRangeRecords' = InRangeRecords
      /\ \A k : Count(k)' = Count(k)
      /\ \A r : PayloadOf(r)' = PayloadOf(r)
  BY SameRecords
<1>2. pc' \in {"loop", "windows"} => \A k : After(k) => After(k)'
  BY <1>1 DEF After
<1>3. Whole(cap)' /\ LengthGiven' => Whole(cap) /\ LengthGiven
  BY DEF LengthGiven
<1> QED
  BY <1>1, <1>2, <1>3 DEF InStep

\* One record further.
LEMMA ReadRecord ==
  ASSUME IsCapture(cap), Whole(cap), NEW k \in 0..(Len(cap.records) - 1),
         payloads \in Seq([from : Int, bytes : Int]), After(k), ~eof,
         \A i \in DOMAIN payloads : \E r \in InRangeRecords : Count(r) = i /\ payloads[i] = PayloadOf(r),
         UNCHANGED <<cap, program>>,
         NEW n, n = cap.records[k + 1].orig, nPacketLength' = n,
         NEW body, body = Sought(cap, HeaderAt(cap)[k + 1] + 12, 8),
         Skip(body, n) \/ Payload(body, n),
         pc' = "windows" => InRange(n)
  PROVE  /\ payloads' \in Seq([from : Int, bytes : Int])
         /\ \A i \in DOMAIN payloads' :
              \E r \in InRangeRecords : Count(r) = i /\ payloads'[i] = PayloadOf(r)
         /\ After(k + 1)'
<1> DEFINE h == HeaderAt(cap)[k + 1]
           L == Len(cap.records)
           P == [from : Int, bytes : Int]
<1>1. /\ h \in Nat /\ n \in Nat
      /\ Sought(cap, body, n) = StandAt(cap, k + 1)
      /\ InRange(n) =>
           /\ Sought(cap, body, 52) = h + 72
           /\ BytesRead(cap, h + 72, n - 52) = IF k + 1 = L THEN n - 56 ELSE n - 52
           /\ h + 72 + BytesRead(cap, h + 72, n - 52) = StandAt(cap, k + 1)
  BY RecordTurn
<1>2. /\ InRangeRecords' = InRangeRecords
      /\ \A j : Count(j)' = Count(j)
      /\ \A r : PayloadOf(r)' = PayloadOf(r)
  BY SameRecords
<1>3. /\ L \in Nat /\ k + 1 \in 1..L /\ k \in Nat
      /\ k + 1 \in InRangeRecords <=> InRange(n)
  BY DEF IsCapture, InRangeRecords
<1>4. /\ Count(k + 1) = Count(k) + (IF InRange(n) THEN 1 ELSE 0)
      /\ Count(k) \in Nat /\ Len(payloads) = Count(k)
  BY <1>3, CountStep DEF After
<1>5. After(k + 1)' =
        (/\ Len(payloads') = Count(k + 1)
         /\ IF eof' THEN k + 1 = L ELSE pos' = StandAt(cap, k + 1)
         /\ pc' = "windows" =>
              /\ k + 1 \in InRangeRecords /\ nPacketLength' = cap.records[k + 1].orig
              /\ payloads' # << >> /\ payloads'[Len(payloads')] = PayloadOf(k + 1)
         /\ program' = "noThreaded" /\ k + 1 > 0 => nPacketLength' = cap.records[k + 1].orig
         /\ ~eof' /\ k + 1 = L => k + 1 \notin InRangeRecords)
  BY <1>2 DEF After, StandAt
<1> HIDE DEF h, L
<1>6. CASE Skip(body, n)
  <2>1. ~InRange(n) /\ pos' = StandAt(cap, k + 1) /\ ~eof' /\ payloads' = payloads
    BY <1>1, <1>6 DEF Skip
  <2>2. Count(k + 1) = Count(k)
    BY <1>4, <2>1
  <2>3. After(k + 1)'
    BY <1>3, <1>4, <1>5, <2>1, <2>2
  <2> QED
    BY <2>1, <2>3
<1>7. CASE Payload(body, n)
  <2>1. InRange(n)
    BY <1>7 DEF Payload
  <2> DEFINE bytes == BytesRead(cap, h + 72, n - 52)
  <2>2. /\ pos' = h + 72 + bytes
        /\ eof' = (bytes < n - 52)
        /\ payloads' = Append(payloads, [from |-> h + 72, bytes |-> bytes])
    BY <1>1, <1>7, <2>1 DEF Payload
  <2>3. PayloadOf(k + 1) = [from |-> h + 72, bytes |-> bytes]
    <3>1. HeaderAt(cap)[k + 1] + 16 + 56 = h + 72
      <4>1. HeaderAt(cap)[k + 1] = h
        BY DEF h
      <4> QED
        BY <1>1, <4>1
    <3> QED
      BY <3>1 DEF PayloadOf
  <2>4. bytes = IF k + 1 = L THEN n - 56 ELSE n - 52
    BY <1>1, <2>1
  <2>5. h + 72 + bytes = StandAt(cap, k + 1)
    BY <1>1, <2>1
  <2> HIDE DEF bytes
  <2>6. [from |-> h + 72, bytes |-> bytes] \in P
    BY <1>1, <2>4
  <2>7. /\ payloads' \in Seq(P)
        /\ Len(payloads') = Len(payloads) + 1
        /\ \A i \in 1..Len(payloads) : payloads'[i] = payloads[i]
        /\ payloads'[Len(payloads) + 1] = [from |-> h + 72, bytes |-> bytes]
    BY <2>2, <2>6, AppendProperties
  <2>8. \A i \in DOMAIN payloads' :
          \E r \in InRangeRecords : Count(r) = i /\ payloads'[i] = PayloadOf(r)
    <3> SUFFICES ASSUME NEW i \in DOMAIN payloads'
                 PROVE  \E r \in InRangeRecords : Count(r) = i /\ payloads'[i] = PayloadOf(r)
      OBVIOUS
    <3>1. i \in 1..(Len(payloads) + 1) /\ DOMAIN payloads = 1..Len(payloads) /\ Len(payloads) \in Nat
      BY <2>7
    <3>2. CASE i = Len(payloads) + 1
      BY <1>3, <1>4, <2>1, <2>3, <2>7, <3>2
    <3>3. CASE i \in 1..Len(payloads)
      BY <2>7, <3>1, <3>3
    <3> QED
      BY <3>1, <3>2, <3>3
  <2>9. eof' <=> k + 1 = L
    <3>1. bytes < n - 52 <=> k + 1 = L
      BY <1>1, <2>4
    <3> QED
      BY <2>2, <3>1, Zenon
  <2>10. payloads' # << >>
    BY <2>7
  <2>11. Len(payloads') = Count(k + 1)
    BY <1>4, <2>1, <2>7
  <2>12. payloads'[Len(payloads')] = PayloadOf(k + 1)
    BY <2>3, <2>7
  <2>13. IF eof' THEN k + 1 = L ELSE pos' = StandAt(cap, k + 1)
    BY <2>2, <2>5, <2>9
  <2>14. After(k + 1)'
    BY <1>3, <1>5, <2>1, <2>9, <2>10, <2>11, <2>12, <2>13
  <2> QED
    BY <2>7, <2>8, <2>14
<1> QED
  BY <1>6, <1>7

LEMMA InStepInit == NoThreadedInit => InStep
<1> SUFFICES ASSUME NoThreadedInit PROVE InStep
  OBVIOUS
<1>1. payloads = << >> /\ pc = "start"
  BY DEF NoThreadedInit, ReaderInit
<1> QED
  BY <1>1 DEF InStep

\* Opening a capture: 28 bytes are behind the reader, four too many.
LEMMA InStepOpen ==
  ASSUME Control, InStep, Open
  PROVE  InStep'
<1> SUFFICES ASSUME Whole(cap'), LengthGiven' PROVE InStep'
  BY DEF InStep
<1>1. IsCapture(cap')
  BY OpenedIsCapture DEF Open, MayOpen
<1>2. /\ payloads' = << >> /\ pos' = SkipHeader(cap') /\ eof' = FALSE
      /\ pc' = IF program = "noThreaded" /\ level # 1 THEN "end" ELSE "loop"
      /\ UNCHANGED <<program, parsed>>
  BY DEF Open, commandVars
<1>3. HeaderAt(cap')[1] = 24
  BY <1>1, Headers
<1>4. Len(cap'.records) \in Nat /\ DOMAIN cap'.records = 1..Len(cap'.records)
  BY <1>1 DEF IsCapture
<1>5. pos' = StandAt(cap', 0)
  BY <1>2, <1>3 DEF SkipHeader, Sought, StandAt
<1>6. \A r \in InRangeRecords' : r > 0
  BY <1>4 DEF InRangeRecords
<1>7. Count(0)' = 0
  <2>1. {s \in InRangeRecords' : s <= 0} = {}
    <3>1. \A r \in InRangeRecords' : r \in Nat
      BY <1>4 DEF InRangeRecords
    <3> QED
      BY <1>6, <3>1
  <2>2. Count(0)' = Cardinality({s \in InRangeRecords' : s <= 0})
    BY DEF Count
  <2> QED
    BY <2>1, <2>2, FS_EmptySet
<1>8. 0 \in 0..Len(cap'.records) /\ 0 \notin InRangeRecords'
  BY <1>4, <1>6
<1>9. Len(payloads') = 0 /\ pc' # "windows"
  BY <1>2
<1>10. After(0)'
  BY <1>2, <1>5, <1>7, <1>8, <1>9 DEF After
<1>11. pc' = "end" => program' = "noThreaded" /\ level' # 1
  BY <1>2 DEF level
<1>12. payloads' \in Seq([from : Int, bytes : Int]) /\ DOMAIN payloads' = {}
  BY <1>2
<1>13. program' = "noThreaded" => program' # "threadedRE"
  OBVIOUS
<1> QED
  BY <1>8, <1>10, <1>11, <1>12, <1>13 DEF InStep

\* What a turn finds in a whole capture, in either program.
LEMMA TurnFinds ==
  ASSUME Control, Whole(cap), NEW k \in 0..Len(cap.records), After(k), ~eof
  PROVE  LET at == Sought(cap, pos, 8)
         IN  /\ k = Len(cap.records) => /\ at = Size(cap) /\ BytesRead(cap, at, 4) = 0
                                        /\ pos = Size(cap)
             /\ k < Len(cap.records) => /\ at = HeaderAt(cap)[k + 1] + 12
                                        /\ BytesRead(cap, at, 4) = 4
                                        /\ WordAt(cap, at) = {cap.records[k + 1].orig}
<1>1. pos = StandAt(cap, k) /\ IsCapture(cap)
  BY DEF After, Control
<1>2. CASE k = Len(cap.records)
  BY <1>1, <1>2, StandAtEnd
<1>3. CASE k < Len(cap.records)
  <2>1. k \in 0..(Len(cap.records) - 1)
    BY <1>1, <1>3 DEF IsCapture
  <2> DEFINE h == HeaderAt(cap)[k + 1]
  <2>2. /\ StandAt(cap, k) = h + 4 /\ Sought(cap, h + 4, 8) = h + 12
        /\ BytesRead(cap, h + 12, 4) = 4 /\ WordAt(cap, h + 12) = {cap.records[k + 1].orig}
    BY <1>1, <2>1, RecordTurn
  <2>3. k # Len(cap.records)
    BY <1>3, <2>1
  <2> HIDE DEF h
  <2>4. Sought(cap, pos, 8) = h + 12
    BY <1>1, <2>2
  <2> QED
    BY <2>2, <2>3, <2>4 DEF h
<1>4. Len(cap.records) \in Nat
  BY <1>1 DEF IsCapture
<1> QED
  BY <1>2, <1>3, <1>4

LEMMA InStepTurn ==
  ASSUME Control, InStep, Turn
  PROVE  InStep'
<1> SUFFICES ASSUME Whole(cap'), LengthGiven' PROVE InStep'
  BY DEF InStep
<1> DEFINE at == Sought(cap, pos, 8)
           L == Len(cap.records)
<1>1. UNCHANGED <<cap, program, parsed>> /\ program = "threadedRE" /\ pc = "loop" /\ ~eof
  BY DEF Turn, commandVars
<1>2. Whole(cap) /\ LengthGiven /\ IsCapture(cap) /\ L \in Nat
  BY <1>1 DEF LengthGiven, Control, IsCapture
<1>3. /\ payloads \in Seq([from : Int, bytes : Int])
      /\ \A i \in DOMAIN payloads : \E r \in InRangeRecords : Count(r) = i /\ payloads[i] = PayloadOf(r)
  BY <1>2 DEF InStep
<1>4. PICK k \in 0..L : After(k)
  BY <1>1, <1>2 DEF InStep
<1>5. /\ InRangeRecords' = InRangeRecords
      /\ \A j : Count(j)' = Count(j)
      /\ \A r : PayloadOf(r)' = PayloadOf(r)
  BY <1>1, SameRecords
<1>6. CASE k = L
  <2>1. BytesRead(cap, at, 4) = 0
    BY <1>1, <1>2, <1>4, <1>6, TurnFinds
  <2>2. pc' = "end" /\ payloads' = payloads
    BY <2>1 DEF Turn
  <2>3. Len(payloads) = Cardinality(InRangeRecords)
    BY <1>2, <1>4, <1>6, CountStep DEF After
  <2> QED
    BY <1>3, <1>5, <2>2, <2>3 DEF InStep
<1>7. CASE k # L
  <2>1. k \in 0..(L - 1) /\ k < L
    BY <1>2, <1>4, <1>7
  <2>2. /\ at = HeaderAt(cap)[k + 1] + 12
        /\ BytesRead(cap, at, 4) = 4
        /\ WordAt(cap, at) = {cap.records[k + 1].orig}
    BY <1>1, <1>2, <1>4, <2>1, TurnFinds
  <2>3. PICK n \in WordAt(cap, at) :
          /\ nPacketLength' = n
          /\ Skip(Sought(cap, at, 8), n) \/ Payload(Sought(cap, at, 8), n)
          /\ pc' = IF level = 2 /\ InRange(n) THEN "windows" ELSE "loop"
    BY <2>2 DEF Turn
  <2>4. n = cap.records[k + 1].orig
    BY <2>2, <2>3
  <2> DEFINE body == Sought(cap, at, 8)
  <2>5. body = Sought(cap, HeaderAt(cap)[k + 1] + 12, 8)
    BY <2>2
  <2>6. (Skip(body, n) \/ Payload(body, n)) /\ nPacketLength' = n
    BY <2>3
  <2>7. (pc' = "windows" => InRange(n)) /\ pc' \in {"windows", "loop"}
    BY <2>3
  <2> HIDE DEF body
  <2>8. /\ payloads' \in Seq([from : Int, bytes : Int])
        /\ \A i \in DOMAIN payloads' :
             \E r \in InRangeRecords : Count(r) = i /\ payloads'[i] = PayloadOf(r)
        /\ After(k + 1)'
    BY <1>1, <1>2, <1>3, <1>4, <2>1, <2>4, <2>5, <2>6, <2>7, ReadRecord
  <2>9. k + 1 \in 0..Len(cap'.records)
    BY <1>1, <1>2, <2>1
  <2> QED
    BY <1>5, <2>7, <2>8, <2>9 DEF InStep
<1> QED
  BY <1>6, <1>7

\* The loop of noThreaded.c ends by itself only with a payload cut short;
\* after a last record out of range it skips the same length for ever.
LEMMA InStepDump ==
  ASSUME Control, InStep, DumpTurn
  PROVE  InStep'
<1> SUFFICES ASSUME Whole(cap'), LengthGiven' PROVE InStep'
  BY DEF InStep
<1> DEFINE at == Sought(cap, pos, 8)
           L == Len(cap.records)
<1>1. /\ UNCHANGED <<cap, program, parsed, pc>>
      /\ program = "noThreaded" /\ pc = "loop" /\ ~eof
  BY DEF DumpTurn, commandVars
<1>2. Whole(cap) /\ LengthGiven /\ IsCapture(cap) /\ L \in Nat
  BY <1>1 DEF LengthGiven, Control, IsCapture
<1>3. /\ payloads \in Seq([from : Int, bytes : Int])
      /\ \A i \in DOMAIN payloads : \E r \in InRangeRecords : Count(r) = i /\ payloads[i] = PayloadOf(r)
  BY <1>2 DEF InStep
<1>4. PICK k \in 0..L : After(k)
  BY <1>1, <1>2 DEF InStep
<1>5. /\ InRangeRecords' = InRangeRecords
      /\ \A j : Count(j)' = Count(j)
      /\ \A r : PayloadOf(r)' = PayloadOf(r)
  BY <1>1, SameRecords
<1>6. PICK n \in LengthsRead(at) :
        nPacketLength' = n /\ (Skip(Sought(cap, at, 8), n) \/ Payload(Sought(cap, at, 8), n))
  BY DEF DumpTurn
<1>7. CASE k = L
  <2>1. at = Size(cap) /\ BytesRead(cap, at, 4) = 0 /\ pos = Size(cap)
    BY <1>1, <1>2, <1>4, <1>7, TurnFinds
  <2>2. n = nPacketLength
    BY <1>6, <2>1 DEF LengthsRead
  <2>3. L > 0
    BY <1>1, <1>2 DEF LengthGiven
  <2>4. n = cap.records[L].orig /\ L \notin InRangeRecords
    BY <1>1, <1>4, <1>7, <2>2, <2>3 DEF After
  <2>5. n \in Nat /\ ~InRange(n)
    BY <1>2, <2>3, <2>4 DEF IsCapture, InRangeRecords
  <2>6. Size(cap) \in Nat /\ Sought(cap, Size(cap), 8) = Size(cap) /\ StandAt(cap, L) = Size(cap)
    BY <1>2, StandAtEnd
  <2>7. Skip(Size(cap), n)
    BY <1>6, <2>1, <2>5, <2>6 DEF Payload
  <2>8. pos' = Size(cap) /\ eof' = FALSE /\ payloads' = payloads
    <3>1. Sought(cap, Size(cap), n) = Size(cap)
      BY <2>5, <2>6 DEF Sought
    <3> QED
      BY <2>7, <3>1 DEF Skip
  <2>9. After(k)'
    BY <1>1, <1>4, <1>5, <1>6, <1>7, <2>4, <2>6, <2>8 DEF After
  <2>10. k \in 0..Len(cap'.records)
    BY <1>1, <1>4
  <2> QED
    BY <1>1, <1>3, <1>5, <2>8, <2>9, <2>10 DEF InStep
<1>8. CASE k # L
  <2>1. k \in 0..(L - 1) /\ k < L
    BY <1>2, <1>4, <1>8
  <2>2. /\ at = HeaderAt(cap)[k + 1] + 12
        /\ BytesRead(cap, at, 4) = 4
        /\ WordAt(cap, at) = {cap.records[k + 1].orig}
    BY <1>1, <1>2, <1>4, <2>1, TurnFinds
  <2>3. n = cap.records[k + 1].orig
    BY <1>6, <2>2 DEF LengthsRead
  <2> DEFINE body == Sought(cap, at, 8)
  <2>4. body = Sought(cap, HeaderAt(cap)[k + 1] + 12, 8)
    BY <2>2
  <2>5. (Skip(body, n) \/ Payload(body, n)) /\ nPacketLength' = n
    BY <1>6
  <2>6. pc' = "windows" => InRange(n)
    BY <1>1
  <2> HIDE DEF body
  <2>7. /\ payloads' \in Seq([from : Int, bytes : Int])
        /\ \A i \in DOMAIN payloads' :
             \E r \in InRangeRecords : Count(r) = i /\ payloads'[i] = PayloadOf(r)
        /\ After(k + 1)'
    BY <1>1, <1>2, <1>3, <1>4, <2>1, <2>3, <2>4, <2>5, <2>6, ReadRecord
  <2>8. k + 1 \in 0..Len(cap'.records)
    BY <1>1, <1>2, <2>1
  <2> QED
    BY <1>1, <1>5, <2>7, <2>8 DEF InStep
<1> QED
  BY <1>7, <1>8

\* The readers keep in step.
LEMMA InStepStep == Control /\ InStep /\ [NoThreadedNext]_allVars => InStep'
<1> SUFFICES ASSUME Control, InStep, [NoThreadedNext]_allVars PROVE InStep'
  OBVIOUS
<1>1. CASE NextOption
  <2>1. UNCHANGED <<program, cap, pos, eof, nPacketLength, payloads>> /\ pc' = "start"
    BY <1>1 DEF NextOption, stream
  <2> QED
    BY <2>1, InStepFrame
<1>2. CASE Start
  <2>1. /\ UNCHANGED <<program, cap, pos, eof, nPacketLength, payloads>>
        /\ pc' \in {"open", "exit"}
    BY <1>2 DEF Start, stream, commandVars
  <2> QED
    BY <2>1, InStepFrame
<1>3. CASE Open
  BY <1>3, InStepOpen
<1>4. CASE OpenFails
  <2>1. UNCHANGED <<program, cap, pos, eof, nPacketLength, payloads>> /\ pc' = "killed"
    BY <1>4 DEF OpenFails, stream, commandVars
  <2> QED
    BY <2>1, InStepFrame
<1>5. CASE Turn
  BY <1>5, InStepTurn
<1>6. CASE LoopEnds
  <2>1. /\ UNCHANGED <<program, cap, pos, eof, nPacketLength, payloads>>
        /\ pc = "loop" /\ eof /\ pc' = "end"
    BY <1>6 DEF LoopEnds, stream, commandVars
  <2> SUFFICES ASSUME Whole(cap'), LengthGiven' PROVE InStep'
    BY DEF InStep
  <2>2. Whole(cap) /\ LengthGiven /\ IsCapture(cap)
    BY <2>1 DEF LengthGiven, Control
  <2>3. PICK k \in 0..Len(cap.records) : After(k)
    BY <2>1, <2>2 DEF InStep
  <2>4. Len(payloads) = Cardinality(InRangeRecords)
    BY <2>1, <2>2, <2>3, CountStep DEF After
  <2>5. /\ InRangeRecords' = InRangeRecords
        /\ \A j : Count(j)' = Count(j)
        /\ \A r : PayloadOf(r)' = PayloadOf(r)
    BY <2>1, SameRecords
  <2> QED
    BY <2>1, <2>2, <2>4, <2>5 DEF InStep
<1>7. CASE PushWindow
  <2>1. /\ UNCHANGED <<program, cap, pos, eof, nPacketLength, payloads>>
        /\ pc = "windows" /\ pc' \in {"windows", "loop"}
    BY <1>7 DEF PushWindow, stream, commandVars
  <2> QED
    BY <2>1, InStepFrame
<1>8. CASE DumpTurn
  BY <1>8, InStepDump
<1>9. CASE UNCHANGED allVars
  <2>1. UNCHANGED <<program, cap, pos, eof, nPacketLength, payloads, pc, parsed>>
    BY <1>9 DEF allVars, readerVars, commandVars, stream
  <2>2. level' = level
    BY <2>1 DEF level
  <2> QED
    BY <2>1, <2>2, InStepFrame
<1> QED
  BY <1>1, <1>2, <1>3, <1>4, <1>5, <1>6, <1>7, <1>8, <1>9 DEF NoThreadedNext, ReadStep, AllRead

\* Both readers always keep in step with a whole capture, each payload is the
\* one of its record, and all have been read when the loop is left.
THEOREM ReadersInStep == ReadersSpec => []ReadsInStep
<1>1. Control /\ InStep => ReadsInStep
  BY DEF InStep, ReadsInStep, PayloadOf
<1>2. NoThreadedInit => Control /\ InStep
  BY ControlInit, InStepInit
<1>3. Control /\ InStep /\ [NoThreadedNext]_allVars => (Control /\ InStep)'
  BY ControlStep, InStepStep
<1> QED
  BY <1>1, <1>2, <1>3, PTL DEF ReadersSpec

-----------------------------------------------------------------------------
(***************************************************************************)
(* The windows.                                                            *)
(***************************************************************************)

IsSequence(s) == s \in Seq({s[i] : i \in DOMAIN s})

\* A sequence with an element more.
LEMMA AppendSequence ==
  ASSUME NEW s, IsSequence(s), NEW e
  PROVE  /\ IsSequence(Append(s, e))
         /\ DOMAIN s = 1..Len(s) /\ Len(s) \in Nat
         /\ DOMAIN Append(s, e) = 1..(Len(s) + 1)
         /\ \A i \in 1..Len(s) : Append(s, e)[i] = s[i]
         /\ Append(s, e)[Len(s) + 1] = e
<1> DEFINE S == {s[i] : i \in DOMAIN s} \cup {e}
           t == Append(s, e)
<1>1. s \in Seq({s[i] : i \in DOMAIN s})
  BY DEF IsSequence
<1>2. DOMAIN s = 1..Len(s) /\ Len(s) \in Nat
  BY <1>1
<1>3. s \in Seq(S)
  <2>1. \A i \in 1..Len(s) : s[i] \in S
    BY <1>2
  <2> QED
    BY <1>1, <2>1
<1> HIDE DEF S
<1>4. e \in S
  BY DEF S
<1>5. /\ t \in Seq(S) /\ Len(t) = Len(s) + 1
      /\ \A i \in 1..Len(s) : t[i] = s[i]
      /\ t[Len(s) + 1] = e
  BY <1>3, <1>4, AppendProperties
<1> HIDE DEF t
<1>6. DOMAIN t = 1..(Len(s) + 1)
  BY <1>5
<1>7. t \in Seq({t[i] : i \in DOMAIN t})
  BY <1>5
<1> QED
  BY <1>2, <1>5, <1>6, <1>7 DEF IsSequence, t

\* A window lies in its payload, or reaches four bytes behind the last.
Inside(w) ==
  /\ w.of \in DOMAIN payloads
  /\ LET payload == payloads[w.of]
     IN  \/ w.at + 64 <= payload.bytes
         \/ /\ payload.from + payload.bytes = Size(cap)
            /\ w.at + 64 <= payload.bytes + 4

WindowsInside ==
  /\ IsSequence(held)
  /\ pc = "windows" => left \in Nat
  /\ Whole(cap) =>
       /\ pc = "windows" => left = 0 \/ left + 64 <= nPacketLength - 52
       /\ \A i \in DOMAIN held : Inside(held[i])

\* The payload whose windows are being cut.
LEMMA LastPayload ==
  ASSUME Control, InStep, Whole(cap), pc = "windows"
  PROVE  /\ nPacketLength \in Nat /\ 128 <= nPacketLength
         /\ Len(payloads) \in DOMAIN payloads
         /\ LET p == payloads[Len(payloads)]
            IN  \/ p.bytes = nPacketLength - 52
                \/ p.bytes = nPacketLength - 56 /\ p.from + p.bytes = Size(cap)
<1> DEFINE L == Len(cap.records)
<1>1. IsCapture(cap) /\ program = "threadedRE" /\ LengthGiven /\ L \in Nat
  BY DEF Control, Programs, LengthGiven, IsCapture
<1>2. payloads \in Seq([from : Int, bytes : Int])
  BY <1>1 DEF InStep
<1>3. PICK k \in 0..L : After(k)
  BY <1>1 DEF InStep
<1>4. /\ k \in InRangeRecords /\ nPacketLength = cap.records[k].orig
      /\ payloads # << >> /\ payloads[Len(payloads)] = PayloadOf(k)
  BY <1>3 DEF After
<1>5. PICK j \in 0..(L - 1) : k = j + 1
  <2>1. k - 1 \in 0..(L - 1) /\ k = (k - 1) + 1
    BY <1>1, <1>4 DEF InRangeRecords, IsCapture
  <2> QED
    BY <2>1
<1>6. InRange(cap.records[k].orig)
  BY <1>4 DEF InRangeRecords
<1> DEFINE h == HeaderAt(cap)[j + 1]
           n == cap.records[j + 1].orig
<1>7. /\ h \in Nat /\ n \in Nat
      /\ BytesRead(cap, h + 72, n - 52) = IF k = L THEN n - 56 ELSE n - 52
      /\ k = L => h + 72 + (n - 56) = Size(cap)
  BY <1>1, <1>5, <1>6, RecordTurn
<1> HIDE DEF h, n
<1>8. h + 16 + 56 = h + 72
  BY <1>7
<1>9. PayloadOf(k) = [from |-> h + 72, bytes |-> BytesRead(cap, h + 72, n - 52)]
  BY <1>5, <1>8 DEF PayloadOf, h, n
<1>10. Len(payloads) \in DOMAIN payloads
  BY <1>2, <1>4
<1>11. nPacketLength = n /\ 128 <= n
  BY <1>4, <1>5, <1>6 DEF n, InRange
<1> QED
  BY <1>4, <1>7, <1>9, <1>10, <1>11

\* A turn leaves the payloads there are.
LEMMA PayloadsGrow ==
  ASSUME Control, InStep, Whole(cap), Turn
  PROVE  \A i \in DOMAIN payloads : i \in DOMAIN payloads' /\ payloads'[i] = payloads[i]
<1>1. payloads \in Seq([from : Int, bytes : Int])
  BY DEF InStep, LengthGiven, Turn
<1>2. payloads' = payloads \/ \E e : payloads' = Append(payloads, e)
  BY DEF Turn, Skip, Payload
<1>3. ASSUME NEW e, payloads' = Append(payloads, e)
      PROVE  \A i \in DOMAIN payloads : i \in DOMAIN payloads' /\ payloads'[i] = payloads[i]
  <2>1. IsSequence(payloads)
    BY <1>1 DEF IsSequence
  <2>2. /\ DOMAIN payloads = 1..Len(payloads) /\ Len(payloads) \in Nat
        /\ DOMAIN payloads' = 1..(Len(payloads) + 1)
        /\ \A i \in 1..Len(payloads) : payloads'[i] = payloads[i]
    BY <1>3, <2>1, AppendSequence
  <2> QED
    BY <2>2
<1> QED
  BY <1>2, <1>3

LEMMA WindowsInit == NoThreadedInit => WindowsInside
<1> SUFFICES ASSUME NoThreadedInit PROVE WindowsInside
  OBVIOUS
<1>1. held = << >> /\ pc = "start"
  BY DEF NoThreadedInit, ReaderInit
<1> QED
  BY <1>1 DEF WindowsInside, IsSequence

\* A step that leaves the windows alone.
LEMMA WindowsFrame ==
  ASSUME WindowsInside, UNCHANGED <<cap, held>>,
         Whole(cap) =>
           \A i \in DOMAIN payloads : i \in DOMAIN payloads' /\ payloads'[i] = payloads[i],
         pc' = "windows" => left' = 0 \/ (pc = "windows" /\ UNCHANGED <<left, nPacketLength>>)
  PROVE  WindowsInside'
<1>1. Whole(cap) => \A i \in DOMAIN held : Inside(held[i]) => Inside(held[i])'
  BY DEF Inside
<1> QED
  BY <1>1 DEF WindowsInside

LEMMA WindowsPush ==
  ASSUME Control, InStep, WindowsInside, PushWindow
  PROVE  WindowsInside'
<1> DEFINE e == [at |-> left, of |-> Len(payloads), cut |-> Cut, as |-> temp']
<1>1. /\ pc = "windows" /\ held' = Append(held, e) /\ left' = left + 1
      /\ pc' = IF left + 64 < nPacketLength - 52 THEN "windows" ELSE "loop"
      /\ UNCHANGED <<cap, nPacketLength, payloads>>
  BY DEF PushWindow
<1>2. left \in Nat /\ (Whole(cap) => left = 0 \/ left + 64 <= nPacketLength - 52)
  BY <1>1 DEF WindowsInside
<1>3. e.at = left /\ e.of = Len(payloads)
  OBVIOUS
<1> HIDE DEF e
<1>4. /\ IsSequence(held') /\ DOMAIN held = 1..Len(held) /\ Len(held) \in Nat
      /\ DOMAIN held' = 1..(Len(held) + 1)
      /\ \A i \in 1..Len(held) : held'[i] = held[i]
      /\ held'[Len(held) + 1] = e
  BY <1>1, AppendSequence DEF WindowsInside
<1>5. ASSUME Whole(cap) PROVE Inside(e)
  BY <1>1, <1>2, <1>3, <1>5, LastPayload DEF Inside
<1>7. ASSUME Whole(cap'), NEW i \in DOMAIN held' PROVE Inside(held[i])'
  <2>1. Whole(cap)
    BY <1>1, <1>7
  <2>2. CASE i \in 1..Len(held)
    <3>1. Inside(held[i]) /\ held'[i] = held[i]
      BY <1>4, <2>1, <2>2 DEF WindowsInside
    <3> QED
      BY <1>1, <3>1 DEF Inside
  <2>3. CASE i = Len(held) + 1
    <3>1. Inside(e) /\ held'[i] = e
      BY <1>4, <1>5, <2>1, <2>3
    <3> QED
      BY <1>1, <3>1 DEF Inside
  <2> QED
    BY <1>4, <2>2, <2>3
<1>8. Whole(cap') /\ pc' = "windows" => left' + 64 <= nPacketLength' - 52
  <2> SUFFICES ASSUME Whole(cap'), pc' = "windows" PROVE left' + 64 <= nPacketLength' - 52
    OBVIOUS
  <2>1. nPacketLength \in Nat
    BY <1>1, LastPayload
  <2>2. left + 64 < nPacketLength - 52
    BY <1>1
  <2>3. (left + 1) + 64 <= nPacketLength - 52
    BY <1>2, <2>1, <2>2
  <2> QED
    BY <1>1, <2>3
<1> QED
  BY <1>1, <1>2, <1>4, <1>7, <1>8 DEF WindowsInside

LEMMA WindowsStep == Control /\ InStep /\ WindowsInside /\ [NoThreadedNext]_allVars => WindowsInside'
<1> SUFFICES ASSUME Control, InStep, WindowsInside, [NoThreadedNext]_allVars
             PROVE  WindowsInside'
  OBVIOUS
<1>1. CASE NextOption
  <2>1. UNCHANGED <<cap, held, payloads, left, nPacketLength, pc>>
    BY <1>1 DEF NextOption, windowVars
  <2> QED
    BY <2>1, WindowsFrame
<1>2. CASE Start
  <2>1. UNCHANGED <<cap, held, payloads>> /\ pc' \in {"open", "exit"}
    BY <1>2 DEF Start, windowVars
  <2> QED
    BY <2>1, WindowsFrame
<1>3. CASE Open
  <2>1. held' = << >> /\ pc' \in {"end", "loop"}
    BY <1>3 DEF Open
  <2> QED
    BY <2>1 DEF WindowsInside, IsSequence
<1>4. CASE OpenFails
  <2>1. UNCHANGED <<cap, held, payloads>> /\ pc' = "killed"
    BY <1>4 DEF OpenFails, windowVars
  <2> QED
    BY <2>1, WindowsFrame
<1>5. CASE Turn
  <2>1. UNCHANGED <<cap, held>> /\ left' = 0 /\ pc = "loop"
    BY <1>5 DEF Turn
  <2>2. Whole(cap) => \A i \in DOMAIN payloads : i \in DOMAIN payloads' /\ payloads'[i] = payloads[i]
    BY <1>5, <2>1, PayloadsGrow DEF Turn, Control
  <2> QED
    BY <2>1, <2>2, WindowsFrame
<1>6. CASE LoopEnds
  <2>1. UNCHANGED <<cap, held, payloads>> /\ pc' = "end"
    BY <1>6 DEF LoopEnds, windowVars
  <2> QED
    BY <2>1, WindowsFrame
<1>7. CASE PushWindow
  BY <1>7, WindowsPush
<1>8. CASE DumpTurn
  <2>1. UNCHANGED <<cap, held, pc>> /\ held = << >> /\ pc = "loop"
    BY <1>8 DEF DumpTurn, windowVars, Control
  <2> QED
    BY <2>1 DEF WindowsInside
<1>9. CASE UNCHANGED allVars
  <2>1. UNCHANGED <<cap, held, payloads, left, nPacketLength, pc>>
    BY <1>9 DEF allVars, readerVars, windowVars
  <2> QED
    BY <2>1, WindowsFrame
<1> QED
  BY <1>1, <1>2, <1>3, <1>4, <1>5, <1>6, <1>7, <1>8, <1>9 DEF NoThreadedNext, ReadStep, AllRead

\* In a whole capture a window holds bytes of its own payload, but for the
\* last windows, which reach four bytes further at most.
THEOREM WindowsHoldTheFile == ReadersSpec => []WindowsFromFile
<1>1. WindowsInside => WindowsFromFile
  BY DEF WindowsInside, Inside, WindowsFromFile
<1>2. NoThreadedInit => Control /\ InStep /\ WindowsInside
  BY ControlInit, InStepInit, WindowsInit
<1>3. Control /\ InStep /\ WindowsInside /\ [NoThreadedNext]_allVars
        => (Control /\ InStep /\ WindowsInside)'
  BY ControlStep, InStepStep, WindowsStep
<1> QED
  BY <1>1, <1>2, <1>3, PTL DEF ReadersSpec

-----------------------------------------------------------------------------
(***************************************************************************)
(* What sprintf copies.                                                    *)
(***************************************************************************)

\* The first zero of a window.
LEMMA FirstZeroType ==
  ASSUME NEW w
  PROVE  /\ FirstZero(w) \in 0..64
         /\ FirstZero(w) = 64 => \A k \in Window : w[k] # NUL
         /\ FirstZero(w) # 64 => FirstZero(w) \in Window /\ w[FirstZero(w)] = NUL
         /\ \A k \in Window : k < FirstZero(w) => w[k] # NUL
<1> DEFINE zeros == {i \in Window : w[i] = NUL}
<1>1. CASE zeros = {}
  BY <1>1 DEF FirstZero, Window
<1>2. CASE zeros # {}
  <2>1. zeros \in SUBSET Nat
    BY DEF Window
  <2>2. \E i \in zeros : \A j \in zeros : i <= j
    BY <1>2, <2>1, LeastNumber
  <2>3. FirstZero(w) \in zeros /\ \A j \in zeros : FirstZero(w) <= j
    BY <1>2, <2>2 DEF FirstZero
  <2>4. FirstZero(w) \in 0..63 /\ w[FirstZero(w)] = NUL
    BY <2>3 DEF Window
  <2>5. \A k \in Window : k < FirstZero(w) => w[k] # NUL
    BY <2>3, <2>4 DEF Window
  <2> QED
    BY <2>4, <2>5 DEF Window
<1> QED
  BY <1>1, <1>2

\* It is all that matters up to there.
LEMMA SameFirstZero ==
  ASSUME NEW v, NEW w, \A k \in Window : k <= FirstZero(v) => w[k] = v[k]
  PROVE  FirstZero(w) = FirstZero(v)
<1>1. CASE FirstZero(v) = 64
  <2>1. \A k \in Window : w[k] # NUL
    BY <1>1, FirstZeroType DEF Window
  <2> QED
    BY <1>1, <2>1, FirstZeroType
<1>2. CASE FirstZero(v) # 64
  <2>1. FirstZero(v) \in Window /\ w[FirstZero(v)] = NUL
    BY <1>2, FirstZeroType DEF Window
  <2>2. \A k \in Window : k < FirstZero(v) => w[k] # NUL
    BY FirstZeroType DEF Window
  <2>3. FirstZero(w) \in 0..64 /\ FirstZero(v) \in 0..63
    BY <2>1, FirstZeroType DEF Window
  <2>4. ~(FirstZero(v) < FirstZero(w))
    BY <2>1, FirstZeroType
  <2>5. ~(FirstZero(w) < FirstZero(v))
    BY <2>2, <2>3, FirstZeroType DEF Window
  <2> QED
    BY <2>3, <2>4, <2>5
<1> QED
  BY <1>1, <1>2

\* Each window is pushed as it has been cut up to its first zero.
AsCut(w) ==
  /\ w.cut = [k \in Window |-> w.cut[k]] /\ w.as = [k \in Window |-> w.as[k]]
  /\ \A k \in Window : k <= FirstZero(w.cut) => w.as[k] = w.cut[k]

WindowsCopied == IsSequence(held) /\ \A i \in DOMAIN held : AsCut(held[i])

LEMMA CopiedStep == WindowsCopied /\ [NoThreadedNext]_allVars => WindowsCopied'
<1> SUFFICES ASSUME WindowsCopied, [NoThreadedNext]_allVars PROVE WindowsCopied'
  OBVIOUS
<1>1. CASE PushWindow
  <2> DEFINE e == [at |-> left, of |-> Len(payloads), cut |-> Cut, as |-> temp']
  <2>1. held' = Append(held, e) /\ temp' = Copied(Cut)
    BY <1>1 DEF PushWindow
  <2>2. AsCut(e)
    <3>1. /\ Cut = [k \in Window |-> Cut[k]]
          /\ Copied(Cut) = [k \in Window |-> Copied(Cut)[k]]
      BY DEF Cut, Copied
    <3>2. \A k \in Window : k <= FirstZero(Cut) => Copied(Cut)[k] = Cut[k]
      BY DEF Copied
    <3> QED
      BY <2>1, <3>1, <3>2 DEF AsCut
  <2> HIDE DEF e
  <2>3. /\ IsSequence(held') /\ DOMAIN held = 1..Len(held) /\ Len(held) \in Nat
        /\ DOMAIN held' = 1..(Len(held) + 1)
        /\ \A i \in 1..Len(held) : held'[i] = held[i]
        /\ held'[Len(held) + 1] = e
    BY <2>1, AppendSequence DEF WindowsCopied
  <2>4. \A i \in DOMAIN held' : i \in 1..Len(held) \/ i = Len(held) + 1
    BY <2>3
  <2>5. \A i \in DOMAIN held' : AsCut(held'[i])
    BY <2>2, <2>3, <2>4 DEF WindowsCopied
  <2> QED
    BY <2>3, <2>5 DEF WindowsCopied
<1>2. CASE Open
  <2>1. held' = << >>
    BY <1>2 DEF Open
  <2> QED
    BY <2>1 DEF WindowsCopied, IsSequence
<1>3. CASE NextOption \/ Start \/ OpenFails \/ Turn \/ LoopEnds \/ DumpTurn \/ UNCHANGED allVars
  <2>1. held' = held
    BY <1>3 DEF NextOption, Start, OpenFails, Turn, LoopEnds, DumpTurn, allVars, readerVars, windowVars
  <2> QED
    BY <2>1 DEF WindowsCopied
<1> QED
  BY <1>1, <1>2, <1>3 DEF NoThreadedNext, ReadStep, AllRead

\* Windows without a zero byte are found equal exactly if they are, others
\* only if they agree up to the first zero: whatever the file, and whatever
\* earlier windows have left behind it.
THEOREM EqualUpToZero == ReadersSpec => []DuplicatesUpToZero
<1>1. WindowsCopied => DuplicatesUpToZero
  <2> SUFFICES ASSUME WindowsCopied, NEW i \in DOMAIN held, NEW j \in DOMAIN held
               PROVE  LET v == held[i].cut
                          w == held[j].cut
                      IN  /\ FirstZero(v) = 64 => (held[i].as = held[j].as <=> v = w)
                          /\ held[i].as = held[j].as =>
                               /\ FirstZero(v) = FirstZero(w)
                               /\ \A k \in Window : k < FirstZero(v) => v[k] = w[k]
    BY DEF DuplicatesUpToZero
  <2> DEFINE v == held[i].cut
             w == held[j].cut
             s == held[i].as
             t == held[j].as
  <2>1. /\ v = [k \in Window |-> v[k]] /\ w = [k \in Window |-> w[k]]
        /\ s = [k \in Window |-> s[k]] /\ t = [k \in Window |-> t[k]]
        /\ \A k \in Window : k <= FirstZero(v) => s[k] = v[k]
        /\ \A k \in Window : k <= FirstZero(w) => t[k] = w[k]
    BY DEF WindowsCopied, AsCut
  <2> HIDE DEF v, w, s, t
  <2>2. FirstZero(s) = FirstZero(v) /\ FirstZero(t) = FirstZero(w)
    BY <2>1, SameFirstZero
  <2>3. FirstZero(v) \in 0..64 /\ FirstZero(w) \in 0..64 /\ \A k \in Window : k \in 0..63
    BY FirstZeroType DEF Window
  <2>4. FirstZero(v) = 64 => s = v
    <3>1. FirstZero(v) = 64 => \A k \in Window : s[k] = v[k]
      BY <2>1, <2>3
    <3> QED
      BY <2>1, <3>1
  <2>5. FirstZero(w) = 64 => t = w
    <3>1. FirstZero(w) = 64 => \A k \in Window : t[k] = w[k]
      BY <2>1, <2>3
    <3> QED
      BY <2>1, <3>1
  <2>6. FirstZero(v) = 64 => (s = t <=> v = w)
    BY <2>2, <2>4, <2>5
  <2>7. s = t => FirstZero(v) = FirstZero(w)
    BY <2>2
  <2>8. s = t => \A k \in Window : k < FirstZero(v) => v[k] = w[k]
    BY <2>1, <2>3, <2>7
  <2> QED
    BY <2>6, <2>7, <2>8 DEF v, w, s, t
<1>2. NoThreadedInit => WindowsCopied
  BY DEF NoThreadedInit, ReaderInit, WindowsCopied, IsSequence
<1> QED
  BY <1>1, <1>2, CopiedStep, PTL DEF ReadersSpec

-----------------------------------------------------------------------------
(***************************************************************************)
(* What noThreaded.c counts.                                               *)
(***************************************************************************)

\* A payload of any length has a bucket.
BucketsExist ==
  \A p : (\E n \in Int : DOMAIN p = 0..(n - 1)) => BucketOf(p) \in 0..(NumBuckets - 1)

\* No two nodes of a chain hold the same payload.
ChainApart(chain) ==
  IsSequence(chain) /\ \A i, j \in DOMAIN chain : chain[i] = chain[j] => i = j

InChain(p, chain) == \E i \in DOMAIN chain : chain[i] = p

HitsIn(chain, p) == Cardinality({i \in {1, Stop(chain, p)} \cap DOMAIN chain : chain[i] = p})

\* The walk stops at the payload if it is behind the head.
LEMMA StopAt ==
  ASSUME NEW chain, ChainApart(chain), NEW p
  PROVE  /\ \A i \in 2..Len(chain) : chain[i] = p => Stop(chain, p) = i
         /\ (\A i \in 2..Len(chain) : chain[i] # p) => Stop(chain, p) = Len(chain)
<1> DEFINE matches == {i \in 2..Len(chain) : chain[i] = p}
<1>1. DOMAIN chain = 1..Len(chain) /\ Len(chain) \in Nat
  BY DEF ChainApart, IsSequence
<1>2. Stop(chain, p) = IF matches = {} THEN Len(chain)
                       ELSE CHOOSE i \in matches : \A j \in matches : i <= j
  BY DEF Stop
<1>3. ASSUME NEW i \in 2..Len(chain), chain[i] = p
      PROVE  Stop(chain, p) = i
  <2>1. matches = {i}
    <3>1. \A j \in matches : j = i
      BY <1>1, <1>3 DEF ChainApart
    <3>2. i \in matches
      BY <1>3
    <3> HIDE DEF matches
    <3> QED
      BY <3>1, <3>2
  <2>2. (CHOOSE j \in {i} : \A k \in {i} : j <= k) = i
    <3>1. i \in {i} /\ \A k \in {i} : i <= k
      BY <1>1
    <3> QED
      BY <3>1
  <2> HIDE DEF matches
  <2>3. matches # {}
    BY <2>1
  <2> QED
    BY <1>2, <2>1, <2>2, <2>3
<1>4. (\A i \in 2..Len(chain) : chain[i] # p) => matches = {}
  OBVIOUS
<1> HIDE DEF matches
<1> QED
  BY <1>2, <1>3, <1>4

\* A lookup counts one hit if the payload is in the chain, and none otherwise.
LEMMA HitsCount ==
  ASSUME NEW chain, ChainApart(chain), NEW p
  PROVE  HitsIn(chain, p) = IF InChain(p, chain) THEN 1 ELSE 0
<1> DEFINE stop == Stop(chain, p)
           hits == {i \in {1, stop} \cap DOMAIN chain : chain[i] = p}
<1>1. DOMAIN chain = 1..Len(chain) /\ Len(chain) \in Nat
  BY DEF ChainApart, IsSequence
<1>2. \A i, j \in DOMAIN chain : chain[i] = chain[j] => i = j
  BY DEF ChainApart
<1>3. HitsIn(chain, p) = Cardinality(hits)
  BY DEF HitsIn
<1>4. CASE ~InChain(p, chain)
  <2>1. hits = {}
    BY <1>4 DEF InChain
  <2> QED
    BY <1>3, <1>4, <2>1, FS_EmptySet
<1>5. CASE InChain(p, chain)
  <2>1. PICK i \in DOMAIN chain : chain[i] = p
    BY <1>5 DEF InChain
  <2>2. \A j \in DOMAIN chain : chain[j] = p => j = i
    BY <1>2, <2>1
  <2>3. i = 1 \/ i \in 2..Len(chain)
    BY <1>1, <2>1
  <2>4. i \in {1, stop}
    BY <2>1, <2>3, StopAt
  <2> HIDE DEF stop
  <2>5. hits = {i}
    BY <2>1, <2>2, <2>4
  <2>6. Cardinality({i}) = 1
    BY FS_Singleton
  <2> QED
    BY <1>3, <1>5, <2>5, <2>6
<1> QED
  BY <1>4, <1>5

\* The chain after a lookup.
Looked(chain, p) ==
  IF HitsIn(chain, p) = 0 THEN Append(chain, p)
                          ELSE SubSeq(chain, Stop(chain, p), Len(chain))

\* It holds nothing new but the payload, and nothing twice; a chain of that
\* payload alone keeps it.
LEMMA LookedChain ==
  ASSUME NEW chain, ChainApart(chain), NEW p
  PROVE  /\ ChainApart(Looked(chain, p))
         /\ \A q : InChain(q, Looked(chain, p)) => q = p \/ InChain(q, chain)
         /\ (\A i \in DOMAIN chain : chain[i] = p) => InChain(p, Looked(chain, p))
<1> DEFINE L == Len(chain)
           stop == Stop(chain, p)
<1>1. DOMAIN chain = 1..L /\ L \in Nat
  BY DEF ChainApart, IsSequence
<1>2. \A i, j \in DOMAIN chain : chain[i] = chain[j] => i = j
  BY DEF ChainApart
<1>3. HitsIn(chain, p) = IF InChain(p, chain) THEN 1 ELSE 0
  BY HitsCount
<1>4. CASE ~InChain(p, chain)
  <2> DEFINE new == Append(chain, p)
  <2>1. Looked(chain, p) = new
    BY <1>3, <1>4 DEF Looked
  <2>2. /\ IsSequence(new) /\ DOMAIN new = 1..(L + 1)
        /\ \A i \in 1..L : new[i] = chain[i]
        /\ new[L + 1] = p
    BY AppendSequence DEF ChainApart
  <2> HIDE DEF new
  <2>3. \A i \in DOMAIN new : i = L + 1 \/ i \in DOMAIN chain
    BY <1>1, <2>2
  <2>4. \A i, j \in DOMAIN new : new[i] = new[j] => i = j
    BY <1>1, <1>2, <1>4, <2>2, <2>3 DEF InChain
  <2>5. \A q : InChain(q, new) => q = p \/ InChain(q, chain)
    BY <1>1, <2>2, <2>3 DEF InChain
  <2>6. InChain(p, new)
    <3>1. L + 1 \in DOMAIN new
      BY <1>1, <2>2
    <3> QED
      BY <2>2, <3>1 DEF InChain
  <2> QED
    BY <2>1, <2>2, <2>4, <2>5, <2>6 DEF ChainApart
<1>5. CASE InChain(p, chain)
  <2> DEFINE new == SubSeq(chain, stop, L)
             S == {chain[i] : i \in DOMAIN chain}
  <2>1. Looked(chain, p) = new
    <3>1. HitsIn(chain, p) # 0
      BY <1>3, <1>5
    <3> QED
      BY <3>1, Zenon DEF Looked
  <2>2. PICK i \in DOMAIN chain : chain[i] = p
    BY <1>5 DEF InChain
  <2>3. stop \in 1..L
    <3>1. (\E j \in 2..L : chain[j] = p) \/ (\A j \in 2..L : chain[j] # p)
      OBVIOUS
    <3>2. CASE \E j \in 2..L : chain[j] = p
      <4>1. PICK j \in 2..L : chain[j] = p
        BY <3>2
      <4>2. stop = j
        BY <4>1, StopAt
      <4> QED
        BY <1>1, <4>2
    <3>3. CASE \A j \in 2..L : chain[j] # p
      <4>1. stop = L
        BY <3>3, StopAt
      <4>2. L >= 1
        BY <1>1, <2>2
      <4> QED
        BY <1>1, <4>1, <4>2
    <3> QED
      BY <3>1, <3>2, <3>3
  <2> HIDE DEF stop
  <2>4. /\ new \in Seq(S) /\ Len(new) = L - stop + 1
        /\ \A j \in 1..(L - stop + 1) : new[j] = chain[stop + j - 1]
    <3>1. \A j \in stop..L : chain[j] \in S
      BY <1>1, <2>3
    <3> HIDE DEF S
    <3>2. stop \in Int /\ L \in Int /\ stop <= L
      BY <1>1, <2>3
    <3> QED
      BY <3>1, <3>2, SubSeqProperties
  <2> HIDE DEF new, S
  <2>5. DOMAIN new = 1..(L - stop + 1) /\ IsSequence(new)
    BY <2>4 DEF IsSequence
  <2>6. \A j \in DOMAIN new : stop + j - 1 \in DOMAIN chain /\ new[j] = chain[stop + j - 1]
    BY <1>1, <2>3, <2>4, <2>5
  <2>7. \A j, k \in DOMAIN new : new[j] = new[k] => j = k
    <3> SUFFICES ASSUME NEW j \in DOMAIN new, NEW k \in DOMAIN new, new[j] = new[k]
                 PROVE  j = k
      OBVIOUS
    <3>1. stop + j - 1 = stop + k - 1
      BY <1>2, <2>6
    <3> QED
      BY <1>1, <2>3, <2>5, <3>1
  <2>8. \A q : InChain(q, new) => InChain(q, chain)
    BY <2>6 DEF InChain
  <2>9. (\A j \in DOMAIN chain : chain[j] = p) => InChain(p, new)
    <3>1. 1 \in DOMAIN new
      BY <1>1, <2>3, <2>5
    <3> QED
      BY <2>6, <3>1 DEF InChain
  <2> QED
    BY <2>1, <2>5, <2>7, <2>8, <2>9 DEF ChainApart
<1> QED
  BY <1>4, <1>5

\* The payloads that have been looked up before, by their places.
Repeated(list) == {i \in DOMAIN list : \E j \in 1..(i - 1) : list[j].bytes = list[i].bytes}

HasBytes(list, p) == \E k \in DOMAIN list : list[k].bytes = p

BytesApart(list) ==
  \A i, j \in DOMAIN list :
    BucketOf(list[i].bytes) = BucketOf(list[j].bytes) => list[i].bytes = list[j].bytes

\* One more payload looked up.
LEMMA RepeatedStep ==
  ASSUME NEW list, IsSequence(list), NEW e
  PROVE  /\ Cardinality(Repeated(list)) \in Nat
         /\ Cardinality(Repeated(Append(list, e))) =
              Cardinality(Repeated(list)) + (IF HasBytes(list, e.bytes) THEN 1 ELSE 0)
         /\ BytesApart(Append(list, e)) =>
              /\ BytesApart(list)
              /\ \A k \in DOMAIN list : BucketOf(list[k].bytes) = BucketOf(e.bytes) =>
                                          list[k].bytes = e.bytes
         /\ \A p : HasBytes(Append(list, e), p) <=> HasBytes(list, p) \/ e.bytes = p
<1> DEFINE L == Len(list)
           new == Append(list, e)
<1>1. /\ DOMAIN list = 1..L /\ L \in Nat
      /\ DOMAIN new = 1..(L + 1)
      /\ \A i \in 1..L : new[i] = list[i]
      /\ new[L + 1] = e
  BY AppendSequence
<1> HIDE DEF L, new
<1>2. /\ \A i \in DOMAIN list : i \in DOMAIN new /\ new[i] = list[i] /\ i # L + 1
      /\ L + 1 \in DOMAIN new
      /\ \A i \in DOMAIN new : i \in DOMAIN list \/ i = L + 1
  BY <1>1
<1>3. \A i \in DOMAIN list : i \in Repeated(new) <=> i \in Repeated(list)
  <2> SUFFICES ASSUME NEW i \in DOMAIN list
               PROVE  i \in Repeated(new) <=> i \in Repeated(list)
    OBVIOUS
  <2>1. \A j \in 1..(i - 1) : new[j] = list[j]
    BY <1>1
  <2> QED
    BY <1>2, <2>1 DEF Repeated
<1>4. L + 1 \in Repeated(new) <=> HasBytes(list, e.bytes)
  <2>1. 1..((L + 1) - 1) = DOMAIN list
    BY <1>1
  <2>2. L + 1 \in Repeated(new) <=> \E j \in 1..((L + 1) - 1) : new[j].bytes = new[L + 1].bytes
    BY <1>2 DEF Repeated
  <2> QED
    BY <1>1, <1>2, <2>1, <2>2 DEF HasBytes
<1>5. Repeated(list) \subseteq DOMAIN list /\ Repeated(new) \subseteq DOMAIN new
  BY DEF Repeated
<1>6. IsFiniteSet(Repeated(list)) /\ Cardinality(Repeated(list)) \in Nat
  <2>1. IsFiniteSet(1..L)
    BY <1>1, FS_Interval
  <2> QED
    BY <1>1, <1>5, <2>1, FS_Subset, FS_CardinalityType
<1>7. Cardinality(Repeated(new)) =
        Cardinality(Repeated(list)) + (IF HasBytes(list, e.bytes) THEN 1 ELSE 0)
  <2>1. CASE HasBytes(list, e.bytes)
    <3>1. Repeated(new) = Repeated(list) \cup {L + 1}
      BY <1>2, <1>3, <1>4, <1>5, <2>1
    <3>2. L + 1 \notin Repeated(list)
      BY <1>2, <1>5
    <3>3. Cardinality(Repeated(list) \cup {L + 1}) = Cardinality(Repeated(list)) + 1
      BY <1>6, <3>2, FS_AddElement
    <3> QED
      BY <2>1, <3>1, <3>3
  <2>2. CASE ~HasBytes(list, e.bytes)
    <3>1. Repeated(new) = Repeated(list)
      BY <1>2, <1>3, <1>4, <1>5, <2>2
    <3> QED
      BY <1>6, <2>2, <3>1
  <2> QED
    BY <2>1, <2>2
<1>8. BytesApart(new) =>
        /\ BytesApart(list)
        /\ \A k \in DOMAIN list : BucketOf(list[k].bytes) = BucketOf(e.bytes) =>
                                    list[k].bytes = e.bytes
  <2> SUFFICES ASSUME BytesApart(new)
               PROVE  /\ BytesApart(list)
                      /\ \A k \in DOMAIN list : BucketOf(list[k].bytes) = BucketOf(e.bytes) =>
                                                  list[k].bytes = e.bytes
    OBVIOUS
  <2>1. BytesApart(list)
    BY <1>2, Zenon DEF BytesApart
  <2>2. \A k \in DOMAIN list : BucketOf(new[k].bytes) = BucketOf(new[L + 1].bytes) =>
                                new[k].bytes = new[L + 1].bytes
    BY <1>2, Zenon DEF BytesApart
  <2>3. \A k \in DOMAIN list : BucketOf(list[k].bytes) = BucketOf(e.bytes) =>
                                list[k].bytes = e.bytes
    BY <1>1, <1>2, <2>2, Zenon
  <2> QED
    BY <2>1, <2>3
<1>9. \A p : HasBytes(new, p) <=> HasBytes(list, p) \/ e.bytes = p
  BY <1>1, <1>2 DEF HasBytes
<1> QED
  BY <1>6, <1>7, <1>8, <1>9 DEF new

\* The chains hold payloads that have been looked up, in their buckets.  No
\* hit is counted that is not a repetition, and every repetition is one
\* where no two payloads share a bucket.
TableInv ==
  /\ IsSequence(checked)
  /\ DOMAIN table = 0..(NumBuckets - 1)
  /\ \A b \in DOMAIN table :
       /\ ChainApart(table[b])
       /\ \A q : InChain(q, table[b]) => BucketOf(q) = b /\ HasBytes(checked, q)
  /\ \A q : HasBytes(checked, q) => BucketOf(q) \in DOMAIN table
  /\ cacheHits \in Nat
  /\ cacheHits <= Cardinality(Repeated(checked))
  /\ BytesApart(checked) =>
       /\ cacheHits = Cardinality(Repeated(checked))
       /\ \A q : HasBytes(checked, q) => InChain(q, table[BucketOf(q)])

LEMMA TableInvInit == NoThreadedInit => TableInv
<1> SUFFICES ASSUME NoThreadedInit PROVE TableInv
  OBVIOUS
<1>1. /\ checked = <<>> /\ cacheHits = 0
      /\ table = [b \in 0..(NumBuckets - 1) |-> <<>>]
  BY DEF NoThreadedInit
<1>2. IsSequence(<<>>) /\ DOMAIN <<>> = {}
  BY DEF IsSequence
<1>3. ChainApart(<<>>) /\ \A q : ~InChain(q, <<>>) /\ ~HasBytes(<<>>, q)
  BY <1>2 DEF ChainApart, InChain, HasBytes
<1>4. Cardinality(Repeated(<<>>)) = 0
  <2>1. Repeated(<<>>) = {}
    BY DEF Repeated
  <2> QED
    BY <2>1, FS_EmptySet
<1>5. \A b \in DOMAIN table : table[b] = <<>>
  BY <1>1
<1> QED
  BY <1>1, <1>2, <1>3, <1>4, <1>5 DEF TableInv

\* A lookup.
LEMMA TableLookup ==
  ASSUME TableInv, NEW e, NEW bytes, BucketOf(e.bytes) \in 0..(NumBuckets - 1),
         checkPacketsForDuplicates(e.bytes, bytes), checked' = Append(checked, e)
  PROVE  TableInv'
<1> DEFINE p == e.bytes
           b == BucketOf(p)
           chain == table[b]
           hits == HitsIn(chain, p)
           before == Cardinality(Repeated(checked))
<1>1. b \in DOMAIN table
  BY DEF TableInv
<1>2. /\ table' = [table EXCEPT ![b] = Looked(chain, p)]
      /\ cacheHits' = cacheHits + hits
  BY DEF checkPacketsForDuplicates, Looked, HitsIn
<1>3. /\ ChainApart(chain)
      /\ \A q : InChain(q, chain) => BucketOf(q) = b /\ HasBytes(checked, q)
  BY <1>1 DEF TableInv
<1>4. hits = IF InChain(p, chain) THEN 1 ELSE 0
  BY <1>3, HitsCount
<1>5. /\ ChainApart(Looked(chain, p))
      /\ \A q : InChain(q, Looked(chain, p)) => q = p \/ InChain(q, chain)
      /\ (\A i \in DOMAIN chain : chain[i] = p) => InChain(p, Looked(chain, p))
  BY <1>3, LookedChain
<1> DEFINE now == Looked(chain, p)
<1> HIDE DEF chain, hits, b, now
<1>6. /\ DOMAIN table' = DOMAIN table
      /\ table'[b] = now
      /\ \A c \in DOMAIN table : c # b => table'[c] = table[c]
  BY <1>1, <1>2 DEF now
<1>7. /\ IsSequence(checked) /\ before \in Nat
      /\ Cardinality(Repeated(checked')) = before + (IF HasBytes(checked, p) THEN 1 ELSE 0)
      /\ BytesApart(checked') =>
           /\ BytesApart(checked)
           /\ \A k \in DOMAIN checked : BucketOf(checked[k].bytes) = BucketOf(p) =>
                                          checked[k].bytes = p
      /\ \A q : HasBytes(checked', q) <=> HasBytes(checked, q) \/ p = q
  <2>1. IsSequence(checked)
    BY DEF TableInv
  <2> QED
    BY <2>1, RepeatedStep
<1>8. IsSequence(checked')
  BY <1>7, AppendSequence
<1> HIDE DEF p, before
<1>9. \A c \in DOMAIN table' :
        /\ ChainApart(table'[c])
        /\ \A q : InChain(q, table'[c]) => BucketOf(q) = c /\ HasBytes(checked', q)
  <2> SUFFICES ASSUME NEW c \in DOMAIN table'
               PROVE  /\ ChainApart(table'[c])
                      /\ \A q : InChain(q, table'[c]) =>
                                   BucketOf(q) = c /\ HasBytes(checked', q)
    OBVIOUS
  <2>1. CASE c = b
    <3>1. ChainApart(now)
      BY <1>5 DEF now
    <3>2. \A q : InChain(q, now) => q = p \/ InChain(q, chain)
      BY <1>5 DEF now
    <3>3. BucketOf(p) = b
      BY DEF b
    <3> QED
      BY <1>3, <1>6, <1>7, <2>1, <3>1, <3>2, <3>3
  <2>2. CASE c # b
    <3>1. c \in DOMAIN table /\ table'[c] = table[c]
      BY <1>6, <2>2
    <3>2. /\ ChainApart(table[c])
          /\ \A q : InChain(q, table[c]) => BucketOf(q) = c /\ HasBytes(checked, q)
      BY <3>1 DEF TableInv
    <3> QED
      BY <1>7, <3>1, <3>2
  <2> QED
    BY <2>1, <2>2
<1>10. InChain(p, chain) => HasBytes(checked, p)
  BY <1>3
<1>11. cacheHits' \in Nat /\ cacheHits' <= Cardinality(Repeated(checked'))
  <2>1. cacheHits \in Nat /\ cacheHits <= before
    BY DEF TableInv, before
  <2> QED
    BY <1>2, <1>4, <1>7, <1>10, <2>1
<1>12. ASSUME BytesApart(checked')
       PROVE  /\ cacheHits' = Cardinality(Repeated(checked'))
              /\ \A q : HasBytes(checked', q) => InChain(q, table'[BucketOf(q)])
  <2>1. /\ cacheHits = before
        /\ \A q : HasBytes(checked, q) => InChain(q, table[BucketOf(q)])
    BY <1>7, <1>12 DEF TableInv, before
  <2>2. HasBytes(checked, p) => InChain(p, chain)
    BY <2>1 DEF chain, b
  <2>3. cacheHits' = Cardinality(Repeated(checked'))
    <3>1. cacheHits \in Nat
      BY DEF TableInv
    <3> QED
      BY <1>2, <1>4, <1>7, <1>10, <2>1, <2>2, <3>1
  <2>4. \A q : HasBytes(checked, q) /\ BucketOf(q) = b => q = p
    BY <1>7, <1>12 DEF HasBytes, b
  <2>5. \A i \in DOMAIN chain : chain[i] = p
    <3>1. \A i \in DOMAIN chain : InChain(chain[i], chain)
      BY DEF InChain
    <3> QED
      BY <1>3, <2>4, <3>1
  <2>6. InChain(p, now)
    BY <1>5, <2>5 DEF now
  <2>7. ASSUME NEW q, HasBytes(checked', q)
        PROVE  InChain(q, table'[BucketOf(q)])
    <3>1. CASE q = p
      BY <1>6, <2>6, <3>1 DEF b
    <3>2. CASE q # p
      <4>1. HasBytes(checked, q)
        BY <1>7, <2>7, <3>2
      <4>2. BucketOf(q) # b /\ InChain(q, table[BucketOf(q)])
        BY <2>1, <2>4, <3>2, <4>1
      <4>3. BucketOf(q) \in DOMAIN table
        BY <4>1 DEF TableInv
      <4> QED
        BY <1>6, <4>2, <4>3
    <3> QED
      BY <3>1, <3>2
  <2> QED
    BY <2>3, <2>7
<1>13. DOMAIN table' = 0..(NumBuckets - 1)
  BY <1>6 DEF TableInv
<1>14. \A q : HasBytes(checked', q) => BucketOf(q) \in DOMAIN table'
  <2>1. \A q : HasBytes(checked, q) => BucketOf(q) \in DOMAIN table
    BY DEF TableInv
  <2> QED
    BY <1>1, <1>6, <1>7, <2>1 DEF b
<1> QED
  BY <1>8, <1>9, <1>11, <1>12, <1>13, <1>14 DEF TableInv

\* The stream and the buffers.
RoomFor(c) ==
  \A r \in DOMAIN c.records : c.records[r].orig <= 2400 => c.records[r].orig - 52 <= HolderSize

StreamInv ==
  /\ pos \in Int /\ nPacketLength \in Int
  /\ IsSequence(payloads)
  /\ DOMAIN byData = 0..(HolderSize - 1)
  /\ RoomFor(cap)

\* Seeks and reads end at numbers.
LEMMA SoughtType ==
  ASSUME NEW c, IsCapture(c), NEW p \in Int, NEW n \in Int
  PROVE  Sought(c, p, n) \in Int /\ BytesRead(c, p, n) \in Int
<1>1. Len(c.records) + 1 \in 1..(Len(c.records) + 1) /\ c.cut \in Nat
  BY DEF IsCapture
<1>2. HeaderAt(c)[Len(c.records) + 1] \in Nat
  BY <1>1, HeadersApart
<1>3. Size(c) \in Int
  BY <1>1, <1>2 DEF Size
<1>4. Sought(c, p, n) \in Int
  BY <1>3 DEF Sought
<1> QED
  BY <1>4 DEF BytesRead

LEMMA WordType ==
  ASSUME NEW c, IsCapture(c), NEW at
  PROVE  WordAt(c, at) \subseteq Int
<1>1. \A r \in DOMAIN c.records : c.records[r].incl \in Int /\ c.records[r].orig \in Int
  BY DEF IsCapture
<1> QED
  BY <1>1, HolderAssumption DEF WordAt

\* What is read of a record.
LEMMA StreamRead ==
  ASSUME Control, StreamInv, NEW at \in Int, NEW n \in Int, Skip(at, n) \/ Payload(at, n)
  PROVE  /\ pos' \in Int
         /\ IsSequence(payloads')
         /\ DOMAIN byData' = 0..(HolderSize - 1)
<1>1. IsCapture(cap)
  BY DEF Control
<1>2. CASE Skip(at, n)
  <2>1. pos' = Sought(cap, at, n) /\ UNCHANGED <<byData, payloads>>
    BY <1>2 DEF Skip
  <2> QED
    BY <1>1, <2>1, SoughtType DEF StreamInv
<1>3. CASE Payload(at, n)
  <2> DEFINE from == Sought(cap, at, 52)
             bytes == BytesRead(cap, from, n - 52)
  <2>1. from \in Int
    BY <1>1, SoughtType
  <2>2. bytes \in Int
    <3>1. n - 52 \in Int
      OBVIOUS
    <3> HIDE DEF from
    <3> QED
      BY <1>1, <2>1, <3>1, SoughtType
  <2>3. /\ pos' = from + bytes
        /\ DOMAIN byData' = DOMAIN byData
        /\ payloads' = Append(payloads, [from |-> from, bytes |-> bytes])
    BY <1>3 DEF Payload
  <2> HIDE DEF from, bytes
  <2>4. IsSequence(payloads')
    BY <2>3, AppendSequence DEF StreamInv
  <2> QED
    BY <2>1, <2>2, <2>3, <2>4 DEF StreamInv
<1> QED
  BY <1>2, <1>3

\* What noThreaded.c takes for a length is a number.
LEMMA LengthsType ==
  ASSUME Control, StreamInv, NEW at \in Int
  PROVE  LengthsRead(at) \subseteq Int
<1>1. WordAt(cap, at) \subseteq Int /\ {nPacketLength} \subseteq Int /\ OtherWords \subseteq Int
  BY WordType, HolderAssumption DEF Control, StreamInv
<1>2. LengthsRead(at) \in {WordAt(cap, at), {nPacketLength}, OtherWords}
  <2>1. IsCapture(cap)
    BY DEF Control
  <2>2. BytesRead(cap, at, 4) \in Int
    BY <2>1, SoughtType
  <2> QED
    BY <2>2 DEF LengthsRead
<1> QED
  BY <1>1, <1>2

LEMMA StreamInvInit == NoThreadedInit => StreamInv
<1> SUFFICES ASSUME NoThreadedInit PROVE StreamInv
  OBVIOUS
<1>1. /\ pos = 0 /\ nPacketLength = 0 /\ payloads = <<>>
      /\ byData = Stack(HolderSize)
      /\ cap = [records |-> <<>>, cut |-> 0]
  BY DEF NoThreadedInit, ReaderInit
<1>2. IsSequence(<<>>)
  BY DEF IsSequence
<1>3. DOMAIN Stack(HolderSize) = 0..(HolderSize - 1)
  BY DEF Stack
<1>4. RoomFor(cap)
  BY <1>1 DEF RoomFor
<1> QED
  BY <1>1, <1>2, <1>3, <1>4 DEF StreamInv

LEMMA StreamInvStep == Control /\ StreamInv /\ [NoThreadedNext]_allVars => StreamInv'
<1> SUFFICES ASSUME Control, StreamInv, [NoThreadedNext]_allVars PROVE StreamInv'
  OBVIOUS
<1> DEFINE at == Sought(cap, pos, 8)
           body == Sought(cap, at, 8)
<1>1. IsCapture(cap) /\ pos \in Int /\ at \in Int
  <2>1. IsCapture(cap) /\ pos \in Int
    BY DEF Control, StreamInv
  <2> QED
    BY <2>1, SoughtType
<1>2. body \in Int
  <2> HIDE DEF at
  <2> QED
    BY <1>1, SoughtType
<1>3. CASE NextOption \/ Start \/ OpenFails \/ LoopEnds \/ PushWindow \/ UNCHANGED allVars
  <2>1. UNCHANGED <<cap, pos, nPacketLength, byData, payloads>>
    BY <1>3 DEF NextOption, Start, OpenFails, LoopEnds, PushWindow, stream, allVars, readerVars
  <2> QED
    BY <2>1 DEF StreamInv, RoomFor
<1>4. CASE Open
  <2> DEFINE word == filenames[files + 1]
  <2>1. /\ cap' = word[2] /\ pos' = SkipHeader(cap') /\ nPacketLength' \in OtherWords
        /\ byData' = Stack(HolderSize) /\ payloads' = <<>>
        /\ files < Len(filenames) /\ Kind(word) = "file"
    BY <1>4 DEF Open, MayOpen
  <2>2. IsCapture(word[2])
    BY <2>1, OpenedIsCapture
  <2>3. word \in GivenWords
    <3>1. filenames \in Seq(GivenWords)
      BY FilenamesGiven DEF Control, filenames
    <3> QED
      BY <2>1, <3>1 DEF Control
  <2> HIDE DEF word
  <2>4. RoomFor(word[2])
    BY <2>1, <2>3, HolderAssumption DEF RoomFor
  <2>5. pos' \in Int
    BY <2>1, <2>2, SoughtType DEF SkipHeader
  <2>6. IsSequence(<<>>) /\ DOMAIN Stack(HolderSize) = 0..(HolderSize - 1)
    BY DEF IsSequence, Stack
  <2>7. nPacketLength' \in Int
    BY <2>1, HolderAssumption
  <2> QED
    BY <2>1, <2>4, <2>5, <2>6, <2>7 DEF StreamInv, RoomFor
<1>5. CASE Turn
  <2>1. cap' = cap
    BY <1>5 DEF Turn
  <2>2. CASE BytesRead(cap, at, 4) < 4
    <3>1. pos' = Size(cap) /\ UNCHANGED <<nPacketLength, byData, payloads>>
      BY <1>5, <2>2 DEF Turn
    <3>2. Size(cap) \in Int
      <4>1. Len(cap.records) + 1 \in 1..(Len(cap.records) + 1) /\ cap.cut \in Nat
        BY <1>1 DEF IsCapture
      <4>2. HeaderAt(cap)[Len(cap.records) + 1] \in Nat
        BY <1>1, <4>1, HeadersApart
      <4> QED
        BY <4>1, <4>2 DEF Size
    <3> QED
      BY <2>1, <3>1, <3>2 DEF StreamInv, RoomFor
  <2>3. CASE ~(BytesRead(cap, at, 4) < 4)
    <3>1. PICK n \in WordAt(cap, at) : nPacketLength' = n /\ (Skip(body, n) \/ Payload(body, n))
      BY <1>5, <2>3 DEF Turn
    <3>2. n \in Int
      BY <1>1, WordType
    <3> HIDE DEF body
    <3> QED
      BY <1>2, <2>1, <3>1, <3>2, StreamRead DEF StreamInv, RoomFor
  <2> QED
    BY <2>2, <2>3
<1>6. CASE DumpTurn
  <2>1. cap' = cap
    BY <1>6 DEF DumpTurn
  <2>2. PICK n \in LengthsRead(at) : nPacketLength' = n /\ (Skip(body, n) \/ Payload(body, n))
    BY <1>6 DEF DumpTurn
  <2>3. n \in Int
    BY <1>1, LengthsType
  <2> HIDE DEF body
  <2> QED
    BY <1>2, <2>1, <2>2, <2>3, StreamRead DEF StreamInv, RoomFor
<1> QED
  BY <1>3, <1>4, <1>5, <1>6 DEF NoThreadedNext, ReadStep, AllRead

\* A payload looked up: it has been read from `from', and is in byData.
LookedUp(from, bytes) ==
  LET p == [i \in 0..(bytes - 1) |-> byData'[i]]
  IN  /\ checkPacketsForDuplicates(p, bytes)
      /\ checked' = Append(checked, [cap |-> cap, from |-> from, bytes |-> p])

\* A turn of noThreaded.c looks up what it reads.
LEMMA DumpLooksUp ==
  ASSUME Control, StreamInv, DumpTurn
  PROVE  \/ UNCHANGED checkVars
         \/ \E from, bytes \in Int :
              /\ LookedUp(from, bytes)
              /\ Len(payloads') \in DOMAIN payloads'
              /\ payloads'[Len(payloads')] = [from |-> from, bytes |-> bytes]
              /\ \A i \in DOMAIN byData : i < bytes => byData'[i] = ByteAt(cap, from + i)
<1> DEFINE at == Sought(cap, pos, 8)
           body == Sought(cap, at, 8)
<1>1. IsCapture(cap) /\ pos \in Int
  BY DEF Control, StreamInv
<1>2. at \in Int
  BY <1>1, SoughtType
<1>3. body \in Int
  <2> HIDE DEF at
  <2> QED
    BY <1>1, <1>2, SoughtType
<1>4. PICK n \in LengthsRead(at) :
        \/ UNCHANGED checkVars
        \/ /\ Payload(body, n)
           /\ LET read  == payloads'[Len(payloads')]
                  bytes == [i \in 0..(read.bytes - 1) |-> byData'[i]]
              IN  /\ checkPacketsForDuplicates(bytes, read.bytes)
                  /\ checked' = Append(checked, [cap |-> cap, from |-> read.from,
                                                 bytes |-> bytes])
  BY DEF DumpTurn
<1>5. n \in Int
  BY <1>2, LengthsType
<1> DEFINE from == Sought(cap, body, 52)
           read == BytesRead(cap, from, n - 52)
<1>6. from \in Int
  <2> HIDE DEF body
  <2> QED
    BY <1>1, <1>3, SoughtType
<1>7. read \in Int
  <2> HIDE DEF from
  <2>1. n - 52 \in Int
    BY <1>5
  <2> QED
    BY <1>1, <1>6, <2>1, SoughtType
<1>8. CASE UNCHANGED checkVars
  BY <1>8
<1>9. CASE ~UNCHANGED checkVars
  <2>1. Payload(body, n)
    BY <1>4, <1>9
  <2>2. /\ payloads' = Append(payloads, [from |-> from, bytes |-> read])
        /\ byData' = [i \in DOMAIN byData |-> IF i < read THEN ByteAt(cap, from + i) ELSE byData[i]]
    BY <2>1 DEF Payload
  <2> HIDE DEF from, read, body
  <2>3. /\ Len(payloads') \in DOMAIN payloads'
        /\ payloads'[Len(payloads')] = [from |-> from, bytes |-> read]
    <3>1. IsSequence(payloads)
      BY DEF StreamInv
    <3>2. /\ IsSequence(payloads') /\ Len(payloads) \in Nat
          /\ DOMAIN payloads' = 1..(Len(payloads) + 1)
          /\ payloads'[Len(payloads) + 1] = [from |-> from, bytes |-> read]
      BY <2>2, <3>1, AppendSequence
    <3>3. Len(payloads') = Len(payloads) + 1
      BY <3>2 DEF IsSequence
    <3> QED
      BY <3>2, <3>3
  <2>4. LookedUp(from, read)
    <3>1. /\ payloads'[Len(payloads')].from = from
          /\ payloads'[Len(payloads')].bytes = read
      BY <2>3
    <3> QED
      BY <1>4, <1>9, <3>1 DEF LookedUp
  <2>5. \A i \in DOMAIN byData : i < read => byData'[i] = ByteAt(cap, from + i)
    BY <2>2
  <2> QED
    BY <1>6, <1>7, <2>3, <2>4, <2>5
<1> QED
  BY <1>8, <1>9

LEMMA TableInvStep ==
  ASSUME BucketsExist, Control, StreamInv, TableInv, [NoThreadedNext]_allVars
  PROVE  TableInv'
<1>1. CASE UNCHANGED checkVars
  <2>1. UNCHANGED <<checked, table, cacheHits>>
    BY <1>1 DEF checkVars, resultVars
  <2> QED
    BY <2>1 DEF TableInv
<1>2. CASE DumpTurn /\ ~UNCHANGED checkVars
  <2>1. PICK from \in Int, bytes \in Int : LookedUp(from, bytes)
    BY <1>2, DumpLooksUp
  <2> DEFINE p == [i \in 0..(bytes - 1) |-> byData'[i]]
             e == [cap |-> cap, from |-> from, bytes |-> p]
  <2>2. checkPacketsForDuplicates(p, bytes) /\ checked' = Append(checked, e)
    BY <2>1 DEF LookedUp
  <2>3. BucketOf(p) \in 0..(NumBuckets - 1)
    <3>1. DOMAIN p = 0..(bytes - 1)
      OBVIOUS
    <3> HIDE DEF p
    <3> QED
      BY <3>1 DEF BucketsExist
  <2>4. e.bytes = p
    OBVIOUS
  <2> HIDE DEF p, e
  <2> QED
    BY <2>2, <2>3, <2>4, TableLookup
<1> QED
  BY <1>1, <1>2 DEF NoThreadedNext, ReadStep, AllRead, allVars

\* What has been looked up of a whole capture are payloads of its records.
FromRecord(c) ==
  Whole(c.cap) /\ c.cap.records # << >> =>
    \E r \in DOMAIN c.cap.records :
      /\ InRange(c.cap.records[r].orig)
      /\ c.from = HeaderAt(c.cap)[r] + 16 + 56
      /\ c.bytes = [k \in 0..(BytesRead(c.cap, c.from, c.cap.records[r].orig - 52) - 1) |->
                      ByteAt(c.cap, c.from + k)]

CheckedInv == \A i \in DOMAIN checked : IsCapture(checked[i].cap) /\ FromRecord(checked[i])

\* A payload in range and its end.
LEMMA PayloadLength ==
  ASSUME NEW c, IsCapture(c), Whole(c), NEW r \in DOMAIN c.records, InRange(c.records[r].orig)
  PROVE  LET h == HeaderAt(c)[r]
             n == c.records[r].orig
         IN  /\ h \in Nat /\ n \in Nat
             /\ BytesRead(c, h + 72, n - 52) = IF r = Len(c.records) THEN n - 56 ELSE n - 52
<1>1. Len(c.records) \in Nat /\ DOMAIN c.records = 1..Len(c.records)
  BY DEF IsCapture
<1>2. PICK k \in 0..(Len(c.records) - 1) : r = k + 1
  <2>1. r - 1 \in 0..(Len(c.records) - 1) /\ r = (r - 1) + 1
    BY <1>1
  <2> QED
    BY <2>1
<1> QED
  BY <1>2, RecordTurn

LEMMA CheckedInvStep ==
  Control /\ InStep /\ StreamInv /\ TableInv /\ CheckedInv /\ [NoThreadedNext]_allVars
    => CheckedInv'
<1> SUFFICES ASSUME Control, InStep, StreamInv, TableInv, CheckedInv, [NoThreadedNext]_allVars
             PROVE  CheckedInv'
  OBVIOUS
<1>1. CASE UNCHANGED checkVars
  <2>1. checked' = checked
    BY <1>1 DEF checkVars
  <2> QED
    BY <2>1 DEF CheckedInv
<1>2. CASE DumpTurn /\ ~UNCHANGED checkVars
  <2>1. PICK from \in Int, bytes \in Int :
          /\ LookedUp(from, bytes)
          /\ Len(payloads') \in DOMAIN payloads'
          /\ payloads'[Len(payloads')] = [from |-> from, bytes |-> bytes]
          /\ \A i \in DOMAIN byData : i < bytes => byData'[i] = ByteAt(cap, from + i)
    BY <1>2, DumpLooksUp
  <2> DEFINE p == [i \in 0..(bytes - 1) |-> byData'[i]]
             e == [cap |-> cap, from |-> from, bytes |-> p]
  <2>2. checked' = Append(checked, e)
    BY <2>1 DEF LookedUp
  <2>3. e.cap = cap /\ e.from = from /\ e.bytes = p
    OBVIOUS
  <2>4. IsCapture(cap)
    BY DEF Control
  <2>5. FromRecord(e)
    <3> SUFFICES ASSUME Whole(cap), cap.records # << >>
                 PROVE  \E r \in DOMAIN cap.records :
                          /\ InRange(cap.records[r].orig)
                          /\ from = HeaderAt(cap)[r] + 16 + 56
                          /\ p = [k \in 0..(BytesRead(cap, from, cap.records[r].orig - 52) - 1) |->
                                    ByteAt(cap, from + k)]
      BY <2>3, Zenon DEF FromRecord
    <3>1. UNCHANGED <<cap, program>>
      BY <1>2 DEF DumpTurn, commandVars
    <3>2. InStep'
      BY <1>2, InStepDump
    <3>3. /\ InRangeRecords' = InRangeRecords
          /\ \A r : PayloadOf(r)' = PayloadOf(r)
      BY <3>1, SameRecords
    <3>4. (Whole(cap) /\ LengthGiven)'
      BY <3>1 DEF LengthGiven
    <3>5. PICK r \in InRangeRecords : payloads'[Len(payloads')] = PayloadOf(r)
      BY <2>1, <3>2, <3>3, <3>4 DEF InStep
    <3> DEFINE n == cap.records[r].orig
    <3>6. r \in DOMAIN cap.records /\ InRange(n)
      BY DEF InRangeRecords
    <3>7. from = HeaderAt(cap)[r] + 16 + 56 /\ bytes = BytesRead(cap, from, n - 52)
      BY <2>1, <3>5 DEF PayloadOf
    <3>8. bytes <= HolderSize
      <4>1. /\ HeaderAt(cap)[r] \in Nat /\ n \in Nat
            /\ BytesRead(cap, HeaderAt(cap)[r] + 72, n - 52)
                 = IF r = Len(cap.records) THEN n - 56 ELSE n - 52
        BY <2>4, <3>6, PayloadLength
      <4>2. n <= 2400 => n - 52 <= HolderSize
        BY <3>6 DEF StreamInv, RoomFor
      <4>3. n <= 2400
        BY <3>6 DEF InRange
      <4> HIDE DEF n
      <4>4. from = HeaderAt(cap)[r] + 72
        BY <3>7, <4>1
      <4>5. bytes = n - 56 \/ bytes = n - 52
        BY <3>7, <4>1, <4>4
      <4> QED
        BY <4>1, <4>2, <4>3, <4>5, HolderAssumption
    <3>9. \A k \in 0..(bytes - 1) : byData'[k] = ByteAt(cap, from + k)
      <4>1. DOMAIN byData = 0..(HolderSize - 1)
        BY DEF StreamInv
      <4>2. \A k \in 0..(bytes - 1) : k \in 0..(HolderSize - 1) /\ k < bytes
        BY <3>8, HolderAssumption
      <4> QED
        BY <2>1, <4>1, <4>2
    <3>10. p = [k \in 0..(bytes - 1) |-> ByteAt(cap, from + k)]
      BY <3>9
    <3> HIDE DEF p
    <3> QED
      BY <3>6, <3>7, <3>10
  <2> HIDE DEF e, p
  <2>6. /\ DOMAIN checked = 1..Len(checked) /\ Len(checked) \in Nat
        /\ DOMAIN checked' = 1..(Len(checked) + 1)
        /\ \A i \in 1..Len(checked) : checked'[i] = checked[i]
        /\ checked'[Len(checked) + 1] = e
    <3>1. IsSequence(checked)
      BY DEF TableInv
    <3> QED
      BY <2>2, <3>1, AppendSequence
  <2>7. \A i \in DOMAIN checked' : i \in DOMAIN checked \/ i = Len(checked) + 1
    BY <2>6
  <2>8. \A i \in DOMAIN checked : IsCapture(checked[i].cap) /\ FromRecord(checked[i])
    BY DEF CheckedInv
  <2>9. \A i \in DOMAIN checked' : IsCapture(checked'[i].cap) /\ FromRecord(checked'[i])
    BY <2>3, <2>4, <2>5, <2>6, <2>7, <2>8
  <2> QED
    BY <2>9 DEF CheckedInv
<1> QED
  BY <1>1, <1>2 DEF NoThreadedNext, ReadStep, AllRead, allVars

\* Where a byte is found.
LEMMA AtRecord ==
  ASSUME NEW c, IsCapture(c), NEW r \in DOMAIN c.records, NEW o \in Int,
         HeaderAt(c)[r] <= o, o < HeaderAt(c)[r + 1]
  PROVE  RecordAt(c, o) = r
<1> DEFINE L == Len(c.records)
           at == HeaderAt(c)
<1>1. L \in Nat /\ DOMAIN c.records = 1..L
  BY DEF IsCapture
<1>2. /\ \A s \in 1..(L + 1) : at[s] \in Nat
      /\ \A s, t \in 1..(L + 1) : s < t => at[s] + 16 <= at[t]
  BY HeadersApart
<1> HIDE DEF at, L
<1>3. ASSUME NEW s \in 1..L, at[s] <= o, o < at[s + 1], at[r] <= o, o < at[r + 1]
      PROVE  s = r
  <2>1. s \in 1..(L + 1) /\ s + 1 \in 1..(L + 1) /\ r \in 1..(L + 1) /\ r + 1 \in 1..(L + 1)
    BY <1>1
  <2>2. at[s] \in Nat /\ at[s + 1] \in Nat /\ at[r] \in Nat /\ at[r + 1] \in Nat
    BY <1>2, <2>1
  <2>3. ~(s < r)
    <3> SUFFICES ASSUME s < r PROVE FALSE
      OBVIOUS
    <3>1. s + 1 = r \/ s + 1 < r
      BY <1>1
    <3>2. at[s + 1] <= at[r]
      BY <1>2, <2>1, <2>2, <3>1
    <3> QED
      BY <1>3, <2>2, <3>2
  <2>4. ~(r < s)
    <3> SUFFICES ASSUME r < s PROVE FALSE
      OBVIOUS
    <3>1. r + 1 = s \/ r + 1 < s
      BY <1>1
    <3>2. at[r + 1] <= at[s]
      BY <1>2, <2>1, <2>2, <3>1
    <3> QED
      BY <1>3, <2>2, <3>2
  <2> QED
    BY <1>1, <2>3, <2>4
<1>4. at[r] <= o /\ o < at[r + 1] /\ r \in 1..L
  BY <1>1 DEF at
<1>5. RecordAt(c, o) = CHOOSE s \in 1..L : at[s] <= o /\ o < at[s + 1]
  BY <1>1 DEF RecordAt, at
<1> QED
  BY <1>3, <1>4, <1>5

\* A byte as it is read.
Zeroed(byte) == IF byte \in ZeroBytes THEN NUL ELSE byte

\* The bytes read of a packet of n bytes: without the first 56, and with the
\* first word behind it, if there is one.
View(data, n, seconds) ==
  [k \in 0..((IF seconds = {} THEN n - 56 ELSE n - 52) - 1) |->
     IF k < n - 56 THEN Zeroed(<<"data", data, k + 56>>)
                   ELSE Zeroed(<<"ts_sec", CHOOSE t \in seconds : TRUE, k - (n - 56)>>)]

SecondsBehind(c, r) == {c.records[s].ts : s \in {r + 1} \cap DOMAIN c.records}

\* What is looked up of a record is this view of it.
LEMMA BytesViewed ==
  ASSUME NEW c, IsCapture(c), Whole(c), NEW r \in DOMAIN c.records, InRange(c.records[r].orig),
         NEW from, from = HeaderAt(c)[r] + 16 + 56
  PROVE  /\ RecordAt(c, from) = r
         /\ [k \in 0..(BytesRead(c, from, c.records[r].orig - 52) - 1) |-> ByteAt(c, from + k)]
              = View(c.records[r].data, c.records[r].orig, SecondsBehind(c, r))
         /\ r = Len(c.records) => SecondsBehind(c, r) = {}
         /\ r # Len(c.records) => /\ r + 1 \in DOMAIN c.records
                                  /\ SecondsBehind(c, r) = {c.records[r + 1].ts}
<1> DEFINE L == Len(c.records)
           n == c.records[r].orig
           h == HeaderAt(c)[r]
           d == c.records[r].data
           T == SecondsBehind(c, r)
           N == BytesRead(c, from, n - 52)
<1>1. L \in Nat /\ DOMAIN c.records = 1..L
  BY DEF IsCapture
<1>2. /\ h \in Nat /\ n \in Nat
      /\ BytesRead(c, h + 72, n - 52) = IF r = L THEN n - 56 ELSE n - 52
  BY PayloadLength
<1>3. 128 <= n
  BY DEF InRange
<1>4. HeaderAt(c)[r + 1] = h + 16 + n
  <2>1. c.records[r].incl = n
    BY DEF Whole
  <2> QED
    BY <1>1, <2>1, Headers
<1>5. r = L => T = {}
  BY <1>1 DEF SecondsBehind
<1>6. r # L => r + 1 \in DOMAIN c.records /\ T = {c.records[r + 1].ts}
  <2> SUFFICES ASSUME r # L PROVE r + 1 \in DOMAIN c.records /\ T = {c.records[r + 1].ts}
    OBVIOUS
  <2>1. r + 1 \in DOMAIN c.records
    BY <1>1
  <2>2. {r + 1} \cap DOMAIN c.records = {r + 1}
    BY <2>1
  <2> QED
    BY <2>1, <2>2 DEF SecondsBehind
<1>7. N = IF T = {} THEN n - 56 ELSE n - 52
  <2>1. from = h + 72
    BY <1>2
  <2>2. r # L => T # {}
    BY <1>6
  <2> HIDE DEF h, n, T, L
  <2> QED
    BY <1>2, <1>5, <2>1, <2>2
<1> HIDE DEF h, n, T, N, d
<1>8. ASSUME NEW k \in 0..(n - 57)
      PROVE  ByteAt(c, from + k) = Zeroed(<<"data", d, k + 56>>)
  <2> DEFINE o == from + k
  <2>1. o \in Int /\ h <= o /\ o < h + 16 + n /\ ~(o - h < 16) /\ ~(o - h < 4) /\ (o - h) - 16 = k + 56
    BY <1>2, <1>3 DEF h
  <2> HIDE DEF o
  <2>2. RecordAt(c, o) = r
    BY <1>4, <2>1, AtRecord DEF h
  <2>3. ByteAt(c, o) = Zeroed(<<"data", d, (o - h) - 16>>)
    BY <2>1, <2>2 DEF ByteAt, Zeroed, h, d
  <2> QED
    BY <2>1, <2>3 DEF o
<1>9. ASSUME r # L, NEW k \in (n - 56)..(n - 53)
      PROVE  ByteAt(c, from + k) = Zeroed(<<"ts_sec", c.records[r + 1].ts, k - (n - 56)>>)
  <2> DEFINE o == from + k
             g == HeaderAt(c)[r + 1]
  <2>1. g = h + 16 + n
    BY <1>4
  <2>2. r + 1 \in DOMAIN c.records /\ (r + 1) + 1 \in 1..(L + 1) /\ r + 1 < (r + 1) + 1
        /\ r + 1 \in 1..(L + 1)
    BY <1>1, <1>6, <1>9
  <2>3. g + 16 <= HeaderAt(c)[(r + 1) + 1] /\ HeaderAt(c)[(r + 1) + 1] \in Nat
    BY <2>2, HeadersApart
  <2> HIDE DEF g
  <2>10. from = h + 72 /\ h \in Nat /\ n \in Nat
    BY <1>2 DEF h
  <2>4. o \in Int /\ g <= o /\ o < g + 4 /\ o - g < 4 /\ o - g = k - (n - 56)
    BY <2>1, <2>10
  <2> HIDE DEF o
  <2>5. g \in Int
    BY <2>1, <2>10
  <2>6. o < HeaderAt(c)[(r + 1) + 1]
    BY <2>3, <2>4, <2>5
  <2>7. RecordAt(c, o) = r + 1
    BY <2>2, <2>4, <2>6, AtRecord DEF g
  <2>8. ByteAt(c, o) = Zeroed(<<"ts_sec", c.records[r + 1].ts, o - g>>)
    BY <2>4, <2>7 DEF ByteAt, Zeroed, g
  <2> QED
    BY <2>4, <2>8 DEF o
<1>10. RecordAt(c, from) = r
  <2>1. from \in Int /\ h <= from /\ from < h + 16 + n
    BY <1>2, <1>3 DEF h
  <2> QED
    BY <1>4, <2>1, AtRecord DEF h
<1>11. \A k \in 0..(N - 1) :
         ByteAt(c, from + k) = IF k < n - 56 THEN Zeroed(<<"data", d, k + 56>>)
                               ELSE Zeroed(<<"ts_sec", CHOOSE t \in T : TRUE, k - (n - 56)>>)
  <2> SUFFICES ASSUME NEW k \in 0..(N - 1)
               PROVE  ByteAt(c, from + k) =
                        IF k < n - 56 THEN Zeroed(<<"data", d, k + 56>>)
                        ELSE Zeroed(<<"ts_sec", CHOOSE t \in T : TRUE, k - (n - 56)>>)
    OBVIOUS
  <2>1. CASE k < n - 56
    <3>1. k \in 0..(n - 57)
      BY <1>2, <1>3, <2>1
    <3> QED
      BY <1>8, <2>1, <3>1
  <2>2. CASE ~(k < n - 56)
    <3>1. T # {} /\ r # L
      BY <1>2, <1>3, <1>5, <1>7, <2>2
    <3>2. N = n - 52
      BY <1>7, <3>1
    <3>3. k \in (n - 56)..(n - 53)
      BY <1>2, <1>3, <2>2, <3>2
    <3>4. (CHOOSE t \in T : TRUE) = c.records[r + 1].ts
      BY <1>6, <3>1
    <3> QED
      BY <1>9, <2>2, <3>1, <3>3, <3>4
  <2> QED
    BY <2>1, <2>2
<1>12. [k \in 0..(N - 1) |-> ByteAt(c, from + k)] = View(d, n, T)
  <2>1. [k \in 0..(N - 1) |-> ByteAt(c, from + k)] =
          [k \in 0..(N - 1) |-> IF k < n - 56 THEN Zeroed(<<"data", d, k + 56>>)
                                ELSE Zeroed(<<"ts_sec", CHOOSE t \in T : TRUE, k - (n - 56)>>)]
    BY <1>11, Zenon
  <2> QED
    BY <1>7, <2>1, Zenon DEF View
<1> QED
  BY <1>5, <1>6, <1>10, <1>12 DEF N, n, d, T, L

\* A byte that is not zero tells where it is from.
LEMMA ByteTold ==
  ASSUME NEW a, NEW b, NEW c, NEW d, NEW e, NEW f,
         <<a, b, c>> \notin ZeroBytes, Zeroed(<<a, b, c>>) = Zeroed(<<d, e, f>>)
  PROVE  a = d /\ b = e /\ c = f
<1>1. NUL # <<a, b, c>>
  <2>1. Len(NUL) = 1 /\ Len(<<a, b, c>>) = 3
    BY DEF NUL
  <2> QED
    BY <2>1
<1>2. Zeroed(<<a, b, c>>) = <<a, b, c>>
  BY DEF Zeroed
<1>3. Zeroed(<<d, e, f>>) = NUL \/ Zeroed(<<d, e, f>>) = <<d, e, f>>
  BY DEF Zeroed
<1>4. <<a, b, c>> = <<d, e, f>>
  BY <1>1, <1>2, <1>3
<1> QED
  BY <1>4

\* Packets and seconds that are not all zeros.
LegibleData(data) == \E k \in 56..127 : <<"data", data, k>> \notin ZeroBytes

LegibleSeconds(seconds) ==
  seconds = {} \/ \E t : seconds = {t} /\ \E k \in 0..3 : <<"ts_sec", t, k>> \notin ZeroBytes

ViewLength(n, seconds) == IF seconds = {} THEN n - 56 ELSE n - 52

IsView(view, d, n, T) ==
  /\ DOMAIN view = 0..(ViewLength(n, T) - 1)
  /\ \A k \in 0..(ViewLength(n, T) - 1) :
       /\ k < n - 56 => view[k] = Zeroed(<<"data", d, k + 56>>)
       /\ ~(k < n - 56) => view[k] = Zeroed(<<"ts_sec", CHOOSE t \in T : TRUE, k - (n - 56)>>)

LEMMA ViewAt ==
  ASSUME NEW d, NEW n, NEW T
  PROVE  IsView(View(d, n, T), d, n, T)
  BY DEF IsView, View, ViewLength

\* A second behind a packet is seen.
LEMMA SecondSeen ==
  ASSUME NEW d1, NEW n1 \in Int, 128 <= n1, NEW T1, LegibleSeconds(T1), T1 # {},
         NEW d2, NEW n2 \in Int, 128 <= n2, NEW T2, LegibleSeconds(T2),
         View(d1, n1, T1) = View(d2, n2, T2),
         ViewLength(n1, T1) = ViewLength(n2, T2)
  PROVE  n1 = n2 /\ T1 = T2
<1>1. PICK t : T1 = {t} /\ \E k \in 0..3 : <<"ts_sec", t, k>> \notin ZeroBytes
  BY DEF LegibleSeconds
<1>2. PICK j \in 0..3 : <<"ts_sec", t, j>> \notin ZeroBytes
  BY <1>1
<1>14. IsView(View(d1, n1, T1), d1, n1, T1) /\ IsView(View(d2, n2, T2), d2, n2, T2)
  BY ViewAt
<1> DEFINE k == (n1 - 56) + j
           M == ViewLength(n1, T1)
<1>3. M = n1 - 52 /\ k \in 0..(M - 1) /\ ~(k < n1 - 56) /\ k - (n1 - 56) = j
  BY <1>1 DEF ViewLength
<1>4. (CHOOSE u \in T1 : TRUE) = t
  BY <1>1
<1> HIDE DEF k, M
<1>5. View(d1, n1, T1)[k] = Zeroed(<<"ts_sec", t, j>>)
  <2>1. View(d1, n1, T1)[k] = Zeroed(<<"ts_sec", CHOOSE u \in T1 : TRUE, k - (n1 - 56)>>)
    BY <1>3, <1>14 DEF IsView, M
  <2> QED
    BY <1>3, <1>4, <2>1
<1>6. k \in 0..(ViewLength(n2, T2) - 1)
  BY <1>3 DEF M
<1>7. ~(k < n2 - 56)
  <2> SUFFICES ASSUME k < n2 - 56 PROVE FALSE
    OBVIOUS
  <2>1. View(d2, n2, T2)[k] = Zeroed(<<"data", d2, k + 56>>)
    BY <1>6, <1>14 DEF IsView
  <2>2. "ts_sec" = "data"
    BY <1>2, <1>5, <2>1, ByteTold
  <2> QED
    BY <2>2
<1>8. T2 # {}
  BY <1>6, <1>7 DEF ViewLength
<1>9. n1 = n2
  BY <1>3, <1>8 DEF ViewLength, M
<1>10. View(d2, n2, T2)[k] = Zeroed(<<"ts_sec", CHOOSE u \in T2 : TRUE, k - (n2 - 56)>>)
  BY <1>6, <1>7, <1>14 DEF IsView
<1>11. PICK v : T2 = {v}
  BY <1>8 DEF LegibleSeconds
<1>12. (CHOOSE u \in T2 : TRUE) = v
  BY <1>11
<1>13. t = v
  BY <1>2, <1>5, <1>10, <1>12, ByteTold
<1> QED
  BY <1>1, <1>9, <1>11, <1>13

\* Two views are equal only if the packets and the seconds are.
LEMMA ViewApart ==
  ASSUME NEW d1, NEW n1 \in Int, 128 <= n1, NEW T1, LegibleData(d1), LegibleSeconds(T1),
         NEW d2, NEW n2 \in Int, 128 <= n2, NEW T2, LegibleData(d2), LegibleSeconds(T2),
         View(d1, n1, T1) = View(d2, n2, T2)
  PROVE  d1 = d2 /\ n1 = n2 /\ T1 = T2
<1> DEFINE M1 == ViewLength(n1, T1)
           M2 == ViewLength(n2, T2)
<1>6. IsView(View(d1, n1, T1), d1, n1, T1) /\ IsView(View(d2, n2, T2), d2, n2, T2)
  BY ViewAt
<1>1. M1 \in Int /\ M2 \in Int /\ 72 <= M1 /\ 72 <= M2
  BY DEF ViewLength
<1>2. 0..(M1 - 1) = 0..(M2 - 1)
  BY <1>6 DEF IsView
<1> HIDE DEF M1, M2
<1>3. M1 = M2
  <2>1. M1 - 1 \in 0..(M1 - 1) /\ M2 - 1 \in 0..(M2 - 1)
    BY <1>1
  <2>2. M1 - 1 \in 0..(M2 - 1) /\ M2 - 1 \in 0..(M1 - 1)
    BY <1>2, <2>1
  <2> QED
    BY <1>1, <2>2
<1>4. d1 = d2
  <2>1. PICK j \in 56..127 : <<"data", d1, j>> \notin ZeroBytes
    BY DEF LegibleData
  <2>2. /\ j - 56 \in 0..(M1 - 1) /\ j - 56 \in 0..(M2 - 1)
        /\ j - 56 < n1 - 56 /\ j - 56 < n2 - 56 /\ (j - 56) + 56 = j
    BY <1>1
  <2>3. View(d1, n1, T1)[j - 56] = Zeroed(<<"data", d1, j>>)
    BY <1>6, <2>2 DEF IsView, M1
  <2>4. View(d2, n2, T2)[j - 56] = Zeroed(<<"data", d2, j>>)
    BY <1>6, <2>2 DEF IsView, M2
  <2> QED
    BY <2>1, <2>3, <2>4, ByteTold
<1>5. n1 = n2 /\ T1 = T2
  <2>1. CASE T1 # {}
    BY <1>3, <2>1, SecondSeen DEF M1, M2
  <2>2. CASE T2 # {}
    BY <1>3, <2>2, SecondSeen DEF M1, M2
  <2>3. CASE T1 = {} /\ T2 = {}
    BY <1>3, <2>3 DEF M1, M2, ViewLength
  <2> QED
    BY <2>1, <2>2, <2>3
<1> QED
  BY <1>4, <1>5

LEMMA CheckedInvInit == NoThreadedInit => CheckedInv
<1>1. NoThreadedInit => checked = <<>>
  BY DEF NoThreadedInit
<1> QED
  BY <1>1 DEF CheckedInv

AllLegible ==
  \A i \in DOMAIN checked :
    Whole(checked[i].cap) /\ checked[i].cap.records # <<>> /\ Legible(checked[i].cap)

\* What is looked up is a view of its origin.
SeenAs(c) ==
  \E d, n, T :
    /\ Origin(c) = <<d, n, T>> /\ c.bytes = View(d, n, T)
    /\ n \in Int /\ 128 <= n /\ LegibleData(d) /\ LegibleSeconds(T)

LEMMA SeenAsOrigin ==
  ASSUME NEW c, IsCapture(c.cap), FromRecord(c),
         Whole(c.cap), c.cap.records # <<>>, Legible(c.cap)
  PROVE  SeenAs(c)
<1> DEFINE f == c.cap
<1>1. PICK r \in DOMAIN f.records :
        /\ InRange(f.records[r].orig)
        /\ c.from = HeaderAt(f)[r] + 16 + 56
        /\ c.bytes = [k \in 0..(BytesRead(f, c.from, f.records[r].orig - 52) - 1) |->
                        ByteAt(f, c.from + k)]
  BY Zenon DEF FromRecord
<1> DEFINE d == f.records[r].data
           n == f.records[r].orig
           T == SecondsBehind(f, r)
<1>2. IsCapture(f) /\ Whole(f)
  OBVIOUS
<1> HIDE DEF f
<1>3. /\ RecordAt(f, c.from) = r
      /\ c.bytes = View(d, n, T)
      /\ r = Len(f.records) => T = {}
      /\ r # Len(f.records) => r + 1 \in DOMAIN f.records /\ T = {f.records[r + 1].ts}
  <2> DEFINE from == c.from
  <2>1. from = HeaderAt(f)[r] + 16 + 56
    BY <1>1
  <2>2. c.bytes = [k \in 0..(BytesRead(f, from, n - 52) - 1) |-> ByteAt(f, from + k)]
    BY <1>1
  <2> HIDE DEF from
  <2>3. /\ RecordAt(f, from) = r
        /\ [k \in 0..(BytesRead(f, from, n - 52) - 1) |-> ByteAt(f, from + k)] = View(d, n, T)
        /\ r = Len(f.records) => T = {}
        /\ r # Len(f.records) => r + 1 \in DOMAIN f.records /\ T = {f.records[r + 1].ts}
    BY <1>1, <1>2, <2>1, BytesViewed
  <2> QED
    BY <2>2, <2>3 DEF from
<1>4. Origin(c) = <<d, n, T>>
  BY <1>3 DEF Origin, SecondsBehind, f
<1>5. n \in Int /\ 128 <= n
  BY <1>1, <1>2, PayloadLength DEF InRange
<1>6. Legible(f)
  BY DEF f
<1>7. LegibleData(d)
  BY <1>6 DEF Legible, LegibleData
<1>8. LegibleSeconds(T)
  BY <1>3, <1>6 DEF Legible, LegibleSeconds
<1> HIDE DEF d, n, T
<1> QED
  BY <1>3, <1>4, <1>5, <1>7, <1>8 DEF SeenAs

LEMMA SeenApart ==
  ASSUME NEW c, SeenAs(c), NEW e, SeenAs(e)
  PROVE  c.bytes = e.bytes <=> Origin(c) = Origin(e)
<1>1. PICK d1, n1, T1 :
        /\ Origin(c) = <<d1, n1, T1>> /\ c.bytes = View(d1, n1, T1)
        /\ n1 \in Int /\ 128 <= n1 /\ LegibleData(d1) /\ LegibleSeconds(T1)
  BY DEF SeenAs
<1>2. PICK d2, n2, T2 :
        /\ Origin(e) = <<d2, n2, T2>> /\ e.bytes = View(d2, n2, T2)
        /\ n2 \in Int /\ 128 <= n2 /\ LegibleData(d2) /\ LegibleSeconds(T2)
  BY DEF SeenAs
<1>3. c.bytes = e.bytes => d1 = d2 /\ n1 = n2 /\ T1 = T2
  <2> SUFFICES ASSUME c.bytes = e.bytes PROVE d1 = d2 /\ n1 = n2 /\ T1 = T2
    OBVIOUS
  <2>1. View(d1, n1, T1) = View(d2, n2, T2)
    BY <1>1, <1>2
  <2> QED
    BY <1>1, <1>2, <2>1, ViewApart
<1>4. Origin(c) = Origin(e) => d1 = d2 /\ n1 = n2 /\ T1 = T2
  BY <1>1, <1>2
<1> QED
  BY <1>1, <1>2, <1>3, <1>4

\* RedundantInSameSecond is an invariant, whatever the hash: the bytes looked
\* up of a packet are the packet and the second behind it, and the table counts
\* a hit where the same bytes came before.
THEOREM RedundancyBySecond ==
  ASSUME BucketsExist
  PROVE  ReadersSpec => []RedundantInSameSecond
<1> DEFINE Inv == Control /\ InStep /\ StreamInv /\ TableInv /\ CheckedInv
<1>1. Inv => RedundantInSameSecond
  <2> SUFFICES ASSUME TableInv, CheckedInv, AllLegible PROVE
         LET Repeats == {i \in DOMAIN checked :
                      \E j \in 1..(i - 1) : Origin(checked[j]) = Origin(checked[i])}
         IN  /\ \A i, j \in DOMAIN checked :
                  checked[i].bytes = checked[j].bytes <=> Origin(checked[i]) = Origin(checked[j])
             /\ cacheHits <= Cardinality(Repeats)
             /\ (\A i, j \in DOMAIN checked :
                   BucketOf(checked[i].bytes) = BucketOf(checked[j].bytes)
                     => checked[i].bytes = checked[j].bytes)
                => cacheHits = Cardinality(Repeats)
    BY Zenon DEF RedundantInSameSecond, AllLegible
  <2> DEFINE Repeats == {i \in DOMAIN checked :
                           \E j \in 1..(i - 1) : Origin(checked[j]) = Origin(checked[i])}
  <2>1. \A i \in DOMAIN checked : SeenAs(checked[i])
    BY SeenAsOrigin DEF CheckedInv, AllLegible
  <2>2. \A i, j \in DOMAIN checked :
          checked[i].bytes = checked[j].bytes <=> Origin(checked[i]) = Origin(checked[j])
    BY <2>1, SeenApart
  <2>3. \A i \in DOMAIN checked : 1..(i - 1) \subseteq DOMAIN checked
    <3>1. DOMAIN checked = 1..Len(checked) /\ Len(checked) \in Nat
      BY DEF TableInv, IsSequence
    <3> QED
      BY <3>1
  <2>4. Repeats = Repeated(checked)
    BY <2>2, <2>3 DEF Repeated
  <2>5. /\ cacheHits <= Cardinality(Repeated(checked))
        /\ BytesApart(checked) => cacheHits = Cardinality(Repeated(checked))
    BY DEF TableInv
  <2> QED
    BY <2>2, <2>4, <2>5 DEF BytesApart
<1>2. NoThreadedInit => Inv
  BY ControlInit, InStepInit, StreamInvInit, TableInvInit, CheckedInvInit
<1>3. Inv /\ [NoThreadedNext]_allVars => Inv'
  BY ControlStep, InStepStep, StreamInvStep, TableInvStep, CheckedInvStep
<1> HIDE DEF Inv
<1> QED
  BY <1>1, <1>2, <1>3, PTL DEF ReadersSpec
=============================================================================
