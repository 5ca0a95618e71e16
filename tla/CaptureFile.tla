----------------------------- MODULE CaptureFile -----------------------------
(***************************************************************************)
(* A capture file as the C library presents it: a global header of 24      *)
(* bytes, then records, each with a header of four 32-bit words (ts_sec,   *)
(* ts_usec, incl_len, orig_len) and incl_len bytes of packet data.  A byte *)
(* stands for what it holds, so that equal bytes are equal values, and     *)
(* every zero byte is NUL.                                                 *)
(***************************************************************************)
EXTENDS Integers, Sequences, FiniteSets

CONSTANTS
  ZeroBytes,  \* the bytes of packet data and headers that are zero
  OtherWords  \* what a word that is no length may hold, as a number

NUL == <<"zero">>

\* The lengths are numbers.
IsCapture(cap) ==
  /\ cap.cut \in Nat
  /\ Len(cap.records) \in Nat /\ DOMAIN cap.records = 1..Len(cap.records)
  /\ \A r \in DOMAIN cap.records : cap.records[r].incl \in Nat /\ cap.records[r].orig \in Nat

\* Where the header of record r begins; that of the record behind the last is
\* where the file ends if nothing is cut off.
HeaderAt(cap) ==
  LET at[r \in 1..(Len(cap.records) + 1)] ==
        IF r = 1 THEN 24 ELSE at[r - 1] + 16 + cap.records[r - 1].incl
  IN  at

Size(cap) == HeaderAt(cap)[Len(cap.records) + 1] - cap.cut

RecordAt(cap, offset) ==
  CHOOSE r \in DOMAIN cap.records :
    HeaderAt(cap)[r] <= offset /\ offset < HeaderAt(cap)[r + 1]

\* The byte at an offset behind the global header.
ByteAt(cap, offset) ==
  LET r == RecordAt(cap, offset)
      k == offset - HeaderAt(cap)[r]
      byte == IF k < 4 THEN <<"ts_sec", cap.records[r].ts, k>>
              ELSE IF k < 16 THEN <<"header", r, k>>
              ELSE <<"data", cap.records[r].data, k - 16>>
  IN  IF byte \in ZeroBytes THEN NUL ELSE byte

\* The numbers that the word at an offset may hold.
WordAt(cap, offset) ==
  LET lengths == {cap.records[r].incl : r \in {s \in DOMAIN cap.records :
                                                 offset = HeaderAt(cap)[s] + 8}}
                 \cup {cap.records[r].orig : r \in {s \in DOMAIN cap.records :
                                                 offset = HeaderAt(cap)[s] + 12}}
  IN  IF lengths = {} THEN OtherWords ELSE lengths

\* All of every packet was captured, and the file is not cut short.
Whole(cap) ==
  cap.cut = 0 /\ \A r \in DOMAIN cap.records : cap.records[r].incl = cap.records[r].orig

-----------------------------------------------------------------------------
(* The stream: any position behind the end counts as the end.              *)

Sought(cap, pos, n) == IF pos + n < Size(cap) THEN pos + n ELSE Size(cap)

BytesRead(cap, pos, n) == Sought(cap, pos, n) - pos
=============================================================================
