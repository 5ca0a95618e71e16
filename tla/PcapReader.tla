----------------------------- MODULE PcapReader -----------------------------
(***************************************************************************)
(* How threadedRE.c reads a capture and cuts payloads into windows, with   *)
(* the offsets in the file and the bytes that come from there.  The        *)
(* threads are left out: a payload or window that is pushed joins a        *)
(* history, in the order in which Pipeline queues it.                      *)
(*                                                                         *)
(* A definition headed "Fault:" is a faulty variant of the one after it.   *)
(***************************************************************************)
EXTENDS CaptureFile, CommandLine

CONSTANTS
  HolderSize,  \* bytes of byData in a PacketHolder, 2400 in the code
  Commands     \* the command lines

GivenWords == UNION {{words[i] : i \in DOMAIN words} : words \in Commands}

\* A word is of one of four kinds, and what it names is a capture.
ASSUME CommandsAssumption ==
  /\ Commands \subseteq Seq(GivenWords)
  /\ \A word \in GivenWords : Kind(word) \in {"file", "option", "joined", "value"}
  /\ \A word \in GivenWords : Kind(word) = "file" => IsCapture(word[2])

\* A payload in range has room in packetHolder.
ASSUME HolderAssumption ==
  /\ HolderSize \in Nat /\ OtherWords \subseteq Int
  /\ \A word \in GivenWords : Kind(word) = "file" =>
       \A r \in DOMAIN word[2].records :
         word[2].records[r].orig <= 2400 => word[2].records[r].orig - 52 <= HolderSize

VARIABLES
  program,        \* "threadedRE" or "noThreaded"
  argv, parsed,   \* the command line, what has been made of it
  cap, files,     \* the file in progress, how many have been opened
  pc,             \* "start", "open", "loop", "windows", "end", "exit", "killed"
  pos, eof,       \* the stream
  nPacketLength,  \* as in the code
  byData,         \* packetHolder.byData
  left, temp,     \* next window, and temp.byData of the window before
  payloads,       \* payloads read from this file: offset, bytes (history)
  held            \* windows of this file: as cut, as pushed (history)

stream     == <<pos, eof>>
windowVars == <<left, temp, held>>
commandVars == <<program, argv, parsed>>
readerVars == <<commandVars, cap, files, pc, stream, nPacketLength, byData, payloads,
                windowVars>>

Programs == {"threadedRE", "noThreaded"}
Window == 0..63

\* What is on the stack of a new thread.
Stack(n) == [i \in 0..(n - 1) |-> <<"stack", i>>]

-----------------------------------------------------------------------------
(* main.                                                                   *)

\* 500 threads stand for none given.
Defaults ==
  IF program = "threadedRE" THEN [level |-> 2, thread |-> 500] ELSE [level |-> 1, thread |-> 2]

NextOption ==
  /\ pc = "start"
  /\ Options(parsed.rest) # {}
  /\ parsed' = Getopt(parsed)
  /\ UNCHANGED <<program, argv, cap, files, pc, stream, nPacketLength, byData, payloads,
                 windowVars>>

\* A level or a number of threads out of range is refused; noThreaded.c takes
\* any level, and any number from 2.
InLimits(l, threads) ==
  IF program = "threadedRE" THEN l \in {1, 2} /\ threads \in (2..10) \cup {500}
                            ELSE threads >= 2

Start ==
  /\ pc = "start"
  /\ Options(parsed.rest) = {}
  /\ pc' = IF InLimits(parsed.set.level, parsed.set.thread) THEN "open" ELSE "exit"
  /\ UNCHANGED <<commandVars, cap, files, stream, nPacketLength, byData, payloads, windowVars>>

level == parsed.set.level
filenames == Filenames(parsed)

MayOpen == pc \in {"open", "end"} /\ files < Len(filenames)

\* Fault: the first record is skipped with the header.
SkipRecord(c) == Sought(c, 4, 40)

\* The magic number has been read, and 24 bytes more are skipped.
SkipHeader(c) == Sought(c, 4, 24)

\* noThreaded.c does nothing at level 2.
Open ==
  /\ MayOpen
  /\ Kind(filenames[files + 1]) = "file"
  /\ cap' = filenames[files + 1][2]
  /\ files' = files + 1
  /\ pos' = SkipHeader(cap')
  /\ eof' = FALSE
  /\ pc' = IF program = "noThreaded" /\ level # 1 THEN "end" ELSE "loop"
  /\ nPacketLength' \in OtherWords
  /\ byData' = Stack(HolderSize) /\ temp' = Stack(64)
  /\ payloads' = <<>> /\ held' = <<>> /\ left' = 0
  /\ UNCHANGED commandVars

\* What cannot be opened is read from all the same, through a null pointer.
OpenFails ==
  /\ MayOpen
  /\ Kind(filenames[files + 1]) # "file"
  /\ pc' = "killed"
  /\ UNCHANGED <<commandVars, cap, files, stream, nPacketLength, byData, payloads, windowVars>>

-----------------------------------------------------------------------------
(* producer.                                                               *)

InRange(n) == 128 <= n /\ n <= 2400

\* Fault: fseek is taken to find the end of the file.
SkipFindsEnd(at, n) ==
  /\ ~InRange(n)
  /\ pos' = Sought(cap, at, n)
  /\ eof' = (BytesRead(cap, at, n) < n)
  /\ UNCHANGED <<byData, payloads>>

\* A record out of range is skipped.
Skip(at, n) ==
  /\ ~InRange(n)
  /\ pos' = Sought(cap, at, n)
  /\ eof' = FALSE
  /\ UNCHANGED <<byData, payloads>>

\* Fault: the payload is read from its first byte.
PayloadWhole(at, n) ==
  LET bytes == BytesRead(cap, at, n - 52)
  IN  /\ InRange(n)
      /\ pos' = at + bytes
      /\ eof' = (bytes < n - 52)
      /\ byData' = [i \in DOMAIN byData |->
                      IF i < bytes THEN ByteAt(cap, at + i) ELSE byData[i]]
      /\ payloads' = Append(payloads, [from |-> at, bytes |-> bytes])

\* The first 52 bytes are skipped and the rest is read into packetHolder; the
\* end of the file cuts it short.
Payload(at, n) ==
  LET from  == Sought(cap, at, 52)
      bytes == BytesRead(cap, from, n - 52)
  IN  /\ InRange(n)
      /\ pos' = from + bytes
      /\ eof' = (bytes < n - 52)
      /\ byData' = [i \in DOMAIN byData |->
                      IF i < bytes THEN ByteAt(cap, from + i) ELSE byData[i]]
      /\ payloads' = Append(payloads, [from |-> from, bytes |-> bytes])

\* One turn of producer's loop.  Each fseek clears the flag that feof looks
\* at, so that only the read of the length can find the end of the file.
Turn ==
  LET at == Sought(cap, pos, 8)
  IN  /\ program = "threadedRE"
      /\ pc = "loop"
      /\ ~eof
      /\ IF BytesRead(cap, at, 4) < 4
         THEN /\ pos' = Size(cap)
              /\ eof' = TRUE
              /\ pc' = "end"
              /\ UNCHANGED <<nPacketLength, byData, payloads>>
         ELSE \E n \in WordAt(cap, at) :
                /\ nPacketLength' = n
                /\ Skip(Sought(cap, at, 8), n) \/ Payload(Sought(cap, at, 8), n)
                /\ pc' = IF level = 2 /\ InRange(n) THEN "windows" ELSE "loop"
      /\ left' = 0
      /\ UNCHANGED <<commandVars, cap, files, temp, held>>

\* The test of the loop after a payload cut short.
LoopEnds ==
  /\ pc = "loop"
  /\ eof
  /\ pc' = "end"
  /\ UNCHANGED <<commandVars, cap, files, stream, nPacketLength, byData, payloads, windowVars>>

\* The window at left.
Cut == [i \in Window |-> byData[left + i]]

FirstZero(w) ==
  LET zeros == {i \in Window : w[i] = NUL}
  IN  IF zeros = {} THEN 64 ELSE CHOOSE i \in zeros : \A j \in zeros : i <= j

\* Fault: the terminating zero is not written.
CopiedUnterminated(w) == [i \in Window |-> IF i < FirstZero(w) THEN w[i] ELSE temp[i]]

\* sprintf with %s: up to the first zero, and that; the rest of temp stays.
Copied(w) == [i \in Window |-> IF i <= FirstZero(w) THEN w[i] ELSE temp[i]]

\* Fault: one window more.
PushWindowTooMany ==
  /\ pc = "windows"
  /\ temp' = Copied(Cut)
  /\ held' = Append(held, [at |-> left, of |-> Len(payloads), cut |-> Cut, as |-> temp'])
  /\ left' = left + 1
  /\ pc' = IF left + 63 < nPacketLength - 52 THEN "windows" ELSE "loop"
  /\ UNCHANGED <<commandVars, cap, files, stream, nPacketLength, byData, payloads>>

\* One turn of the loop over the windows; their number depends on the length
\* in the header, not on the bytes read.
PushWindow ==
  /\ pc = "windows"
  /\ temp' = Copied(Cut)
  /\ held' = Append(held, [at |-> left, of |-> Len(payloads), cut |-> Cut, as |-> temp'])
  /\ left' = left + 1
  /\ pc' = IF left + 64 < nPacketLength - 52 THEN "windows" ELSE "loop"
  /\ UNCHANGED <<commandVars, cap, files, stream, nPacketLength, byData, payloads>>

ReaderInit ==
  /\ program \in Programs
  /\ argv \in Commands
  /\ parsed = Unparsed(argv, Defaults)
  /\ cap = [records |-> <<>>, cut |-> 0]
  /\ files = 0
  /\ pc = "start"
  /\ pos = 0 /\ eof = FALSE
  /\ nPacketLength = 0
  /\ byData = Stack(HolderSize) /\ temp = Stack(64)
  /\ payloads = <<>> /\ held = <<>> /\ left = 0

-----------------------------------------------------------------------------
(* Properties.                                                             *)

\* The files opened are those named, in their order, wherever the options
\* stand, if every option and its value are two words; for each option that
\* is one word with its value, the first of the files is not opened.  The
\* process is only ever killed over an option or a value that stands alone.
FilesAsNamed ==
  LET named  == Places(argv, "file")
      joined == Cardinality(Places(argv, "joined"))
  IN  /\ pc # "start" /\ Complete(argv) =>
           /\ joined < Cardinality(named) => Len(filenames) = Cardinality(named) - joined
           /\ joined >= Cardinality(named) => filenames = <<>>
           /\ \A k \in DOMAIN filenames : \E i \in named :
                /\ filenames[k] = argv[i]
                /\ Cardinality({j \in named : j <= i}) = joined + k
      /\ pc = "killed" => ~Complete(argv)

\* Records of the file in progress that are in range, and how many of them
\* there are up to record r.
InRangeRecords == {r \in DOMAIN cap.records : InRange(cap.records[r].orig)}
Count(r) == Cardinality({s \in InRangeRecords : s <= r})

\* In a file without records noThreaded.c finds the length that happens to be
\* on its stack.
LengthGiven == program = "noThreaded" => cap.records # <<>>

\* A whole capture is read four bytes late throughout: the reader takes
\* orig_len for incl_len, and keeps in step with the records all the same.
\* Each payload in range is read once, in order, from its 57th byte to the
\* first word of the next record.
ReadsInStep ==
  files > 0 /\ Whole(cap) /\ LengthGiven =>
    /\ \A i \in DOMAIN payloads : \E r \in InRangeRecords :
         LET from == HeaderAt(cap)[r] + 16 + 56
         IN  /\ Count(r) = i
             /\ payloads[i] = [from |-> from,
                               bytes |-> BytesRead(cap, from, cap.records[r].orig - 52)]
    /\ pc = "end" /\ (program = "threadedRE" \/ level = 1) =>
         Len(payloads) = Cardinality(InRangeRecords)

\* After the global header come the packets: every byte read as payload is
\* data of one record, behind its first 52 bytes.
ReadsThePacket ==
  files > 0 /\ Whole(cap) =>
    \A i \in DOMAIN payloads : \E r \in DOMAIN cap.records :
      /\ HeaderAt(cap)[r] + 16 + 52 <= payloads[i].from
      /\ payloads[i].from + payloads[i].bytes <= HeaderAt(cap)[r + 1]

\* Which windows the cache will find equal: one without a zero byte exactly
\* the windows equal to it, and any other only such as agree with it up to
\* the first zero, whatever an earlier window has left behind that.
DuplicatesUpToZero ==
  \A i, j \in DOMAIN held :
    LET v == held[i].cut
        w == held[j].cut
    IN  /\ FirstZero(v) = 64 => (held[i].as = held[j].as <=> v = w)
        /\ held[i].as = held[j].as =>
             /\ FirstZero(v) = FirstZero(w)
             /\ \A k \in Window : k < FirstZero(v) => v[k] = w[k]

\* A window holds bytes of its own payload.  Only the last four windows of a
\* file may go beyond them, since the last payload is four bytes short.
WindowsFromFile ==
  Whole(cap) =>
    \A i \in DOMAIN held :
      LET payload == payloads[held[i].of]
      IN  \/ held[i].at + 64 <= payload.bytes
          \/ /\ payload.from + payload.bytes = Size(cap)
             /\ held[i].at + 64 <= payload.bytes + 4
=============================================================================
