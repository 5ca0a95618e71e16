----------------------------- MODULE CommandLine -----------------------------
(***************************************************************************)
(* How main finds its options and its files.  A word of the command line   *)
(* names a capture <<"file", capture>>, is an option whose value is the    *)
(* next word <<"option", o>> or that brings it along <<"joined", o, n>>,   *)
(* or is a value <<"value", n>>; o is "level" or "thread".                 *)
(***************************************************************************)
EXTENDS Integers, Sequences

Kind(word) == word[1]
Options(words) == {i \in DOMAIN words : Kind(words[i]) \in {"option", "joined"}}

\* The value of the option at place i: atoi makes 0 of what is no number.
Value(words, i) ==
  IF Kind(words[i]) = "joined" THEN words[i][3]
  ELSE IF Kind(words[i + 1]) = "value" THEN words[i + 1][2] ELSE 0

\* Fault: the value of an option is taken for a file.
CountOneWord(files) == files - 1

\* What an option takes from the number of files.
CountTwoWords(files) == files - 2

\* main's state before the first turn: the words that options have been moved
\* before, the others, the number of files, the level and the threads.
Unparsed(argv, defaults) ==
  [first |-> <<>>, rest |-> argv, files |-> Len(argv), set |-> defaults]

\* One turn of the loop over getopt_long_only, which moves the option it finds
\* and its value before the other words.  An option at the end that has no
\* value is not counted at all.
Getopt(s) ==
  LET i     == CHOOSE i \in Options(s.rest) : \A j \in Options(s.rest) : i <= j
      words == IF Kind(s.rest[i]) = "option" /\ i < Len(s.rest) THEN 2 ELSE 1
      moved == [s EXCEPT !.first = @ \o SubSeq(s.rest, i, i + words - 1),
                         !.rest  = SubSeq(@, 1, i - 1) \o SubSeq(@, i + words, Len(@))]
  IN  IF words = 1 /\ Kind(s.rest[i]) = "option" THEN moved
      ELSE [moved EXCEPT !.files = CountTwoWords(@),
                         !.set[s.rest[i][2]] = Value(s.rest, i)]

\* filenames: the last words, as many as main takes to be files.
Filenames(parsed) ==
  LET words == parsed.first \o parsed.rest
  IN  SubSeq(words, Len(words) - parsed.files + 1, Len(words))

\* Words of a kind, by their places.
Places(words, kind) == {i \in DOMAIN words : Kind(words[i]) = kind}

\* Each option that is a word of its own has a value behind it, and each value
\* an option before it.
Complete(words) ==
  /\ \A i \in Places(words, "option") : i < Len(words) /\ Kind(words[i + 1]) = "value"
  /\ \A i \in Places(words, "value") : i > 1 /\ Kind(words[i - 1]) = "option"
=============================================================================
