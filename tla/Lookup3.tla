------------------------------ MODULE Lookup3 ------------------------------
(***************************************************************************)
(* How hashlittle (functions.h) reads its key.  The function has three     *)
(* ways to take a key apart, for keys aligned to 4 bytes, to 2 bytes and   *)
(* not at all, each with a loop over blocks of 12 bytes and a switch for   *)
(* the last block.  What must come out is the same in the three: mix and   *)
(* final are left out, and the model follows each byte of the key to the   *)
(* bits of the register, a, b or c, that it is added to in its block.      *)
(*                                                                         *)
(* A definition headed "Fault:" is a faulty variant of the one after it.   *)
(***************************************************************************)
EXTENDS Integers, FiniteSets

CONSTANT MaxLength  \* bound on the length of the keys

ASSUME MaxLengthAssumption == MaxLength \in Nat

VARIABLES
  align,   \* address of the key modulo 4
  key,     \* the length the function was called with
  length,  \* the variable of that name: bytes still to be read
  block,   \* number of blocks mixed
  added,   \* <<byte, block, register, bit>> of every byte added
  read,    \* the bytes touched, those masked off included
  result   \* "none" before the return, "c" or "final" after it

hashVars == <<align, key, length, block, added, read, result>>

-----------------------------------------------------------------------------
(* One addition to a register: `kept' bytes out of `size', from a place in *)
(* the block.                                                              *)

Add(reg, bit, from, size, kept) ==
  [reg |-> reg, bit |-> bit, from |-> from, size |-> size, kept |-> kept]

Word(reg, i) == Add(reg, 0, 4 * i, 4, 4)
Masked(reg, i, kept) == Add(reg, 0, 4 * i, 4, kept)
Half(reg, i, bit) == Add(reg, bit, 2 * i, 2, 2)
Pair(reg, i) == {Half(reg, i, 0), Half(reg, i + 1, 16)}
Byte(reg, i, bit) == Add(reg, bit, i, 1, 1)

\* Keys aligned to 4 bytes.
Block32 == {Word("a", 0), Word("b", 1), Word("c", 2)}

Tail32 == <<
  {Masked("a", 0, 1)}, {Masked("a", 0, 2)}, {Masked("a", 0, 3)}, {Word("a", 0)},
  {Masked("b", 1, 1), Word("a", 0)}, {Masked("b", 1, 2), Word("a", 0)},
  {Masked("b", 1, 3), Word("a", 0)}, {Word("b", 1), Word("a", 0)},
  {Masked("c", 2, 1), Word("b", 1), Word("a", 0)},
  {Masked("c", 2, 2), Word("b", 1), Word("a", 0)},
  {Masked("c", 2, 3), Word("b", 1), Word("a", 0)},
  {Word("c", 2), Word("b", 1), Word("a", 0)} >>

\* Keys aligned to 2 bytes.
Block16 == Pair("a", 0) \cup Pair("b", 2) \cup Pair("c", 4)

\* Fault: case 11 adds its last byte in the place of case 10's.
Tail16Shifted == <<
  {Byte("a", 0, 0)}, {Half("a", 0, 0)}, {Byte("a", 2, 16), Half("a", 0, 0)}, Pair("a", 0),
  {Byte("b", 4, 0)} \cup Pair("a", 0), {Half("b", 2, 0)} \cup Pair("a", 0),
  {Byte("b", 6, 16), Half("b", 2, 0)} \cup Pair("a", 0), Pair("b", 2) \cup Pair("a", 0),
  {Byte("c", 8, 0)} \cup Pair("b", 2) \cup Pair("a", 0),
  {Half("c", 4, 0)} \cup Pair("b", 2) \cup Pair("a", 0),
  {Byte("c", 10, 8), Half("c", 4, 0)} \cup Pair("b", 2) \cup Pair("a", 0),
  Block16 >>

Tail16 == <<
  {Byte("a", 0, 0)}, {Half("a", 0, 0)}, {Byte("a", 2, 16), Half("a", 0, 0)}, Pair("a", 0),
  {Byte("b", 4, 0)} \cup Pair("a", 0), {Half("b", 2, 0)} \cup Pair("a", 0),
  {Byte("b", 6, 16), Half("b", 2, 0)} \cup Pair("a", 0), Pair("b", 2) \cup Pair("a", 0),
  {Byte("c", 8, 0)} \cup Pair("b", 2) \cup Pair("a", 0),
  {Half("c", 4, 0)} \cup Pair("b", 2) \cup Pair("a", 0),
  {Byte("c", 10, 16), Half("c", 4, 0)} \cup Pair("b", 2) \cup Pair("a", 0),
  Block16 >>

\* Other keys: every case falls through to the cases below it.
Case8 == <<
  Byte("a", 0, 0), Byte("a", 1, 8), Byte("a", 2, 16), Byte("a", 3, 24),
  Byte("b", 4, 0), Byte("b", 5, 8), Byte("b", 6, 16), Byte("b", 7, 24),
  Byte("c", 8, 0), Byte("c", 9, 8), Byte("c", 10, 16), Byte("c", 11, 24) >>

Tail8 == [n \in 1..12 |-> {Case8[i] : i \in 1..n}]
Block8 == Tail8[12]

-----------------------------------------------------------------------------
\* Fault: the first branch is taken for keys aligned to 2 bytes too.
BranchLoose == IF align % 2 = 0 THEN 32 ELSE 8

\* The branch, on a little-endian machine.
Branch == IF align = 0 THEN 32 ELSE IF align % 2 = 0 THEN 16 ELSE 8

BlockAdds == [branch \in {8, 16, 32} |->
                IF branch = 32 THEN Block32 ELSE IF branch = 16 THEN Block16 ELSE Block8]

TailAdds == [branch \in {8, 16, 32} |->
               IF branch = 32 THEN Tail32 ELSE IF branch = 16 THEN Tail16 ELSE Tail8]

\* The additions are done, with the cursor at the present block.
Apply(adds) ==
  /\ added' = added \cup
       UNION {{<<12 * block + x.from + j, block, x.reg, x.bit + 8 * j>> :
                 j \in 0..(x.kept - 1)} : x \in adds}
  /\ read' = read \cup
       UNION {{12 * block + x.from + j : j \in 0..(x.size - 1)} : x \in adds}

\* Fault: a last block of 12 bytes is left to the loop.
BlockGreedy ==
  /\ result = "none"
  /\ length >= 12
  /\ Apply(BlockAdds[Branch])
  /\ length' = length - 12
  /\ block' = block + 1
  /\ UNCHANGED <<align, key, result>>

\* One turn of the loop.
Block ==
  /\ result = "none"
  /\ length > 12
  /\ Apply(BlockAdds[Branch])
  /\ length' = length - 12
  /\ block' = block + 1
  /\ UNCHANGED <<align, key, result>>

\* The switch, and final.
LastBlock ==
  /\ result = "none"
  /\ length \in 1..12
  /\ Apply(TailAdds[Branch][length])
  /\ result' = "final"
  /\ UNCHANGED <<align, key, length, block>>

\* case 0: return c.
Empty ==
  /\ result = "none"
  /\ length = 0
  /\ result' = "c"
  /\ UNCHANGED <<align, key, length, block, added, read>>

Returned == result # "none" /\ UNCHANGED hashVars

HashInit ==
  /\ align \in 0..3
  /\ key \in 0..MaxLength
  /\ length = key
  /\ block = 0
  /\ added = {}
  /\ read = {}
  /\ result = "none"

HashNext == Block \/ LastBlock \/ Empty \/ Returned

HashSpec == HashInit /\ [][HashNext]_hashVars

-----------------------------------------------------------------------------
(* Properties.                                                             *)

\* The place of byte i in a key: its block, register and bit.
Place(i) ==
  <<i, i \div 12, IF i % 12 < 4 THEN "a" ELSE IF i % 12 < 8 THEN "b" ELSE "c", 8 * (i % 4)>>

\* In all three branches every byte of the key, and no byte after it, has
\* been added in its place: the hash of a payload depends neither on where
\* the payload lies nor on what lies behind it.
EveryByteInPlace == result # "none" => added = {Place(i) : i \in 0..(key - 1)}

\* Only the empty key is returned without final: a last block, full or not,
\* always goes through the switch.
MixedAtTheEnd == result = "c" => key = 0

\* What is read past the end of the key lies in the aligned word in which the
\* key ends, as the comment in the code says.
OverreadInWord ==
  \A i \in read : i >= key => (align + i) \div 4 = (align + key - 1) \div 4
=============================================================================
