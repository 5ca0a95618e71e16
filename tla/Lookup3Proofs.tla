---------------------------- MODULE Lookup3Proofs ----------------------------
(***************************************************************************)
(* Proofs about Lookup3: what hashlittle reads of a key, for keys of every *)
(* length and alignment.                                                   *)
(***************************************************************************)
EXTENDS Lookup3, TLAPS

\* An addition that lies in one register, in the place of its first byte.
InRegister(x) ==
  /\ x.from \in 0..11 /\ x.kept \in 1..4 /\ x.size \in 1..4
  /\ \/ x.reg = "a" /\ x.bit = 8 * x.from /\ x.from + x.kept <= 4
     \/ x.reg = "b" /\ x.bit = 8 * (x.from - 4) /\ 4 <= x.from /\ x.from + x.kept <= 8
     \/ x.reg = "c" /\ x.bit = 8 * (x.from - 8) /\ 8 <= x.from /\ x.from + x.kept <= 12

Keeps(x, i) == x.from <= i /\ i < x.from + x.kept

\* Additions for the first n bytes of a block: they keep these and no others,
\* and touch none from byte m on.
Takes(adds, n, m) ==
  /\ \A x \in adds : InRegister(x) /\ x.from + x.size <= m
  /\ \A x \in adds : x.from + x.kept <= n
  /\ \A i \in 0..(n - 1) : \E x \in adds : Keeps(x, i)

-----------------------------------------------------------------------------
(***************************************************************************)
(* The tables.                                                             *)
(***************************************************************************)

\* The switch for keys aligned to 4 bytes: it reads whole words.
LEMMA Tail32Takes ==
  \A n \in 1..12 : Takes(Tail32[n], n, 4 * ((n + 3) \div 4))
<1>1. Takes(Tail32[1], 1, 4)
  <2>1. Tail32[1] = {Masked("a", 0, 1)}
    BY DEF Tail32
  <2>2. Takes({Masked("a", 0, 1)}, 1, 4)
    BY DEF Takes, InRegister, Keeps, Word, Masked, Add
  <2> QED
    BY <2>1, <2>2
<1>2. Takes(Tail32[2], 2, 4)
  <2>1. Tail32[2] = {Masked("a", 0, 2)}
    BY DEF Tail32
  <2>2. Takes({Masked("a", 0, 2)}, 2, 4)
    BY DEF Takes, InRegister, Keeps, Word, Masked, Add
  <2> QED
    BY <2>1, <2>2
<1>3. Takes(Tail32[3], 3, 4)
  <2>1. Tail32[3] = {Masked("a", 0, 3)}
    BY DEF Tail32
  <2>2. Takes({Masked("a", 0, 3)}, 3, 4)
    BY DEF Takes, InRegister, Keeps, Word, Masked, Add
  <2> QED
    BY <2>1, <2>2
<1>4. Takes(Tail32[4], 4, 4)
  <2>1. Tail32[4] = {Word("a", 0)}
    BY DEF Tail32
  <2>2. Takes({Word("a", 0)}, 4, 4)
    BY DEF Takes, InRegister, Keeps, Word, Masked, Add
  <2> QED
    BY <2>1, <2>2
<1>5. Takes(Tail32[5], 5, 8)
  <2>1. Tail32[5] = {Masked("b", 1, 1), Word("a", 0)}
    BY DEF Tail32
  <2>2. Takes({Masked("b", 1, 1), Word("a", 0)}, 5, 8)
    BY DEF Takes, InRegister, Keeps, Word, Masked, Add
  <2> QED
    BY <2>1, <2>2
<1>6. Takes(Tail32[6], 6, 8)
  <2>1. Tail32[6] = {Masked("b", 1, 2), Word("a", 0)}
    BY DEF Tail32
  <2>2. Takes({Masked("b", 1, 2), Word("a", 0)}, 6, 8)
    BY DEF Takes, InRegister, Keeps, Word, Masked, Add
  <2> QED
    BY <2>1, <2>2
<1>7. Takes(Tail32[7], 7, 8)
  <2>1. Tail32[7] = {Masked("b", 1, 3), Word("a", 0)}
    BY DEF Tail32
  <2>2. Takes({Masked("b", 1, 3), Word("a", 0)}, 7, 8)
    BY DEF Takes, InRegister, Keeps, Word, Masked, Add
  <2> QED
    BY <2>1, <2>2
<1>8. Takes(Tail32[8], 8, 8)
  <2>1. Tail32[8] = {Word("b", 1), Word("a", 0)}
    BY DEF Tail32
  <2>2. Takes({Word("b", 1), Word("a", 0)}, 8, 8)
    BY DEF Takes, InRegister, Keeps, Word, Masked, Add
  <2> QED
    BY <2>1, <2>2
<1>9. Takes(Tail32[9], 9, 12)
  <2>1. Tail32[9] = {Masked("c", 2, 1), Word("b", 1), Word("a", 0)}
    BY DEF Tail32
  <2>2. Takes({Masked("c", 2, 1), Word("b", 1), Word("a", 0)}, 9, 12)
    BY DEF Takes, InRegister, Keeps, Word, Masked, Add
  <2> QED
    BY <2>1, <2>2
<1>10. Takes(Tail32[10], 10, 12)
  <2>1. Tail32[10] = {Masked("c", 2, 2), Word("b", 1), Word("a", 0)}
    BY DEF Tail32
  <2>2. Takes({Masked("c", 2, 2), Word("b", 1), Word("a", 0)}, 10, 12)
    BY DEF Takes, InRegister, Keeps, Word, Masked, Add
  <2> QED
    BY <2>1, <2>2
<1>11. Takes(Tail32[11], 11, 12)
  <2>1. Tail32[11] = {Masked("c", 2, 3), Word("b", 1), Word("a", 0)}
    BY DEF Tail32
  <2>2. Takes({Masked("c", 2, 3), Word("b", 1), Word("a", 0)}, 11, 12)
    BY DEF Takes, InRegister, Keeps, Word, Masked, Add
  <2> QED
    BY <2>1, <2>2
<1>12. Takes(Tail32[12], 12, 12)
  <2>1. Tail32[12] = {Word("c", 2), Word("b", 1), Word("a", 0)}
    BY DEF Tail32
  <2>2. Takes({Word("c", 2), Word("b", 1), Word("a", 0)}, 12, 12)
    BY DEF Takes, InRegister, Keeps, Word, Masked, Add
  <2> QED
    BY <2>1, <2>2
<1> QED
  BY <1>1, <1>2, <1>3, <1>4, <1>5, <1>6, <1>7, <1>8, <1>9, <1>10, <1>11, <1>12

\* The switch for keys aligned to 2 bytes.
LEMMA Tail16Takes ==
  \A n \in 1..12 : Takes(Tail16[n], n, n)
<1>1. Takes(Tail16[1], 1, 1)
  <2>1. Tail16[1] = {Byte("a", 0, 0)}
    BY DEF Tail16
  <2>2. Takes({Byte("a", 0, 0)}, 1, 1)
    BY DEF Takes, InRegister, Keeps, Block16, Byte, Half, Pair, Add
  <2> QED
    BY <2>1, <2>2
<1>2. Takes(Tail16[2], 2, 2)
  <2>1. Tail16[2] = {Half("a", 0, 0)}
    BY DEF Tail16
  <2>2. Takes({Half("a", 0, 0)}, 2, 2)
    BY DEF Takes, InRegister, Keeps, Block16, Byte, Half, Pair, Add
  <2> QED
    BY <2>1, <2>2
<1>3. Takes(Tail16[3], 3, 3)
  <2>1. Tail16[3] = {Byte("a", 2, 16), Half("a", 0, 0)}
    BY DEF Tail16
  <2>2. Takes({Byte("a", 2, 16), Half("a", 0, 0)}, 3, 3)
    BY DEF Takes, InRegister, Keeps, Block16, Byte, Half, Pair, Add
  <2> QED
    BY <2>1, <2>2
<1>4. Takes(Tail16[4], 4, 4)
  <2>1. Tail16[4] = Pair("a", 0)
    BY DEF Tail16
  <2>2. Takes(Pair("a", 0), 4, 4)
    BY DEF Takes, InRegister, Keeps, Block16, Byte, Half, Pair, Add
  <2> QED
    BY <2>1, <2>2
<1>5. Takes(Tail16[5], 5, 5)
  <2>1. Tail16[5] = {Byte("b", 4, 0)} \cup Pair("a", 0)
    BY DEF Tail16
  <2>2. Takes({Byte("b", 4, 0)} \cup Pair("a", 0), 5, 5)
    BY DEF Takes, InRegister, Keeps, Block16, Byte, Half, Pair, Add
  <2> QED
    BY <2>1, <2>2
<1>6. Takes(Tail16[6], 6, 6)
  <2>1. Tail16[6] = {Half("b", 2, 0)} \cup Pair("a", 0)
    BY DEF Tail16
  <2>2. Takes({Half("b", 2, 0)} \cup Pair("a", 0), 6, 6)
    BY DEF Takes, InRegister, Keeps, Block16, Byte, Half, Pair, Add
  <2> QED
    BY <2>1, <2>2
<1>7. Takes(Tail16[7], 7, 7)
  <2>1. Tail16[7] = {Byte("b", 6, 16), Half("b", 2, 0)} \cup Pair("a", 0)
    BY DEF Tail16
  <2>2. Takes({Byte("b", 6, 16), Half("b", 2, 0)} \cup Pair("a", 0), 7, 7)
    BY DEF Takes, InRegister, Keeps, Block16, Byte, Half, Pair, Add
  <2> QED
    BY <2>1, <2>2
<1>8. Takes(Tail16[8], 8, 8)
  <2>1. Tail16[8] = Pair("b", 2) \cup Pair("a", 0)
    BY DEF Tail16
  <2>2. Takes(Pair("b", 2) \cup Pair("a", 0), 8, 8)
    BY DEF Takes, InRegister, Keeps, Block16, Byte, Half, Pair, Add
  <2> QED
    BY <2>1, <2>2
<1>9. Takes(Tail16[9], 9, 9)
  <2>1. Tail16[9] = {Byte("c", 8, 0)} \cup Pair("b", 2) \cup Pair("a", 0)
    BY DEF Tail16
  <2>2. Takes({Byte("c", 8, 0)} \cup Pair("b", 2) \cup Pair("a", 0), 9, 9)
    BY DEF Takes, InRegister, Keeps, Block16, Byte, Half, Pair, Add
  <2> QED
    BY <2>1, <2>2
<1>10. Takes(Tail16[10], 10, 10)
  <2>1. Tail16[10] = {Half("c", 4, 0)} \cup Pair("b", 2) \cup Pair("a", 0)
    BY DEF Tail16
  <2>2. Takes({Half("c", 4, 0)} \cup Pair("b", 2) \cup Pair("a", 0), 10, 10)
    BY DEF Takes, InRegister, Keeps, Block16, Byte, Half, Pair, Add
  <2> QED
    BY <2>1, <2>2
<1>11. Takes(Tail16[11], 11, 11)
  <2>1. Tail16[11] = {Byte("c", 10, 16), Half("c", 4, 0)} \cup Pair("b", 2) \cup Pair("a", 0)
    BY DEF Tail16
  <2>2. Takes({Byte("c", 10, 16), Half("c", 4, 0)} \cup Pair("b", 2) \cup Pair("a", 0), 11, 11)
    BY DEF Takes, InRegister, Keeps, Block16, Byte, Half, Pair, Add
  <2> QED
    BY <2>1, <2>2
<1>12. Takes(Tail16[12], 12, 12)
  <2>1. Tail16[12] = Block16
    BY DEF Tail16
  <2>2. Takes(Block16, 12, 12)
    BY DEF Takes, InRegister, Keeps, Block16, Byte, Half, Pair, Add
  <2> QED
    BY <2>1, <2>2
<1> QED
  BY <1>1, <1>2, <1>3, <1>4, <1>5, <1>6, <1>7, <1>8, <1>9, <1>10, <1>11, <1>12

\* The switch for other keys.
LEMMA Tail8Takes ==
  \A n \in 1..12 : Takes(Tail8[n], n, n)
<1>1. \A i \in 1..12 : /\ InRegister(Case8[i])
                       /\ Case8[i].from = i - 1 /\ Case8[i].kept = 1 /\ Case8[i].size = 1
  BY DEF Case8, InRegister, Byte, Add
<1> SUFFICES ASSUME NEW n \in 1..12 PROVE Takes(Tail8[n], n, n)
  OBVIOUS
<1>2. Tail8[n] = {Case8[i] : i \in 1..n}
  BY DEF Tail8
<1>3. \A x \in Tail8[n] : \E i \in 1..n : x = Case8[i]
  BY <1>2
<1>4. \A x \in Tail8[n] : InRegister(x) /\ x.from + x.size <= n /\ x.from + x.kept <= n
  BY <1>1, <1>3
<1>5. ASSUME NEW i \in 0..(n - 1) PROVE \E x \in Tail8[n] : Keeps(x, i)
  <2>1. i + 1 \in 1..n /\ i + 1 \in 1..12
    OBVIOUS
  <2>2. Case8[i + 1] \in Tail8[n]
    BY <1>2, <2>1
  <2>3. Keeps(Case8[i + 1], i)
    BY <1>1, <2>1 DEF Keeps
  <2> QED
    BY <2>2, <2>3
<1> QED
  BY <1>4, <1>5 DEF Takes

\* How far the additions for n bytes read in a branch.
Reach(branch, n) == IF branch = 32 THEN 4 * ((n + 3) \div 4) ELSE n

\* In every branch a case of the switch takes its bytes, and the loop a block.
LEMMA BranchTakes ==
  ASSUME NEW branch \in {8, 16, 32}
  PROVE  /\ \A n \in 1..12 : Takes(TailAdds[branch][n], n, Reach(branch, n))
         /\ Takes(BlockAdds[branch], 12, 12)
<1>1. TailAdds[branch] = IF branch = 32 THEN Tail32 ELSE IF branch = 16 THEN Tail16 ELSE Tail8
  BY DEF TailAdds
<1>2. \A n \in 1..12 : Takes(TailAdds[branch][n], n, Reach(branch, n))
  <2>1. CASE branch = 32
    BY <1>1, <2>1, Tail32Takes DEF Reach
  <2>2. CASE branch = 16
    BY <1>1, <2>2, Tail16Takes DEF Reach
  <2>3. CASE branch = 8
    BY <1>1, <2>3, Tail8Takes DEF Reach
  <2> QED
    BY <2>1, <2>2, <2>3
<1>3. Block32 = Tail32[12] /\ Block16 = Tail16[12] /\ Block8 = Tail8[12]
  <2>1. Block32 = Tail32[12]
    <3>1. Tail32[12] = {Word("c", 2), Word("b", 1), Word("a", 0)}
      BY DEF Tail32
    <3> QED
      BY <3>1 DEF Block32
  <2>2. Block16 = Tail16[12]
    BY DEF Tail16
  <2> QED
    BY <2>1, <2>2 DEF Block8
<1>4. BlockAdds[branch] = TailAdds[branch][12]
  <2>1. BlockAdds[branch] = IF branch = 32 THEN Block32 ELSE IF branch = 16 THEN Block16 ELSE Block8
    BY DEF BlockAdds
  <2> QED
    BY <1>1, <1>3, <2>1
<1>5. Reach(branch, 12) = 12
  BY DEF Reach
<1> QED
  BY <1>2, <1>4, <1>5

-----------------------------------------------------------------------------
(***************************************************************************)
(* What the additions do in a block.                                       *)
(***************************************************************************)

\* What a set of additions adds in block b, and what it touches.
Added(adds, b) ==
  UNION {{<<12 * b + x.from + j, b, x.reg, x.bit + 8 * j>> : j \in 0..(x.kept - 1)} : x \in adds}

Touched(adds, b) ==
  UNION {{12 * b + x.from + j : j \in 0..(x.size - 1)} : x \in adds}

\* The place of a byte, from its number in its block.
LEMMA PlaceInBlock ==
  ASSUME NEW b \in Nat, NEW i \in 0..11
  PROVE  Place(12 * b + i) =
           <<12 * b + i, b, IF i < 4 THEN "a" ELSE IF i < 8 THEN "b" ELSE "c",
             8 * (IF i < 4 THEN i ELSE IF i < 8 THEN i - 4 ELSE i - 8)>>
<1>1. (12 * b + i) \div 12 = b /\ (12 * b + i) % 12 = i
  OBVIOUS
<1>2. (12 * b + i) % 4 = IF i < 4 THEN i ELSE IF i < 8 THEN i - 4 ELSE i - 8
  OBVIOUS
<1> QED
  BY <1>1, <1>2 DEF Place

\* Each byte that an addition keeps goes to its place.
LEMMA KeptInPlace ==
  ASSUME NEW b \in Nat, NEW x, InRegister(x), NEW j \in 0..(x.kept - 1)
  PROVE  <<12 * b + x.from + j, b, x.reg, x.bit + 8 * j>> = Place(12 * b + (x.from + j))
<1> DEFINE i == x.from + j
<1>1. x.from \in 0..11 /\ x.kept \in 1..4
  BY DEF InRegister
<1>2. i \in 0..11 /\ 12 * b + x.from + j = 12 * b + i
  BY <1>1 DEF InRegister
<1>3. x.reg = IF i < 4 THEN "a" ELSE IF i < 8 THEN "b" ELSE "c"
  BY <1>1 DEF InRegister
<1>4. x.bit + 8 * j = 8 * (IF i < 4 THEN i ELSE IF i < 8 THEN i - 4 ELSE i - 8)
  BY <1>1 DEF InRegister
<1>5. Place(12 * b + i) =
        <<12 * b + i, b, IF i < 4 THEN "a" ELSE IF i < 8 THEN "b" ELSE "c",
          8 * (IF i < 4 THEN i ELSE IF i < 8 THEN i - 4 ELSE i - 8)>>
  BY <1>2, PlaceInBlock
<1> HIDE DEF i
<1>6. <<12 * b + x.from + j, b, x.reg, x.bit + 8 * j>> = Place(12 * b + i)
  BY <1>2, <1>3, <1>4, <1>5
<1> QED
  BY <1>6 DEF i

\* So the additions for n bytes put these, and no others, in their places.
LEMMA TakenInPlace ==
  ASSUME NEW b \in Nat, NEW adds, NEW n \in 0..12, NEW m, Takes(adds, n, m)
  PROVE  Added(adds, b) = {Place(12 * b + i) : i \in 0..(n - 1)}
<1>1. ASSUME NEW x \in adds, NEW j \in 0..(x.kept - 1)
      PROVE  /\ x.from + j \in 0..(n - 1)
             /\ <<12 * b + x.from + j, b, x.reg, x.bit + 8 * j>> = Place(12 * b + (x.from + j))
  <2>1. InRegister(x) /\ x.from + x.kept <= n
    BY DEF Takes
  <2>2. x.from + j \in 0..(n - 1)
    BY <2>1 DEF InRegister
  <2> QED
    BY <2>1, <2>2, KeptInPlace
<1>2. ASSUME NEW i \in 0..(n - 1)
      PROVE  Place(12 * b + i) \in Added(adds, b)
  <2>1. PICK x \in adds : Keeps(x, i)
    BY DEF Takes
  <2>2. x.from \in 0..11 /\ x.kept \in 1..4
    BY DEF Takes, InRegister
  <2>3. i - x.from \in 0..(x.kept - 1) /\ x.from + (i - x.from) = i
    BY <2>1, <2>2 DEF Keeps
  <2>4. Place(12 * b + i) =
          <<12 * b + x.from + (i - x.from), b, x.reg, x.bit + 8 * (i - x.from)>>
    BY <1>1, <2>3
  <2> QED
    BY <2>3, <2>4 DEF Added
<1>3. ASSUME NEW y \in Added(adds, b)
      PROVE  y \in {Place(12 * b + i) : i \in 0..(n - 1)}
  <2>1. PICK x \in adds : y \in {<<12 * b + x.from + j, b, x.reg, x.bit + 8 * j>> : j \in 0..(x.kept - 1)}
    BY DEF Added
  <2>2. PICK j \in 0..(x.kept - 1) : y = <<12 * b + x.from + j, b, x.reg, x.bit + 8 * j>>
    BY <2>1
  <2> QED
    BY <1>1, <2>2
<1> QED
  BY <1>2, <1>3

\* And they touch nothing of the block from byte m on.
LEMMA TouchedBelow ==
  ASSUME NEW b \in Nat, NEW adds, NEW n, NEW m \in Nat, Takes(adds, n, m)
  PROVE  \A i \in Touched(adds, b) : i \in Nat /\ 12 * b <= i /\ i < 12 * b + m
<1> SUFFICES ASSUME NEW i \in Touched(adds, b)
             PROVE  i \in Nat /\ 12 * b <= i /\ i < 12 * b + m
  OBVIOUS
<1>1. PICK x \in adds : i \in {12 * b + x.from + j : j \in 0..(x.size - 1)}
  BY DEF Touched
<1>2. PICK j \in 0..(x.size - 1) : i = 12 * b + x.from + j
  BY <1>1
<1>3. x.from \in 0..11 /\ x.size \in 1..4 /\ x.from + x.size <= m
  BY DEF Takes, InRegister
<1> QED
  BY <1>2, <1>3

-----------------------------------------------------------------------------
(***************************************************************************)
(* The loop and the switch.                                                *)
(***************************************************************************)

\* The bytes before byte n, in their places.
Places(n) == {Place(i) : i \in 0..(n - 1)}

\* Once begun, the loop leaves at least one byte for the switch.
Position ==
  /\ align \in 0..3 /\ key \in 0..MaxLength
  /\ length \in Nat /\ block \in Nat
  /\ key = 12 * block + length
  /\ length = 0 => key = 0
  /\ result \in {"none", "c", "final"}
  /\ result = "c" => key = 0

\* What has been added is the blocks before the present one, or the whole key.
Progress ==
  /\ result = "none" => added = Places(12 * block)
  /\ result # "none" => added = Places(key)

Overread ==
  \A i \in read : i \in Nat /\ (i >= key => (align + i) \div 4 = (align + key - 1) \div 4)

HashInv == Position /\ Progress /\ Overread

\* Bytes of a block come behind those of the blocks before it.
LEMMA PlacesMore ==
  ASSUME NEW b \in Nat, NEW n \in 0..12
  PROVE  Places(12 * b) \cup {Place(12 * b + i) : i \in 0..(n - 1)} = Places(12 * b + n)
<1>1. ASSUME NEW k \in 0..(12 * b + n - 1), ~(k < 12 * b)
      PROVE  k - 12 * b \in 0..(n - 1) /\ 12 * b + (k - 12 * b) = k
  BY <1>1
<1>2. ASSUME NEW k \in 0..(12 * b + n - 1)
      PROVE  Place(k) \in Places(12 * b) \cup {Place(12 * b + i) : i \in 0..(n - 1)}
  <2>1. CASE k < 12 * b
    <3>1. k \in 0..(12 * b - 1)
      BY <2>1
    <3> QED
      BY <3>1 DEF Places
  <2>2. CASE ~(k < 12 * b)
    BY <1>1, <2>2
  <2> QED
    BY <2>1, <2>2
<1>3. ASSUME NEW i \in 0..(n - 1) PROVE Place(12 * b + i) \in Places(12 * b + n)
  <2>1. 12 * b + i \in 0..(12 * b + n - 1)
    OBVIOUS
  <2> QED
    BY <2>1 DEF Places
<1>4. ASSUME NEW k \in 0..(12 * b - 1) PROVE Place(k) \in Places(12 * b + n)
  <2>1. k \in 0..(12 * b + n - 1)
    OBVIOUS
  <2> QED
    BY <2>1 DEF Places
<1>5. Places(12 * b + n) \subseteq Places(12 * b) \cup {Place(12 * b + i) : i \in 0..(n - 1)}
  BY <1>2 DEF Places
<1>6. Places(12 * b) \subseteq Places(12 * b + n)
  BY <1>4 DEF Places
<1>7. {Place(12 * b + i) : i \in 0..(n - 1)} \subseteq Places(12 * b + n)
  BY <1>3
<1> QED
  BY <1>5, <1>6, <1>7

\* What a turn of the loop, or the switch, adds and touches.
LEMMA Applied ==
  ASSUME NEW adds, Apply(adds), block \in Nat, NEW n \in 0..12, NEW m \in Nat,
         Takes(adds, n, m), added = Places(12 * block)
  PROVE  /\ added' = Places(12 * block + n)
         /\ \A i \in read' : i \in read \/ (i \in Nat /\ i < 12 * block + m)
<1>1. added' = added \cup Added(adds, block) /\ read' = read \cup Touched(adds, block)
  BY DEF Apply, Added, Touched
<1>2. Added(adds, block) = {Place(12 * block + i) : i \in 0..(n - 1)}
  BY TakenInPlace
<1>3. added' = Places(12 * block + n)
  BY <1>1, <1>2, PlacesMore
<1>4. \A i \in Touched(adds, block) : i \in Nat /\ i < 12 * block + m
  BY TouchedBelow
<1> QED
  BY <1>1, <1>3, <1>4

LEMMA InitHash == HashInit => HashInv
<1> SUFFICES ASSUME HashInit PROVE HashInv
  OBVIOUS
<1>1. Position
  BY MaxLengthAssumption DEF HashInit, Position
<1>2. Places(12 * block) = {}
  BY DEF HashInit, Places
<1>3. Progress
  BY <1>2 DEF HashInit, Progress
<1>4. Overread
  BY DEF HashInit, Overread
<1> QED
  BY <1>1, <1>3, <1>4 DEF HashInv

LEMMA BlockKeeps == HashInv /\ Block => HashInv'
<1> SUFFICES ASSUME HashInv, Block PROVE HashInv'
  OBVIOUS
<1> USE DEF HashInv
<1>0. Branch \in {8, 16, 32}
  BY DEF Branch
<1>1. Takes(BlockAdds[Branch], 12, 12)
  BY <1>0, BranchTakes
<1>2. added = Places(12 * block)
  BY DEF Block, Progress
<1>3. block \in Nat /\ Apply(BlockAdds[Branch])
  BY DEF Block, Position
<1>4. /\ added' = Places(12 * block + 12)
      /\ \A i \in read' : i \in read \/ (i \in Nat /\ i < 12 * block + 12)
  <2> DEFINE adds == BlockAdds[Branch]
  <2> HIDE DEF adds
  <2>1. Apply(adds) /\ Takes(adds, 12, 12)
    BY <1>1, <1>3 DEF adds
  <2> QED
    BY <1>2, <1>3, <2>1, Applied
<1>5. Position'
  BY DEF Block, Position
<1>6. 12 * block + 12 = 12 * block' /\ result' = "none"
  BY <1>3 DEF Block
<1>7. Progress'
  <2>1. added' = Places(12 * block')
    BY <1>4, <1>6
  <2>2. Progress' = (/\ result' = "none" => added' = Places(12 * block')
                     /\ result' # "none" => added' = Places(key'))
    BY DEF Progress, Places
  <2> QED
    BY <1>6, <2>1, <2>2
<1>8. Overread'
  <2>1. \A i \in read' : i \in read \/ (i \in Nat /\ i < key)
    BY <1>3, <1>4 DEF Block, Position
  <2>2. key' = key /\ align' = align /\ key \in Nat
    BY MaxLengthAssumption DEF Block, Position
  <2> QED
    BY <2>1, <2>2 DEF Overread
<1> QED
  BY <1>5, <1>7, <1>8

LEMMA TailKeeps == HashInv /\ LastBlock => HashInv'
<1> SUFFICES ASSUME HashInv, LastBlock PROVE HashInv'
  OBVIOUS
<1> USE DEF HashInv
<1>0. Branch \in {8, 16, 32} /\ length \in 1..12 /\ (Branch = 32 <=> align = 0)
  BY DEF Branch, LastBlock
<1>1. Takes(TailAdds[Branch][length], length, Reach(Branch, length))
  BY <1>0, BranchTakes
<1>2. added = Places(12 * block)
  BY DEF LastBlock, Progress
<1>3. block \in Nat /\ Apply(TailAdds[Branch][length]) /\ key = 12 * block + length
  BY DEF LastBlock, Position
<1>4. /\ added' = Places(12 * block + length)
      /\ \A i \in read' : i \in read \/ (i \in Nat /\ i < 12 * block + Reach(Branch, length))
  <2> DEFINE adds == TailAdds[Branch][length]
             m == Reach(Branch, length)
  <2>1. m \in Nat
    BY <1>0 DEF Reach
  <2> HIDE DEF adds, m
  <2>2. Apply(adds) /\ Takes(adds, length, m)
    BY <1>1, <1>3 DEF adds, m
  <2>3. length \in 0..12
    BY <1>0
  <2>4. /\ added' = Places(12 * block + length)
        /\ \A i \in read' : i \in read \/ (i \in Nat /\ i < 12 * block + m)
    BY <1>2, <1>3, <2>1, <2>2, <2>3, Applied
  <2> QED
    BY <2>4 DEF m
<1>5. Position'
  BY DEF LastBlock, Position
<1>6. Progress'
  <2>1. added' = Places(key') /\ result' # "none"
    BY <1>3, <1>4 DEF LastBlock
  <2>2. Progress' = (/\ result' = "none" => added' = Places(12 * block')
                     /\ result' # "none" => added' = Places(key'))
    BY DEF Progress, Places
  <2> QED
    BY <2>1, <2>2
<1>7. Overread'
  <2>1. key' = key /\ align' = align /\ key \in Nat /\ align \in 0..3
    BY MaxLengthAssumption DEF LastBlock, Position
  <2>2. ASSUME NEW i \in Nat, i < 12 * block + Reach(Branch, length), i >= key
        PROVE  (align + i) \div 4 = (align + key - 1) \div 4
    <3>1. Branch = 32 /\ align = 0
      BY <1>0, <1>3, <2>2 DEF Reach
    <3>2. i < 12 * block + 4 * ((length + 3) \div 4)
      BY <2>2, <3>1 DEF Reach
    <3>3. i \div 4 = (12 * block + length - 1) \div 4
      BY <1>0, <1>3, <2>2, <3>2
    <3>4. align + i = i /\ align + key - 1 = 12 * block + length - 1
      BY <1>0, <1>3, <3>1
    <3> QED
      BY <3>3, <3>4
  <2>3. \A i \in read' : i \in read \/ (i \in Nat /\ i < 12 * block + Reach(Branch, length))
    BY <1>4
  <2> QED
    BY <2>1, <2>2, <2>3 DEF Overread
<1> QED
  BY <1>5, <1>6, <1>7

LEMMA EmptyKeeps == HashInv /\ Empty => HashInv'
<1> SUFFICES ASSUME HashInv, Empty PROVE HashInv'
  OBVIOUS
<1> USE DEF HashInv
<1>1. Position'
  BY DEF Empty, Position
<1>2. key = 12 * block
  BY DEF Empty, Position
<1>3. added' = Places(key') /\ result' # "none"
  BY <1>2 DEF Empty, Progress
<1>4. Progress'
  <2>1. Progress' = (/\ result' = "none" => added' = Places(12 * block')
                     /\ result' # "none" => added' = Places(key'))
    BY DEF Progress, Places
  <2> QED
    BY <1>3, <2>1
<1>5. Overread'
  BY DEF Empty, Overread
<1> QED
  BY <1>1, <1>4, <1>5

\* The invariant of the loop: the key is the blocks mixed and what is left,
\* and what has been added is the bytes of these blocks in their places.
THEOREM HashInvariant == HashSpec => []HashInv
<1>1. HashInv /\ UNCHANGED hashVars => HashInv'
  BY DEF hashVars, HashInv, Position, Progress, Places, Overread
<1>2. HashInv /\ [HashNext]_hashVars => HashInv'
  BY <1>1, BlockKeeps, TailKeeps, EmptyKeeps DEF HashNext, Returned
<1> QED
  BY InitHash, <1>2, PTL DEF HashSpec

\* Whatever the length and the alignment of the key, each of its bytes is
\* added in its place, and nothing else is.
THEOREM BytesInPlace == HashSpec => []EveryByteInPlace
<1>1. HashInv => EveryByteInPlace
  BY DEF HashInv, Progress, Places, EveryByteInPlace
<1> QED
  BY <1>1, HashInvariant, PTL

\* No key but the empty one is returned without final.
THEOREM LastBlockMixed == HashSpec => []MixedAtTheEnd
<1>1. HashInv => MixedAtTheEnd
  BY DEF HashInv, Position, MixedAtTheEnd
<1> QED
  BY <1>1, HashInvariant, PTL

\* Reading past the end of the key stays in the aligned word it ends in.
THEOREM ReadsInWord == HashSpec => []OverreadInWord
<1>1. HashInv => OverreadInWord
  BY DEF HashInv, Overread, OverreadInWord
<1> QED
  BY <1>1, HashInvariant, PTL
=============================================================================
