--------------------------- MODULE ProdConProofs ---------------------------
(***************************************************************************)
(* Proofs about ProdCon: the ring and the stack are bounded buffers, for   *)
(* any number of threads on either side, slots and turns.                  *)
(***************************************************************************)
EXTENDS ProdCon, FiniteSetTheorems, SequenceTheorems, TLAPS

-----------------------------------------------------------------------------
(* The inductive invariant.                                                *)

\* The control points of each program.
Points ==
  IF design = "conditions" THEN {"start", "test", "retest", "waiting", "woken", "done"}
  ELSE {"start", "lock", "item", "unlock", "post", "done"}

ProdConTypeOK ==
  /\ design \in {"conditions", "semaphores"}
  /\ running \subseteq Producers \cup Consumers
  /\ pc \in [running -> Points] /\ turn \in [running -> Nat]
  /\ count \in 0..MAX /\ fill_ptr \in 0..(MAX - 1) /\ use_ptr \in 0..(MAX - 1)
  /\ DOMAIN buffer = 0..(MAX - 1)
  /\ empty \in Nat /\ full \in Nat
  /\ taken \in Seq(Item)

\* The slot of the k-th item inside.
Slot(k) == IF design = "conditions" THEN (use_ptr + k) % MAX ELSE k

Taken == {taken[i] : i \in DOMAIN taken}

\* The ring is filled from the one pointer up to the other.
RingFilled == design = "conditions" => fill_ptr = Slot(count)

\* No item is in two slots, or in a slot and taken.
Apart ==
  /\ \A k, l \in 0..(count - 1) : buffer[Slot(k)] = buffer[Slot(l)] => k = l
  /\ \A k \in 0..(count - 1) : buffer[Slot(k)] \notin Taken

\* The items that have been stored are of turns that are over, or in which the
\* producer has only to leave.
OfTurns ==
  /\ \A x \in Inside \cup Taken :
       /\ x \in Item /\ x[1] \in running
       /\ x[2] < turn[x[1]] \/ (x[2] = turn[x[1]] /\ pc[x[1]] \in {"unlock", "post"})
  /\ \A t \in running \cap Producers : pc[t] # "done" => turn[t] < loops

ProdConInv == ProdConTypeOK /\ RingFilled /\ Apart /\ OfTurns /\ SlotsAccounted

-----------------------------------------------------------------------------
(* Slots.                                                                  *)

\* Below twice the size of the ring a remainder takes the size off once.
LEMMA Remainder ==
  ASSUME NEW a \in Nat, a < 2 * MAX
  PROVE  a % MAX = IF a < MAX THEN a ELSE a - MAX
<1>0. MAX \in Nat \ {0}
  BY ProdConAssumption
<1>1. CASE a < MAX
  BY <1>0, <1>1
<1>2. CASE a >= MAX
  BY <1>0, <1>2
<1> QED
  BY <1>0, <1>1, <1>2

\* Fewer items than slots take different slots, none of them the next one to
\* be filled.
LEMMA SlotsDiffer ==
  ASSUME ProdConTypeOK
  PROVE  /\ \A k \in 0..(MAX - 1) : Slot(k) \in 0..(MAX - 1)
         /\ \A k, l \in 0..(MAX - 1) : Slot(k) = Slot(l) => k = l
<1>1. MAX \in Nat \ {0} /\ use_ptr \in 0..(MAX - 1)
  BY ProdConAssumption DEF ProdConTypeOK
<1>2. \A k \in 0..(MAX - 1) :
        (use_ptr + k) % MAX = IF use_ptr + k < MAX THEN use_ptr + k ELSE (use_ptr + k) - MAX
  <2> SUFFICES ASSUME NEW k \in 0..(MAX - 1)
               PROVE  (use_ptr + k) % MAX
                        = IF use_ptr + k < MAX THEN use_ptr + k ELSE (use_ptr + k) - MAX
    OBVIOUS
  <2>1. use_ptr + k \in Nat /\ use_ptr + k < 2 * MAX
    BY <1>1
  <2> QED
    BY <2>1, Remainder, Zenon
<1>3. CASE design = "conditions"
  <2>1. \A k \in 0..(MAX - 1) :
          Slot(k) = IF use_ptr + k < MAX THEN use_ptr + k ELSE (use_ptr + k) - MAX
    BY <1>2, <1>3 DEF Slot
  <2> QED
    BY <1>1, <2>1
<1>4. CASE design # "conditions"
  BY <1>4 DEF Slot
<1> QED
  BY <1>3, <1>4

\* What is inside is what the slots hold.
LEMMA InsideSlots ==
  ASSUME ProdConTypeOK
  PROVE  /\ Inside = {buffer[Slot(k)] : k \in 0..(count - 1)}
         /\ IsFiniteSet(Inside) /\ Cardinality(Inside) <= count
<1>1. Inside = {buffer[Slot(k)] : k \in 0..(count - 1)}
  BY DEF Inside, Slot
<1> DEFINE f == [k \in 0..(count - 1) |-> buffer[Slot(k)]]
<1>2. count \in Nat /\ count - 1 \in Int
  BY ProdConAssumption DEF ProdConTypeOK
<1>3. IsFiniteSet(0..(count - 1)) /\ Cardinality(0..(count - 1)) = count
  <2>1. 0 \in Int
    OBVIOUS
  <2>2. /\ IsFiniteSet(0..(count - 1))
        /\ Cardinality(0..(count - 1)) = IF 0 > count - 1 THEN 0 ELSE (count - 1) - 0 + 1
    BY <1>2, <2>1, FS_Interval
  <2> QED
    BY <1>2, <2>2
<1>4. f \in Surjection(0..(count - 1), Inside)
  BY <1>1 DEF Surjection
<1>5. IsFiniteSet(Inside) /\ Cardinality(Inside) <= Cardinality(0..(count - 1))
  BY <1>3, <1>4, FS_Surjection
<1> QED
  BY <1>1, <1>3, <1>5

-----------------------------------------------------------------------------
(* Storing and taking.                                                     *)

\* An item goes into the next free slot, and has never been stored before.
LEMMA StoreEnters ==
  ASSUME ProdConTypeOK, Apart, OfTurns, NEW t \in running \cap Producers, count < MAX,
         pc[t] \in {"test", "retest", "item"},
         buffer' = [buffer EXCEPT ![Slot(count)] = <<t, turn[t]>>],
         count' = count + 1, UNCHANGED <<design, use_ptr, taken>>
  PROVE  /\ Apart' /\ Taken' = Taken
         /\ <<t, turn[t]>> \in Item \ (Inside \cup Taken)
         /\ Inside' = Inside \cup {<<t, turn[t]>>}
<1> DEFINE item == <<t, turn[t]>>
<1>1. /\ MAX \in Nat \ {0} /\ count \in 0..(MAX - 1) /\ turn[t] \in Nat
  BY ProdConAssumption DEF ProdConTypeOK
<1>2. item \in Item
  <2>1. turn[t] < loops
    BY DEF OfTurns
  <2> QED
    BY <1>1, <2>1, ProdConAssumption DEF Item
<1>3. item \notin Inside \cup Taken
  <2>1. item[1] = t /\ item[2] = turn[t]
    OBVIOUS
  <2> QED
    BY <1>1, <2>1 DEF OfTurns
<1> HIDE DEF item
<1>4. Taken' = Taken
  BY DEF Taken
<1>5. \A k : Slot(k)' = Slot(k)
  BY DEF Slot
<1>6. \A k \in 0..count : buffer'[Slot(k)] = IF k = count THEN item ELSE buffer[Slot(k)]
  <2>1. \A k \in 0..count : k \in 0..(MAX - 1)
    BY <1>1
  <2>2. \A k \in 0..count : Slot(k) \in DOMAIN buffer /\ (Slot(k) = Slot(count) => k = count)
    BY <1>1, <2>1, SlotsDiffer DEF ProdConTypeOK
  <2> QED
    BY <2>2 DEF item
<1>7. 0..(count' - 1) = (0..(count - 1)) \cup {count} /\ 0..(count' - 1) = 0..count
  BY <1>1
<1>8. Inside = {buffer[Slot(k)] : k \in 0..(count - 1)}
      /\ Inside' = {buffer'[Slot(k)] : k \in 0..(count' - 1)}
  <2>1. Inside' = {buffer'[Slot(k)'] : k \in 0..(count' - 1)}
    BY DEF Inside, Slot
  <2> QED
    BY <1>5, <2>1, InsideSlots
<1>9. Inside' = Inside \cup {item}
  <2>1. \A k \in 0..(count - 1) : k \in 0..count /\ k # count
    BY <1>1
  <2>2. count \in 0..count
    BY <1>1
  <2>3. {buffer'[Slot(k)] : k \in 0..(count' - 1)}
          = {buffer'[Slot(k)] : k \in 0..(count - 1)} \cup {buffer'[Slot(count)]}
    BY <1>7
  <2>4. \A k \in 0..(count - 1) : buffer'[Slot(k)] = buffer[Slot(k)]
    BY <1>6, <2>1
  <2>5. {buffer'[Slot(k)] : k \in 0..(count - 1)} = {buffer[Slot(k)] : k \in 0..(count - 1)}
    BY <2>4
  <2> QED
    BY <1>6, <1>8, <2>2, <2>3, <2>5
<1>10. Apart'
  <2>1. \A k \in 0..count : k = count \/ k \in 0..(count - 1)
    BY <1>1
  <2>2. \A k \in 0..(count - 1) : buffer[Slot(k)] # item
    BY <1>3, <1>8
  <2>3. \A k, l \in 0..count : buffer'[Slot(k)] = buffer'[Slot(l)] => k = l
    BY <1>6, <2>1, <2>2 DEF Apart
  <2>4. \A k \in 0..count : buffer'[Slot(k)] \notin Taken
    BY <1>3, <1>6, <2>1 DEF Apart
  <2>5. /\ \A k, l \in 0..(count' - 1) : buffer'[Slot(k)'] = buffer'[Slot(l)'] => k = l
        /\ \A k \in 0..(count' - 1) : buffer'[Slot(k)'] \notin Taken'
    BY <1>4, <1>5, <1>7, <2>3, <2>4
  <2> QED
    BY <2>5 DEF Apart
<1> QED
  BY <1>2, <1>3, <1>4, <1>9, <1>10 DEF item

\* The first slot (d = 1) or the last (d = 0) is emptied.
LEMMA TakeLeaves ==
  ASSUME ProdConTypeOK, Apart, OfTurns, count > 0, NEW d \in {0, 1}, NEW x,
         x = buffer[Slot(IF d = 1 THEN 0 ELSE count - 1)],
         taken' = Append(taken, x), count' = count - 1, UNCHANGED buffer,
         \A k \in 0..(count - 2) : Slot(k)' = Slot(k + d)
  PROVE  /\ Apart' /\ taken' \in Seq(Item) /\ Taken' = Taken \cup {x}
         /\ x \in Inside /\ Inside' = Inside \ {x}
<1> DEFINE j == IF d = 1 THEN 0 ELSE count - 1
<1>1. /\ MAX \in Nat \ {0} /\ count \in 1..MAX /\ j \in 0..(count - 1)
      /\ x = buffer[Slot(j)]
      /\ \A k \in 0..(count - 2) : k + d \in 0..(count - 1) /\ k + d # j
      /\ \A k \in 0..(count - 1) : k = j \/ k - d \in 0..(count - 2)
      /\ count' - 1 = count - 2
  BY ProdConAssumption DEF ProdConTypeOK
<1> HIDE DEF j
<1>2. Inside = {buffer[Slot(k)] : k \in 0..(count - 1)}
  BY InsideSlots
<1>3. Inside' = {buffer[Slot(k + d)] : k \in 0..(count - 2)}
  <2>1. Inside' = {buffer'[Slot(k)'] : k \in 0..(count' - 1)}
    BY DEF Inside, Slot
  <2> QED
    BY <1>1, <2>1
<1>4. x \in Inside /\ x \in Item
  BY <1>1, <1>2 DEF OfTurns
<1>5. Taken' = Taken \cup {x} /\ taken' \in Seq(Item)
  <2>1. /\ taken' \in Seq(Item) /\ Len(taken') = Len(taken) + 1
        /\ taken'[Len(taken) + 1] = x
        /\ \A i \in 1..Len(taken) : taken'[i] = taken[i]
    BY <1>4, AppendProperties DEF ProdConTypeOK
  <2>2. /\ Len(taken) \in Nat /\ DOMAIN taken = 1..Len(taken)
        /\ DOMAIN taken' = 1..(Len(taken) + 1)
    BY <2>1, LenProperties DEF ProdConTypeOK
  <2>3. 1..(Len(taken) + 1) = (1..Len(taken)) \cup {Len(taken) + 1}
    BY <2>2
  <2> QED
    BY <2>1, <2>2, <2>3 DEF Taken
<1>6. \A k, l \in 0..(count - 1) : buffer[Slot(k)] = buffer[Slot(l)] => k = l
  BY DEF Apart
<1>7. Inside' = Inside \ {x}
  <2>1. \A k \in 0..(count - 2) : buffer[Slot(k + d)] \in Inside \ {x}
    BY <1>1, <1>2, <1>6
  <2>2. ASSUME NEW y \in Inside, y # x
        PROVE  y \in Inside'
    <3>1. PICK k \in 0..(count - 1) : y = buffer[Slot(k)]
      BY <1>2
    <3>2. k # j
      BY <1>1, <2>2, <3>1
    <3>3. k - d \in 0..(count - 2)
      BY <1>1, <3>2
    <3>4. (k - d) + d = k
      BY <3>1
    <3>5. y = buffer[Slot((k - d) + d)]
      BY <3>1, <3>4
    <3> QED
      BY <1>3, <3>3, <3>5
  <2> QED
    BY <1>3, <2>1, <2>2
<1>8. Apart'
  <2>1. \A k \in 0..(count - 2) : buffer'[Slot(k)'] = buffer[Slot(k + d)]
    OBVIOUS
  <2>2. ASSUME NEW k \in 0..(count - 2), NEW l \in 0..(count - 2),
               buffer'[Slot(k)'] = buffer'[Slot(l)']
        PROVE  k = l
    <3>1. k + d = l + d
      BY <1>1, <1>6, <2>1, <2>2
    <3> QED
      BY <3>1
  <2>3. \A k \in 0..(count - 2) : buffer'[Slot(k)'] \notin Taken'
    <3>1. \A k \in 0..(count - 2) : buffer[Slot(k + d)] \in Inside'
      BY <1>3
    <3>2. \A k \in 0..(count - 2) : buffer[Slot(k + d)] \notin Taken
      BY <1>1 DEF Apart
    <3> QED
      BY <1>5, <1>7, <2>1, <3>1, <3>2
  <2> QED
    BY <1>1, <2>2, <2>3 DEF Apart
<1> QED
  BY <1>4, <1>5, <1>7, <1>8

\* A step as BoundedBuffer allows.
BoundedStep == [Bounded!Enter \/ Bounded!Leave]_<<Inside, {taken[i] : i \in DOMAIN taken}>>

\* What a step leaves alone that changes none of the data.
LEMMA DataKept ==
  ASSUME ProdConTypeOK, RingFilled, Apart, UNCHANGED <<design, dataVars>>
  PROVE  RingFilled' /\ Apart' /\ UNCHANGED <<Inside, Taken>> /\ BoundedStep
<1>1. \A k : Slot(k)' = Slot(k)
  BY DEF Slot, dataVars, ringVars
<1>2. UNCHANGED <<Inside, Taken>>
  BY DEF Inside, Taken, dataVars, ringVars, historyVars
<1>3. RingFilled'
  BY DEF RingFilled, Slot, dataVars, ringVars
<1>4. Apart'
  <2>1. /\ \A k, l \in 0..(count' - 1) : buffer'[Slot(k)'] = buffer'[Slot(l)'] => k = l
        /\ \A k \in 0..(count' - 1) : buffer'[Slot(k)'] \notin Taken'
    BY <1>1, <1>2 DEF Apart, dataVars
  <2> QED
    BY <2>1 DEF Apart
<1> QED
  BY <1>2, <1>3, <1>4 DEF BoundedStep, Taken

\* An item comes in: the ring, or the stack, is as it should be afterwards.
LEMMA ItemIn ==
  ASSUME ProdConInv, NEW t \in running \cap Producers, count < MAX,
         pc[t] \in {"test", "retest", "item"}, UNCHANGED design,
         \/ design = "conditions" /\ put(<<t, turn[t]>>)
         \/ design # "conditions" /\ insert_item(<<t, turn[t]>>)
  PROVE  /\ Apart' /\ RingFilled' /\ Taken' = Taken /\ BoundedStep
         /\ <<t, turn[t]>> \in Item /\ Inside' = Inside \cup {<<t, turn[t]>>}
         /\ count' = count + 1 /\ fill_ptr' \in 0..(MAX - 1) /\ DOMAIN buffer' = DOMAIN buffer
         /\ UNCHANGED <<use_ptr, taken>>
<1> USE DEF ProdConInv
<1>1. /\ MAX \in Nat \ {0} /\ count \in 0..(MAX - 1)
      /\ use_ptr \in 0..(MAX - 1) /\ fill_ptr \in 0..(MAX - 1)
  BY ProdConAssumption DEF ProdConTypeOK
<1>2. /\ buffer' = [buffer EXCEPT ![Slot(count)] = <<t, turn[t]>>]
      /\ count' = count + 1 /\ UNCHANGED <<use_ptr, taken>>
  BY DEF put, insert_item, RingFilled, Slot, ringVars
<1>3. /\ Apart' /\ Taken' = Taken
      /\ <<t, turn[t]>> \in Item \ (Inside \cup Taken)
      /\ Inside' = Inside \cup {<<t, turn[t]>>}
  BY <1>2, StoreEnters
<1>4. RingFilled' /\ fill_ptr' \in 0..(MAX - 1)
  <2>1. CASE design = "conditions"
    <3>1. fill_ptr = (use_ptr + count) % MAX /\ fill_ptr' = (fill_ptr + 1) % MAX
      BY <2>1 DEF put, RingFilled, Slot
    <3>2. /\ use_ptr + count \in Nat /\ use_ptr + count < 2 * MAX
          /\ fill_ptr + 1 \in Nat /\ fill_ptr + 1 < 2 * MAX
          /\ use_ptr + (count + 1) \in Nat /\ use_ptr + (count + 1) < 2 * MAX
      BY <1>1
    <3>3. /\ (use_ptr + count) % MAX
               = IF use_ptr + count < MAX THEN use_ptr + count ELSE (use_ptr + count) - MAX
          /\ (fill_ptr + 1) % MAX
               = IF fill_ptr + 1 < MAX THEN fill_ptr + 1 ELSE (fill_ptr + 1) - MAX
          /\ (use_ptr + (count + 1)) % MAX
               = IF use_ptr + (count + 1) < MAX THEN use_ptr + (count + 1)
                 ELSE (use_ptr + (count + 1)) - MAX
      BY <3>2, Remainder, Zenon
    <3>4. fill_ptr' = (use_ptr + (count + 1)) % MAX /\ fill_ptr' \in 0..(MAX - 1)
      BY <1>1, <3>1, <3>3
    <3> QED
      BY <1>2, <2>1, <3>4 DEF RingFilled, Slot
  <2>2. CASE design # "conditions"
    BY <1>1, <2>2 DEF RingFilled, insert_item, ringVars
  <2> QED
    BY <2>1, <2>2
<1>5. BoundedStep
  <2>1. Cardinality(Inside) < MAX
    <3>1. Cardinality(Inside) <= count /\ IsFiniteSet(Inside)
      BY InsideSlots
    <3>2. Cardinality(Inside) \in Nat
      BY <3>1, FS_CardinalityType
    <3> QED
      BY <1>1, <3>1, <3>2
  <2>2. Bounded!Enter
    <3> DEFINE x == <<t, turn[t]>>
    <3>1. x \in Item \ (Inside \cup Taken) /\ Inside' = Inside \cup {x} /\ Taken' = Taken
      BY <1>3
    <3> HIDE DEF x
    <3>2. Bounded!Cardinality(Inside) = Cardinality(Inside)
      BY DEF Bounded!Cardinality, Cardinality
    <3> QED
      BY <2>1, <3>1, <3>2 DEF Bounded!Enter, Taken
  <2> QED
    BY <2>2 DEF BoundedStep
<1> QED
  BY <1>2, <1>3, <1>4, <1>5 DEF ProdConTypeOK

\* An item goes out: from the other end of the ring, or from the top of the
\* stack.
LEMMA ItemOut ==
  ASSUME ProdConInv, count > 0, UNCHANGED design,
         \/ design = "conditions" /\ get
         \/ design # "conditions" /\ remove_item
  PROVE  /\ Apart' /\ RingFilled' /\ BoundedStep
         /\ Inside' \cup Taken' = Inside \cup Taken
         /\ count' = count - 1 /\ use_ptr' \in 0..(MAX - 1) /\ taken' \in Seq(Item)
         /\ UNCHANGED <<fill_ptr, buffer>>
<1> USE DEF ProdConInv
<1>1. /\ MAX \in Nat \ {0} /\ count \in 1..MAX
      /\ use_ptr \in 0..(MAX - 1) /\ fill_ptr \in 0..(MAX - 1)
  BY ProdConAssumption DEF ProdConTypeOK
<1>2. /\ count' = count - 1 /\ UNCHANGED <<fill_ptr, buffer>>
  BY DEF get, remove_item, ringVars
<1>3. ASSUME NEW d \in {0, 1}, NEW x,
             x = buffer[Slot(IF d = 1 THEN 0 ELSE count - 1)], taken' = Append(taken, x),
             \A k \in 0..(count - 2) : Slot(k)' = Slot(k + d)
      PROVE  /\ Apart' /\ BoundedStep /\ taken' \in Seq(Item)
             /\ Inside' \cup Taken' = Inside \cup Taken
  <2>1. /\ Apart' /\ taken' \in Seq(Item) /\ Taken' = Taken \cup {x}
        /\ x \in Inside /\ Inside' = Inside \ {x}
    BY <1>1, <1>2, <1>3, TakeLeaves
  <2>2. Bounded!Leave
    BY <2>1 DEF Bounded!Leave, Taken
  <2> QED
    BY <2>1, <2>2 DEF BoundedStep
<1>4. CASE design = "conditions"
  <2>1. use_ptr' = (use_ptr + 1) % MAX /\ taken' = Append(taken, buffer[use_ptr])
    BY <1>4 DEF get
  <2>2. use_ptr + 1 \in Nat /\ use_ptr + 1 < 2 * MAX
    BY <1>1
  <2>3. (use_ptr + 1) % MAX = IF use_ptr + 1 < MAX THEN use_ptr + 1 ELSE (use_ptr + 1) - MAX
    BY <2>2, Remainder, Zenon
  <2>4. use_ptr' \in 0..(MAX - 1)
    BY <1>1, <2>1, <2>3
  <2>5. \A k \in 0..(MAX - 1) : (use_ptr' + k) % MAX = (use_ptr + (k + 1)) % MAX
    <3> SUFFICES ASSUME NEW k \in 0..(MAX - 1)
                 PROVE  (use_ptr' + k) % MAX = (use_ptr + (k + 1)) % MAX
      OBVIOUS
    <3> DEFINE u == use_ptr'
    <3>0. u \in 0..(MAX - 1)
      BY <2>4
    <3> HIDE DEF u
    <3>a. u + k \in Nat /\ u + k < 2 * MAX
      BY <1>1, <3>0
    <3>b. use_ptr + (k + 1) \in Nat /\ use_ptr + (k + 1) < 2 * MAX
      BY <1>1
    <3>1. /\ use_ptr' + k \in Nat /\ use_ptr' + k < 2 * MAX
          /\ use_ptr + (k + 1) \in Nat /\ use_ptr + (k + 1) < 2 * MAX
      BY <3>a, <3>b DEF u
    <3>2. /\ (use_ptr' + k) % MAX
               = IF use_ptr' + k < MAX THEN use_ptr' + k ELSE (use_ptr' + k) - MAX
          /\ (use_ptr + (k + 1)) % MAX
               = IF use_ptr + (k + 1) < MAX THEN use_ptr + (k + 1)
                 ELSE (use_ptr + (k + 1)) - MAX
      BY <3>1, Remainder, Zenon
    <3> QED
      BY <1>1, <2>1, <2>3, <3>2
  <2>6. \A k \in 0..(count - 2) : Slot(k)' = Slot(k + 1)
    <3>1. \A k \in 0..(count - 2) : k \in 0..(MAX - 1)
      BY <1>1
    <3> QED
      BY <1>4, <2>5, <3>1 DEF Slot
  <2>7. Slot(0) = use_ptr
    <3>1. use_ptr + 0 = use_ptr /\ use_ptr \in Nat /\ use_ptr < 2 * MAX /\ use_ptr < MAX
      BY <1>1
    <3>2. use_ptr % MAX = use_ptr
      BY <3>1, Remainder
    <3> QED
      BY <1>4, <3>1, <3>2 DEF Slot
  <2>8. /\ Apart' /\ BoundedStep /\ taken' \in Seq(Item)
        /\ Inside' \cup Taken' = Inside \cup Taken
    <3> DEFINE x == buffer[use_ptr]
    <3>1. x = buffer[Slot(IF 1 = 1 THEN 0 ELSE count - 1)] /\ taken' = Append(taken, x)
      BY <2>1, <2>7
    <3> HIDE DEF x
    <3> QED
      BY <1>3, <2>6, <3>1
  <2>9. RingFilled'
    <3>1. /\ fill_ptr' = (use_ptr + count) % MAX
          /\ count - 1 \in 0..(MAX - 1) /\ (count - 1) + 1 = count
      BY <1>1, <1>2, <1>4 DEF RingFilled, Slot
    <3>2. fill_ptr' = (use_ptr' + (count - 1)) % MAX
      BY <2>5, <3>1
    <3> QED
      BY <1>2, <1>4, <3>2 DEF RingFilled, Slot
  <2> QED
    BY <1>2, <2>4, <2>8, <2>9
<1>5. CASE design # "conditions"
  <2>1. taken' = Append(taken, buffer[count - 1]) /\ UNCHANGED use_ptr
    BY <1>5 DEF remove_item, ringVars
  <2>2. \A k \in 0..(count - 2) : Slot(k)' = Slot(k + 0)
    BY <1>1, <1>5 DEF Slot
  <2>3. Slot(count - 1) = count - 1
    BY <1>5 DEF Slot
  <2>4. /\ Apart' /\ BoundedStep /\ taken' \in Seq(Item)
        /\ Inside' \cup Taken' = Inside \cup Taken
    <3> DEFINE x == buffer[count - 1]
    <3>1. x = buffer[Slot(IF 0 = 1 THEN 0 ELSE count - 1)] /\ taken' = Append(taken, x)
      BY <2>1, <2>3
    <3> HIDE DEF x
    <3> QED
      BY <1>3, <2>2, <3>1
  <2> QED
    BY <1>1, <1>2, <1>5, <2>1, <2>4 DEF RingFilled
<1> QED
  BY <1>4, <1>5

-----------------------------------------------------------------------------
(* The semaphores.                                                         *)

\* At, of any set of threads and any control points of theirs.
AtOf(r, q, threads, points) == Cardinality({u \in r \cap threads : q[u] \in points})

\* How many threads are at some points is changed only by the thread that
\* moves.
LEMMA AtMoves ==
  ASSUME NEW r, IsFiniteSet(r), NEW q, NEW t \in r, NEW p,
         \A u \in r \ {t} : p[u] = q[u], NEW threads, NEW points
  PROVE  /\ AtOf(r, q, threads, points) \in Nat
         /\ t \in threads /\ q[t] \notin points /\ p[t] \in points =>
              AtOf(r, p, threads, points) = AtOf(r, q, threads, points) + 1
         /\ t \in threads /\ q[t] \in points /\ p[t] \notin points =>
              AtOf(r, p, threads, points) = AtOf(r, q, threads, points) - 1
         /\ t \notin threads \/ (q[t] \in points <=> p[t] \in points) =>
              AtOf(r, p, threads, points) = AtOf(r, q, threads, points)
<1> DEFINE S == {u \in r \cap threads : q[u] \in points}
           S1 == {u \in r \cap threads : p[u] \in points}
<1>1. IsFiniteSet(S)
  BY FS_Subset
<1>2. /\ AtOf(r, q, threads, points) = Cardinality(S) /\ Cardinality(S) \in Nat
      /\ AtOf(r, p, threads, points) = Cardinality(S1)
  BY <1>1, FS_CardinalityType DEF AtOf
<1>3. CASE t \in threads /\ q[t] \notin points /\ p[t] \in points
  <2>1. S1 = S \cup {t} /\ t \notin S
    BY <1>3
  <2>2. Cardinality(S \cup {t}) = Cardinality(S) + 1
    BY <1>1, <2>1, FS_AddElement
  <2>3. Cardinality(S1) = Cardinality(S) + 1
    BY <2>1, <2>2, Zenon
  <2> QED
    BY <1>2, <1>3, <2>3
<1>4. CASE t \in threads /\ q[t] \in points /\ p[t] \notin points
  <2>1. S1 = S \ {t} /\ t \in S
    BY <1>4
  <2>2. Cardinality(S \ {t}) = Cardinality(S) - 1
    BY <1>1, <2>1, FS_RemoveElement
  <2>3. Cardinality(S1) = Cardinality(S) - 1
    BY <2>1, <2>2, Zenon
  <2> QED
    BY <1>2, <1>4, <2>3
<1>5. CASE t \notin threads \/ (q[t] \in points <=> p[t] \in points)
  <2>1. S1 = S
    BY <1>5
  <2>2. Cardinality(S1) = Cardinality(S)
    BY <2>1, Zenon
  <2> QED
    BY <1>2, <1>5, <2>2
<1> QED
  BY <1>2, <1>3, <1>4, <1>5

\* There are finitely many threads.
LEMMA ThreadsFinite == ProdConTypeOK => IsFiniteSet(running)
<1>1. IsFiniteSet(Producers \cup Consumers)
  BY ProdConAssumption, FS_Union
<1> QED
  BY <1>1, FS_Subset DEF ProdConTypeOK

\* A thread that has passed its semaphore finds room, or an item.
LEMMA SemaphoresSuffice ==
  ASSUME ProdConInv, NEW t \in running, pc[t] = "item"
  PROVE  /\ design = "semaphores"
         /\ t \in Producers => count < MAX
         /\ t \in Consumers => count > 0
<1> USE DEF ProdConInv
<1>1. design = "semaphores"
  BY DEF ProdConTypeOK, Points
<1>2. \A threads, points : At(threads, points) \in Nat
  <2>1. \A threads, points : AtOf(running, pc, threads, points) \in Nat
    BY ThreadsFinite, AtMoves DEF ProdConTypeOK
  <2> QED
    BY <2>1 DEF At, AtOf
<1>3. ASSUME NEW threads, NEW points, t \in threads, pc[t] \in points
      PROVE  At(threads, points) > 0
  <2> DEFINE S == {u \in running \cap threads : pc[u] \in points}
  <2>1. t \in S
    BY <1>3
  <2>2. IsFiniteSet(S)
    <3>1. IsFiniteSet(running)
      BY ThreadsFinite
    <3> QED
      BY <3>1, FS_Subset
  <2>3. Cardinality(S) # 0
    BY <2>1, <2>2, FS_EmptySet
  <2>4. At(threads, points) = Cardinality(S)
    BY DEF At
  <2>5. At(threads, points) \in Nat
    BY <1>2
  <2> QED
    BY <2>3, <2>4, <2>5
<1>4. SlotsAccounted /\ MAX \in Nat /\ count \in Nat /\ empty \in Nat /\ full \in Nat
  BY ProdConAssumption DEF ProdConTypeOK
<1>5. CASE t \in Producers
  <2>1. At(Producers, {"lock", "item"}) > 0
    BY <1>3, <1>5
  <2>2. At(Consumers, {"unlock", "post"}) \in Nat /\ At(Producers, {"lock", "item"}) \in Nat
    BY <1>2
  <2>3. empty + At(Producers, {"lock", "item"}) + count
          + At(Consumers, {"unlock", "post"}) = MAX
    BY <1>1, <1>4 DEF SlotsAccounted
  <2>4. count < MAX
    BY <1>4, <2>1, <2>2, <2>3
  <2> QED
    BY <1>1, <1>5, <2>4, ProdConAssumption
<1>6. CASE t \in Consumers
  <2>1. At(Consumers, {"lock", "item"}) > 0
    BY <1>3, <1>6
  <2>2. At(Consumers, {"lock", "item"}) \in Nat /\ At(Producers, {"unlock", "post"}) \in Nat
    BY <1>2
  <2>3. full + At(Producers, {"unlock", "post"}) + At(Consumers, {"lock", "item"}) = count
    BY <1>1, <1>4 DEF SlotsAccounted
  <2>4. count > 0
    BY <1>4, <2>1, <2>2, <2>3
  <2> QED
    BY <1>1, <1>6, <2>4, ProdConAssumption
<1> QED
  BY <1>5, <1>6 DEF ProdConTypeOK

\* The slots are accounted for after each step of prodconExtra.c.
LEMMA SlotsStep ==
  ASSUME ProdConInv, NEW t \in running, UNCHANGED <<design, running>>,
         SemWait(t) \/ SemLock(t) \/ UseItem(t) \/ SemUnlock(t) \/ SemPost(t)
  PROVE  SlotsAccounted' /\ empty' \in Nat /\ full' \in Nat
<1> USE DEF ProdConInv
<1>1. design = "semaphores"
  BY DEF SemWait, SemLock, UseItem, SemUnlock, SemPost, ProdConTypeOK, Points
<1>2. t \in Producers \cup Consumers /\ ~(t \in Producers /\ t \in Consumers)
  BY ProdConAssumption DEF ProdConTypeOK
<1> DEFINE P1 == At(Producers, {"lock", "item"})
           C1 == At(Consumers, {"lock", "item"})
           P2 == At(Producers, {"unlock", "post"})
           C2 == At(Consumers, {"unlock", "post"})
           Moves(n, m, threads, points, b) ==
             /\ n \in Nat
             /\ t \in threads /\ pc[t] \notin points /\ b \in points => m = n + 1
             /\ t \in threads /\ pc[t] \in points /\ b \notin points => m = n - 1
             /\ t \notin threads \/ (pc[t] \in points <=> b \in points) => m = n
<1>3. /\ empty + P1 + count + C2 = MAX /\ full + P2 + C1 = count
      /\ MAX \in Nat /\ count \in Nat /\ empty \in Nat /\ full \in Nat
  BY <1>1, ProdConAssumption DEF SlotsAccounted, ProdConTypeOK
<1>4. ASSUME NEW b, pc' = [pc EXCEPT ![t] = b]
      PROVE  /\ Moves(P1, P1', Producers, {"lock", "item"}, b)
             /\ Moves(C1, C1', Consumers, {"lock", "item"}, b)
             /\ Moves(P2, P2', Producers, {"unlock", "post"}, b)
             /\ Moves(C2, C2', Consumers, {"unlock", "post"}, b)
  <2>1. DOMAIN pc = running /\ IsFiniteSet(running) /\ running' = running
    BY ThreadsFinite DEF ProdConTypeOK
  <2>2. ASSUME NEW threads, NEW points
        PROVE  Moves(AtOf(running, pc, threads, points),
                     AtOf(running, pc', threads, points), threads, points, b)
    <3>1. pc'[t] = b /\ \A u \in running \ {t} : pc'[u] = pc[u]
      BY <1>4, <2>1
    <3> DEFINE p == pc'
    <3> HIDE DEF p
    <3>2. p[t] = b /\ \A u \in running \ {t} : p[u] = pc[u]
      BY <3>1 DEF p
    <3>3. Moves(AtOf(running, pc, threads, points), AtOf(running, p, threads, points),
                threads, points, b)
      BY <2>1, <3>2, AtMoves
    <3> QED
      BY <3>3 DEF p
  <2>3. /\ P1 = AtOf(running, pc, Producers, {"lock", "item"})
        /\ P1' = AtOf(running, pc', Producers, {"lock", "item"})
    BY <2>1 DEF At, AtOf
  <2>4. /\ C1 = AtOf(running, pc, Consumers, {"lock", "item"})
        /\ C1' = AtOf(running, pc', Consumers, {"lock", "item"})
    BY <2>1 DEF At, AtOf
  <2>5. /\ P2 = AtOf(running, pc, Producers, {"unlock", "post"})
        /\ P2' = AtOf(running, pc', Producers, {"unlock", "post"})
    BY <2>1 DEF At, AtOf
  <2>6. /\ C2 = AtOf(running, pc, Consumers, {"unlock", "post"})
        /\ C2' = AtOf(running, pc', Consumers, {"unlock", "post"})
    BY <2>1 DEF At, AtOf
  <2> HIDE DEF P1, C1, P2, C2, Moves
  <2> QED
    BY <2>2, <2>3, <2>4, <2>5, <2>6
<1>5. ASSUME empty' + P1' + count' + C2' = MAX, full' + P2' + C1' = count'
      PROVE  SlotsAccounted'
  BY <1>5 DEF SlotsAccounted
<1>6. CASE SemWait(t)
  <2>1. pc' = [pc EXCEPT ![t] = "lock"] /\ pc[t] = "start" /\ count' = count
    BY <1>6 DEF SemWait, Goto, dataVars
  <2>2. /\ P1 \in Nat /\ C1 \in Nat /\ P2 \in Nat /\ C2 \in Nat
        /\ P1' = IF t \in Producers THEN P1 + 1 ELSE P1
        /\ C1' = IF t \in Consumers THEN C1 + 1 ELSE C1
        /\ P2' = P2 /\ C2' = C2
    <3>1. /\ Moves(P1, P1', Producers, {"lock", "item"}, "lock")
          /\ Moves(C1, C1', Consumers, {"lock", "item"}, "lock")
          /\ Moves(P2, P2', Producers, {"unlock", "post"}, "lock")
          /\ Moves(C2, C2', Consumers, {"unlock", "post"}, "lock")
      BY <1>4, <2>1
    <3> HIDE DEF P1, P2, C1, C2
    <3> QED
      BY <1>2, <2>1, <3>1
  <2>3. /\ empty' = (IF t \in Producers THEN empty - 1 ELSE empty) /\ empty' \in Nat
        /\ full' = (IF t \in Consumers THEN full - 1 ELSE full) /\ full' \in Nat
    BY <1>2, <1>3, <1>6 DEF SemWait
  <2>4. empty' + P1' + count' + C2' = MAX /\ full' + P2' + C1' = count'
    <3> HIDE DEF P1, P2, C1, C2
    <3> QED
      BY <1>2, <1>3, <2>1, <2>2, <2>3
  <2> QED
    BY <1>5, <2>3, <2>4
<1>7. CASE SemLock(t) \/ SemUnlock(t)
  <2>1. UNCHANGED <<empty, full, count>>
    BY <1>7 DEF SemLock, SemUnlock, dataVars, semaphores
  <2>2. CASE pc[t] = "lock" /\ pc' = [pc EXCEPT ![t] = "item"]
    <3>1. /\ Moves(P1, P1', Producers, {"lock", "item"}, "item")
          /\ Moves(C1, C1', Consumers, {"lock", "item"}, "item")
          /\ Moves(P2, P2', Producers, {"unlock", "post"}, "item")
          /\ Moves(C2, C2', Consumers, {"unlock", "post"}, "item")
      BY <1>4, <2>2
    <3> HIDE DEF P1, P2, C1, C2
    <3> QED
      BY <1>3, <1>5, <2>1, <2>2, <3>1 DEF P1, P2, C1, C2
  <2>3. CASE pc[t] = "unlock" /\ pc' = [pc EXCEPT ![t] = "post"]
    <3>1. /\ Moves(P1, P1', Producers, {"lock", "item"}, "post")
          /\ Moves(C1, C1', Consumers, {"lock", "item"}, "post")
          /\ Moves(P2, P2', Producers, {"unlock", "post"}, "post")
          /\ Moves(C2, C2', Consumers, {"unlock", "post"}, "post")
      BY <1>4, <2>3
    <3> HIDE DEF P1, P2, C1, C2
    <3> QED
      BY <1>3, <1>5, <2>1, <2>3, <3>1 DEF P1, P2, C1, C2
  <2> QED
    BY <1>7, <2>2, <2>3 DEF SemLock, SemUnlock, Goto
<1>8. CASE UseItem(t)
  <2>1. pc' = [pc EXCEPT ![t] = "unlock"] /\ pc[t] = "item" /\ UNCHANGED <<empty, full>>
    BY <1>8 DEF UseItem, Goto, semaphores
  <2>2. count' = IF t \in Producers THEN count + 1 ELSE count - 1
    <3>1. (t \in Producers => count < MAX) /\ (t \in Consumers => count > 0)
      BY <2>1, SemaphoresSuffice
    <3> QED
      BY <1>2, <1>3, <1>8, <3>1 DEF UseItem, insert_item, remove_item
  <2>3. /\ P1 \in Nat /\ C1 \in Nat /\ P2 \in Nat /\ C2 \in Nat
        /\ P1' = IF t \in Producers THEN P1 - 1 ELSE P1
        /\ C1' = IF t \in Consumers THEN C1 - 1 ELSE C1
        /\ P2' = IF t \in Producers THEN P2 + 1 ELSE P2
        /\ C2' = IF t \in Consumers THEN C2 + 1 ELSE C2
    <3>1. /\ Moves(P1, P1', Producers, {"lock", "item"}, "unlock")
          /\ Moves(C1, C1', Consumers, {"lock", "item"}, "unlock")
          /\ Moves(P2, P2', Producers, {"unlock", "post"}, "unlock")
          /\ Moves(C2, C2', Consumers, {"unlock", "post"}, "unlock")
      BY <1>4, <2>1
    <3> HIDE DEF P1, P2, C1, C2
    <3> QED
      BY <1>2, <2>1, <3>1
  <2>4. empty' + P1' + count' + C2' = MAX /\ full' + P2' + C1' = count'
    <3> HIDE DEF P1, P2, C1, C2
    <3> QED
      BY <1>2, <1>3, <2>1, <2>2, <2>3
  <2> QED
    BY <1>3, <1>5, <2>1, <2>4
<1>9. CASE SemPost(t)
  <2>1. pc' = [pc EXCEPT ![t] = Again(t)] /\ pc[t] = "post" /\ count' = count
    BY <1>9 DEF SemPost, Goto, dataVars
  <2>2. Again(t) \in {"start", "done"}
    BY DEF Again
  <2>3. /\ P1 \in Nat /\ C1 \in Nat /\ P2 \in Nat /\ C2 \in Nat
        /\ P1' = P1 /\ C1' = C1
        /\ P2' = IF t \in Producers THEN P2 - 1 ELSE P2
        /\ C2' = IF t \in Consumers THEN C2 - 1 ELSE C2
    <3>1. /\ Moves(P1, P1', Producers, {"lock", "item"}, Again(t))
          /\ Moves(C1, C1', Consumers, {"lock", "item"}, Again(t))
          /\ Moves(P2, P2', Producers, {"unlock", "post"}, Again(t))
          /\ Moves(C2, C2', Consumers, {"unlock", "post"}, Again(t))
      BY <1>4, <2>1
    <3> HIDE DEF P1, P2, C1, C2
    <3> QED
      BY <1>2, <2>1, <2>2, <3>1
  <2>4. /\ empty' = (IF t \in Consumers THEN empty + 1 ELSE empty) /\ empty' \in Nat
        /\ full' = (IF t \in Producers THEN full + 1 ELSE full) /\ full' \in Nat
    BY <1>2, <1>3, <1>9 DEF SemPost
  <2>5. empty' + P1' + count' + C2' = MAX /\ full' + P2' + C1' = count'
    <3> HIDE DEF P1, P2, C1, C2
    <3> QED
      BY <1>2, <1>3, <2>1, <2>3, <2>4
  <2> QED
    BY <1>5, <2>4, <2>5
<1> QED
  BY <1>6, <1>7, <1>8, <1>9

-----------------------------------------------------------------------------
(* The actions.                                                            *)

\* Items stay those of turns that are over when a thread ends a turn, and when
\* it leaves its turn only by ending it.
LEMMA TurnsKept ==
  ASSUME ProdConTypeOK, OfTurns, UNCHANGED running,
         \A x \in Inside' \cup Taken' :
           \/ x \in Inside \cup Taken
           \/ /\ x \in Item /\ x[1] \in running
              /\ x[2] < turn'[x[1]] \/ (x[2] = turn'[x[1]] /\ pc'[x[1]] \in {"unlock", "post"}),
         \A u \in running \cap Producers :
           \/ /\ turn'[u] = turn[u]
              /\ pc[u] \in {"unlock", "post"} => pc'[u] \in {"unlock", "post"}
              /\ pc[u] = "done" => pc'[u] = "done"
           \/ /\ turn'[u] = turn[u] + 1
              /\ pc'[u] # "done" => turn[u] + 1 < loops
  PROVE  OfTurns'
<1>1. ASSUME NEW x \in Inside' \cup Taken'
      PROVE  /\ x \in Item /\ x[1] \in running
             /\ x[2] < turn'[x[1]] \/ (x[2] = turn'[x[1]] /\ pc'[x[1]] \in {"unlock", "post"})
  <2>1. CASE x \in Inside \cup Taken
    <3>1. /\ x \in Item /\ x[1] \in running
          /\ x[2] < turn[x[1]] \/ (x[2] = turn[x[1]] /\ pc[x[1]] \in {"unlock", "post"})
      BY <2>1 DEF OfTurns
    <3>2. x[1] \in Producers /\ x[2] \in Nat /\ turn[x[1]] \in Nat
      BY <3>1, ProdConAssumption DEF Item, ProdConTypeOK
    <3> QED
      BY <3>1, <3>2
  <2> QED
    BY <1>1, <2>1
<1>2. ASSUME NEW u \in running \cap Producers, pc'[u] # "done"
      PROVE  turn'[u] < loops
  BY <1>2 DEF OfTurns
<1> QED
  BY <1>1, <1>2 DEF OfTurns

\* A step within a turn that leaves the data alone.
LEMMA QuietStep ==
  ASSUME ProdConInv, NEW t \in running, NEW b \in Points, pc' = [pc EXCEPT ![t] = b],
         UNCHANGED <<staticVars, turn, dataVars>>,
         pc[t] \in {"unlock", "post"} => b \in {"unlock", "post"}, pc[t] # "done",
         design # "conditions" => SlotsAccounted',
         empty' \in Nat, full' \in Nat
  PROVE  ProdConInv' /\ BoundedStep
<1> USE DEF ProdConInv
<1>1. /\ design' = design /\ running' = running /\ turn' = turn
      /\ count' = count /\ buffer' = buffer /\ fill_ptr' = fill_ptr
      /\ use_ptr' = use_ptr /\ taken' = taken
  BY DEF staticVars, dataVars, ringVars, historyVars
<1>2. ProdConTypeOK'
  <2>1. Points' = Points
    BY <1>1 DEF Points
  <2> QED
    BY <1>1, <2>1 DEF ProdConTypeOK
<1>3. RingFilled' /\ Apart' /\ Inside' = Inside /\ Taken' = Taken /\ BoundedStep
  BY <1>1, DataKept
<1>4. OfTurns'
  <2>1. \A u \in running : pc'[u] = IF u = t THEN b ELSE pc[u]
    BY DEF ProdConTypeOK
  <2>2. \A u \in running \cap Producers :
          /\ turn'[u] = turn[u]
          /\ pc[u] \in {"unlock", "post"} => pc'[u] \in {"unlock", "post"}
          /\ pc[u] = "done" => pc'[u] = "done"
    BY <1>1, <2>1
  <2> QED
    BY <1>1, <1>3, <2>2, TurnsKept
<1>5. SlotsAccounted'
  BY <1>1 DEF SlotsAccounted
<1> QED
  BY <1>2, <1>3, <1>4, <1>5

\* lock, wait and the return from a wait, in prodconBase.c.
LEMMA LockWaitKeep ==
  ASSUME ProdConInv, NEW t \in running, Lock(t) \/ Wait(t) \/ Spurious(t)
  PROVE  ProdConInv' /\ BoundedStep
<1>1. design = "conditions" /\ design' = design
  BY DEF Lock, Wait, Spurious, staticVars, ProdConInv, ProdConTypeOK, Points
<1>2. UNCHANGED <<staticVars, turn, dataVars>> /\ empty' \in Nat /\ full' \in Nat
  BY DEF Lock, Wait, Spurious, semaphores, ProdConInv, ProdConTypeOK
<1>3. PICK b \in {"test", "retest", "waiting", "woken"} : pc' = [pc EXCEPT ![t] = b]
  BY DEF Lock, Wait, Spurious, Goto
<1>4. b \in Points
  BY <1>1 DEF Points
<1>5. pc[t] \notin {"unlock", "post", "done"}
  BY DEF Lock, Wait, Spurious
<1> QED
  BY <1>1, <1>2, <1>3, <1>4, <1>5, QuietStep

\* sem_wait, and the mutex, in prodconExtra.c.
LEMMA SemWaitKeeps ==
  ASSUME ProdConInv, NEW t \in running, SemWait(t) \/ SemLock(t) \/ SemUnlock(t)
  PROVE  ProdConInv' /\ BoundedStep
<1>1. design = "semaphores"
  BY DEF SemWait, SemLock, SemUnlock, ProdConInv, ProdConTypeOK, Points
<1>2. UNCHANGED <<staticVars, turn, dataVars>> /\ UNCHANGED <<design, running>>
  BY DEF SemWait, SemLock, SemUnlock, staticVars
<1>3. SlotsAccounted' /\ empty' \in Nat /\ full' \in Nat
  BY <1>2, SlotsStep
<1>4. PICK b \in {"lock", "item", "post"} : pc' = [pc EXCEPT ![t] = b]
  BY DEF SemWait, SemLock, SemUnlock, Goto
<1>5. b \in Points
  BY <1>1 DEF Points
<1>6. pc[t] \notin {"post", "done"} /\ (pc[t] = "unlock" => b = "post")
  <2>1. CASE SemUnlock(t)
    <3>1. pc[t] = "unlock" /\ pc' = [pc EXCEPT ![t] = "post"]
      BY <2>1 DEF SemUnlock, Goto
    <3>2. t \in DOMAIN pc
      BY DEF ProdConInv, ProdConTypeOK
    <3> QED
      BY <1>4, <3>1, <3>2
  <2>2. CASE SemWait(t) \/ SemLock(t)
    BY <2>2 DEF SemWait, SemLock
  <2> QED
    BY <2>1, <2>2
<1> QED
  BY <1>2, <1>3, <1>4, <1>5, <1>6, QuietStep

\* insert_item and remove_item.
LEMMA UseItemKeeps ==
  ASSUME ProdConInv, NEW t \in running, UseItem(t)
  PROVE  ProdConInv' /\ BoundedStep
<1> USE DEF ProdConInv
<1>1. /\ design' = design /\ running' = running /\ turn' = turn /\ pc[t] = "item"
      /\ pc' = [pc EXCEPT ![t] = "unlock"]
  BY DEF UseItem, Goto, staticVars
<1>2. /\ design = "semaphores" /\ (t \in Producers => count < MAX)
      /\ t \in Consumers => count > 0
  BY <1>1, SemaphoresSuffice
<1>3. SlotsAccounted' /\ empty' \in Nat /\ full' \in Nat
  BY <1>1, SlotsStep
<1>4. pc' \in [running -> Points] /\ Points' = Points
  BY <1>1, <1>2 DEF ProdConTypeOK, Points
<1>5. \A u \in running : pc'[u] = IF u = t THEN "unlock" ELSE pc[u]
  BY <1>1 DEF ProdConTypeOK
<1>6. \A u \in running \cap Producers :
        /\ turn'[u] = turn[u]
        /\ pc[u] \in {"unlock", "post"} => pc'[u] \in {"unlock", "post"}
        /\ pc[u] = "done" => pc'[u] = "done"
  BY <1>1, <1>5
<1>7. MAX \in Nat \ {0} /\ count \in 0..MAX
  BY ProdConAssumption DEF ProdConTypeOK
<1>8. CASE t \in Producers
  <2>1. insert_item(<<t, turn[t]>>)
    BY <1>8 DEF UseItem
  <2>2. /\ Apart' /\ RingFilled' /\ Taken' = Taken /\ BoundedStep
        /\ <<t, turn[t]>> \in Item /\ Inside' = Inside \cup {<<t, turn[t]>>}
        /\ count' = count + 1 /\ fill_ptr' \in 0..(MAX - 1) /\ DOMAIN buffer' = DOMAIN buffer
        /\ UNCHANGED <<use_ptr, taken>>
    BY <1>1, <1>2, <1>8, <2>1, ItemIn
  <2>3. ProdConTypeOK'
    <3>1. count' \in 0..MAX
      BY <1>2, <1>7, <1>8, <2>2
    <3> QED
      BY <1>1, <1>3, <1>4, <2>2, <3>1 DEF ProdConTypeOK
  <2>4. OfTurns'
    <3> DEFINE item == <<t, turn[t]>>
    <3>1. item \in Item /\ item[1] = t /\ item[2] = turn'[t] /\ pc'[t] = "unlock"
      BY <1>1, <1>5, <2>2
    <3>2. Inside' \cup Taken' = Inside \cup Taken \cup {item}
      BY <2>2
    <3> HIDE DEF item
    <3> QED
      BY <1>1, <1>6, <3>1, <3>2, TurnsKept
  <2> QED
    BY <1>3, <2>2, <2>3, <2>4
<1>9. CASE t \notin Producers
  <2>1. remove_item /\ count > 0
    BY <1>2, <1>9 DEF UseItem, ProdConTypeOK
  <2>2. /\ Apart' /\ RingFilled' /\ BoundedStep
        /\ Inside' \cup Taken' = Inside \cup Taken
        /\ count' = count - 1 /\ use_ptr' \in 0..(MAX - 1) /\ taken' \in Seq(Item)
        /\ UNCHANGED <<fill_ptr, buffer>>
    BY <1>1, <1>2, <2>1, ItemOut
  <2>3. ProdConTypeOK'
    <3>1. count' \in 0..MAX
      BY <1>7, <2>1, <2>2
    <3> QED
      BY <1>1, <1>3, <1>4, <2>2, <3>1 DEF ProdConTypeOK
  <2>4. OfTurns'
    BY <1>1, <1>6, <2>2, TurnsKept
  <2> QED
    BY <1>3, <2>2, <2>3, <2>4
<1> QED
  BY <1>8, <1>9

\* sem_post, which ends the turn.
LEMMA SemPostKeeps ==
  ASSUME ProdConInv, NEW t \in running, SemPost(t)
  PROVE  ProdConInv' /\ BoundedStep
<1> USE DEF ProdConInv
<1>1. /\ design' = design /\ running' = running /\ pc[t] = "post"
      /\ pc' = [pc EXCEPT ![t] = Again(t)]
      /\ count' = count /\ buffer' = buffer /\ fill_ptr' = fill_ptr
      /\ use_ptr' = use_ptr /\ taken' = taken /\ UNCHANGED <<design, dataVars>>
  BY DEF SemPost, Goto, staticVars, dataVars, ringVars, historyVars
<1>2. design = "semaphores"
  BY <1>1 DEF ProdConTypeOK, Points
<1>3. SlotsAccounted' /\ empty' \in Nat /\ full' \in Nat
  BY <1>1, SlotsStep
<1>4. Again(t) \in {"start", "done"}
      /\ (t \in Producers => (Again(t) # "done" => turn[t] + 1 < loops))
  BY ProdConAssumption DEF Again
<1>5. /\ turn' \in [running -> Nat]
      /\ \A u \in running \ {t} : turn'[u] = turn[u]
      /\ t \in Producers => turn'[t] = turn[t] + 1
  BY ProdConAssumption DEF SemPost, CountTurn, ProdConTypeOK
<1>6. pc' \in [running -> Points] /\ Points' = Points
  BY <1>1, <1>2, <1>4 DEF ProdConTypeOK, Points
<1>7. RingFilled' /\ Apart' /\ Inside' = Inside /\ Taken' = Taken /\ BoundedStep
  BY <1>1, DataKept
<1>8. ProdConTypeOK'
  BY <1>1, <1>3, <1>5, <1>6 DEF ProdConTypeOK
<1>9. OfTurns'
  <2>1. \A u \in running : pc'[u] = IF u = t THEN Again(t) ELSE pc[u]
    BY <1>1 DEF ProdConTypeOK
  <2>2. \A u \in running \cap Producers :
           \/ /\ turn'[u] = turn[u]
              /\ pc[u] \in {"unlock", "post"} => pc'[u] \in {"unlock", "post"}
              /\ pc[u] = "done" => pc'[u] = "done"
           \/ /\ turn'[u] = turn[u] + 1
              /\ pc'[u] # "done" => turn[u] + 1 < loops
    BY <1>4, <1>5, <2>1
  <2> QED
    BY <1>1, <1>7, <2>2, TurnsKept
<1> QED
  BY <1>3, <1>7, <1>8, <1>9

\* put or get, in prodconBase.c.
LEMMA PassKeeps ==
  ASSUME ProdConInv, NEW t \in running, Pass(t)
  PROVE  ProdConInv' /\ BoundedStep
<1> USE DEF ProdConInv
<1>1. /\ design' = design /\ running' = running /\ pc[t] \in {"test", "retest"}
      /\ empty' = empty /\ full' = full
  BY DEF Pass, staticVars, semaphores
<1>2. design = "conditions"
  BY <1>1 DEF ProdConTypeOK, Points
<1>3. SlotsAccounted'
  BY <1>1, <1>2 DEF SlotsAccounted
<1>4. Again(t) \in {"start", "done"} /\ (Again(t) # "done" => turn[t] + 1 < loops)
  BY <1>2 DEF Again
<1>5. turn' \in [running -> Nat] /\ \A u \in running : turn'[u] = IF u = t THEN turn[t] + 1 ELSE turn[u]
  BY <1>2 DEF Pass, CountTurn, ProdConTypeOK
<1>6. /\ pc' \in [running -> Points] /\ Points' = Points /\ pc'[t] = Again(t)
      /\ \A u \in running \ {t} : pc'[u] = pc[u] \/ (pc[u] = "waiting" /\ pc'[u] = "woken")
  <2>1. Again(t) \in Points /\ "woken" \in Points /\ Points' = Points
    BY <1>1, <1>2, <1>4 DEF Points
  <2>2. CASE pc' = [pc EXCEPT ![t] = Again(t)]
    BY <2>1, <2>2 DEF ProdConTypeOK
  <2>3. ASSUME NEW u \in Waiters(t), pc' = [pc EXCEPT ![t] = Again(t), ![u] = "woken"]
        PROVE  /\ pc' \in [running -> Points] /\ pc'[t] = Again(t)
               /\ \A v \in running \ {t} : pc'[v] = pc[v] \/ (pc[v] = "waiting" /\ pc'[v] = "woken")
    <3>1. u \in running /\ pc[u] = "waiting" /\ u # t
      BY <1>1 DEF Waiters
    <3> QED
      BY <2>1, <2>3, <3>1 DEF ProdConTypeOK
  <2> QED
    BY <2>1, <2>2, <2>3 DEF Pass, Goto
<1>7. MAX \in Nat \ {0} /\ count \in 0..MAX
  BY ProdConAssumption DEF ProdConTypeOK
<1>8. \A u \in running \cap Producers :
         \/ /\ turn'[u] = turn[u]
            /\ pc[u] \in {"unlock", "post"} => pc'[u] \in {"unlock", "post"}
            /\ pc[u] = "done" => pc'[u] = "done"
         \/ /\ turn'[u] = turn[u] + 1
            /\ pc'[u] # "done" => turn[u] + 1 < loops
  BY <1>4, <1>5, <1>6
<1>9. CASE t \in Producers
  <2>1. put(<<t, turn[t]>>) /\ count < MAX
    BY <1>7, <1>9 DEF Pass, MustWait
  <2>2. /\ Apart' /\ RingFilled' /\ Taken' = Taken /\ BoundedStep
        /\ <<t, turn[t]>> \in Item /\ Inside' = Inside \cup {<<t, turn[t]>>}
        /\ count' = count + 1 /\ fill_ptr' \in 0..(MAX - 1) /\ DOMAIN buffer' = DOMAIN buffer
        /\ UNCHANGED <<use_ptr, taken>>
    BY <1>1, <1>2, <1>9, <2>1, ItemIn
  <2>3. ProdConTypeOK'
    <3>1. count' \in 0..MAX
      BY <1>7, <2>1, <2>2
    <3> QED
      BY <1>1, <1>5, <1>6, <2>2, <3>1 DEF ProdConTypeOK
  <2>4. OfTurns'
    <3> DEFINE item == <<t, turn[t]>>
    <3>1. turn[t] \in Nat
      BY DEF ProdConTypeOK
    <3>2. item \in Item /\ item[1] = t /\ item[2] < turn'[t]
      BY <1>5, <2>2, <3>1
    <3>3. Inside' \cup Taken' = Inside \cup Taken \cup {item}
      BY <2>2
    <3> HIDE DEF item
    <3> QED
      BY <1>1, <1>8, <3>2, <3>3, TurnsKept
  <2> QED
    BY <1>3, <2>2, <2>3, <2>4
<1>10. CASE t \notin Producers
  <2>1. get /\ count > 0
    BY <1>7, <1>10 DEF Pass, MustWait
  <2>2. /\ Apart' /\ RingFilled' /\ BoundedStep
        /\ Inside' \cup Taken' = Inside \cup Taken
        /\ count' = count - 1 /\ use_ptr' \in 0..(MAX - 1) /\ taken' \in Seq(Item)
        /\ UNCHANGED <<fill_ptr, buffer>>
    BY <1>1, <1>2, <2>1, ItemOut
  <2>3. ProdConTypeOK'
    <3>1. count' \in 0..MAX
      BY <1>7, <2>1, <2>2
    <3> QED
      BY <1>1, <1>5, <1>6, <2>2, <3>1 DEF ProdConTypeOK
  <2>4. OfTurns'
    BY <1>1, <1>8, <2>2, TurnsKept
  <2> QED
    BY <1>3, <2>2, <2>3, <2>4
<1> QED
  BY <1>9, <1>10

\* The exit of main, and a step that changes nothing.
LEMMA StillKeeps ==
  ASSUME ProdConInv,
         UNCHANGED <<design, running, pc, turn, mutex, dataVars, semaphores>>
  PROVE  ProdConInv' /\ BoundedStep
<1> USE DEF ProdConInv
<1>1. /\ design' = design /\ running' = running /\ turn' = turn /\ pc' = pc
      /\ count' = count /\ buffer' = buffer /\ fill_ptr' = fill_ptr
      /\ use_ptr' = use_ptr /\ taken' = taken /\ empty' = empty /\ full' = full
      /\ UNCHANGED <<design, dataVars>>
  BY DEF dataVars, ringVars, historyVars, semaphores
<1>2. ProdConTypeOK' /\ SlotsAccounted'
  BY <1>1 DEF ProdConTypeOK, Points, SlotsAccounted, At
<1>3. RingFilled' /\ Apart' /\ Inside' = Inside /\ Taken' = Taken /\ BoundedStep
  BY <1>1, DataKept
<1>4. OfTurns'
  BY <1>1, <1>3 DEF OfTurns
<1> QED
  BY <1>2, <1>3, <1>4

\* Every step.
LEMMA NextKeeps ==
  ProdConInv /\ [ProdConNext]_prodconVars => ProdConInv' /\ BoundedStep
<1> SUFFICES ASSUME ProdConInv, [ProdConNext]_prodconVars
             PROVE  ProdConInv' /\ BoundedStep
  OBVIOUS
<1>1. CASE Exit
  BY <1>1, StillKeeps DEF Exit
<1>2. ASSUME NEW t \in running, Step(t) \/ Spurious(t)
      PROVE  ProdConInv' /\ BoundedStep
  BY <1>2, LockWaitKeep, PassKeeps, SemWaitKeeps, UseItemKeeps, SemPostKeeps DEF Step
<1>3. CASE UNCHANGED prodconVars
  BY <1>3, StillKeeps DEF prodconVars, staticVars
<1> QED
  BY <1>1, <1>2, <1>3 DEF ProdConNext

\* The start: nothing is inside, every slot is free.
LEMMA InitHolds == ProdConInit => ProdConInv /\ Inside = {} /\ Taken = {}
<1> SUFFICES ASSUME ProdConInit
             PROVE  ProdConInv /\ Inside = {} /\ Taken = {}
  OBVIOUS
<1>1. /\ MAX \in Nat \ {0} /\ loops \in Nat \ {0} /\ count = 0 /\ count - 1 = -1
      /\ design \in {"conditions", "semaphores"} /\ running \subseteq Producers \cup Consumers
      /\ pc = [t \in running |-> "start"] /\ turn = [t \in running |-> 0]
      /\ fill_ptr = 0 /\ use_ptr = 0 /\ empty = MAX /\ full = 0 /\ taken = <<>>
      /\ DOMAIN buffer = 0..(MAX - 1)
  BY ProdConAssumption DEF ProdConInit
<1>2. ProdConTypeOK
  BY <1>1, EmptySeq DEF ProdConTypeOK, Points
<1>3. 0..(count - 1) = {}
  BY <1>1
<1>4. Inside = {} /\ Taken = {}
  <2>1. Inside = {buffer[Slot(k)] : k \in 0..(count - 1)}
    BY <1>2, InsideSlots
  <2>2. DOMAIN taken = {}
    BY <1>1
  <2> QED
    BY <1>3, <2>1, <2>2 DEF Taken
<1>5. Apart /\ OfTurns
  BY <1>1, <1>3, <1>4 DEF Apart, OfTurns
<1>6. RingFilled
  <2>1. 0 % MAX = 0
    BY <1>1
  <2> QED
    BY <1>1, <2>1 DEF RingFilled, Slot
<1>7. SlotsAccounted
  <2>1. \A threads, points : "start" \notin points => At(threads, points) = 0
    <3> SUFFICES ASSUME NEW threads, NEW points, "start" \notin points
                 PROVE  At(threads, points) = 0
      OBVIOUS
    <3>1. {t \in running \cap threads : pc[t] \in points} = {}
      BY <1>1
    <3>2. Cardinality({t \in running \cap threads : pc[t] \in points}) = Cardinality({})
      BY <3>1, Zenon
    <3> QED
      BY <3>2, FS_EmptySet DEF At
  <2>2. /\ At(Producers, {"lock", "item"}) = 0 /\ At(Consumers, {"unlock", "post"}) = 0
        /\ At(Producers, {"unlock", "post"}) = 0 /\ At(Consumers, {"lock", "item"}) = 0
    BY <2>1
  <2> QED
    BY <1>1, <2>2 DEF SlotsAccounted
<1> QED
  BY <1>2, <1>4, <1>5, <1>6, <1>7 DEF ProdConInv

-----------------------------------------------------------------------------
(* The theorems.                                                           *)

\* What holds in every state of either program.
THEOREM ProdConInvHolds == ProdConSpec => []ProdConInv
<1>1. ProdConInit => ProdConInv
  BY InitHolds
<1>2. ProdConInv /\ [ProdConNext]_prodconVars => ProdConInv'
  BY NextKeeps
<1> QED
  BY <1>1, <1>2, PTL DEF ProdConSpec

\* The semaphores of prodconExtra.c account for every slot.
THEOREM SlotsAlwaysAccounted == ProdConSpec => []SlotsAccounted
<1>1. ProdConInv => SlotsAccounted
  BY DEF ProdConInv
<1> QED
  BY <1>1, ProdConInvHolds, PTL

\* Either program is a bounded buffer, for any number of threads, slots and
\* turns: nothing is overwritten, lost or handed out twice.
THEOREM BuffersAreBounded == ProdConSpec => BufferSpec
<1>1. ProdConInit => Bounded!Init
  BY InitHolds DEF Bounded!Init, Taken
<1>2. ProdConInv /\ [ProdConNext]_prodconVars
        => [Bounded!Enter \/ Bounded!Leave]_<<Inside, {taken[i] : i \in DOMAIN taken}>>
  BY NextKeeps DEF BoundedStep
<1> QED
  BY <1>1, <1>2, ProdConInvHolds, PTL DEF ProdConSpec, BufferSpec, Bounded!Spec
=============================================================================
