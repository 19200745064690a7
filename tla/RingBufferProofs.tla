--------------------------- MODULE RingBufferProofs ---------------------------
(***************************************************************************)
(* Proofs about RingBuffer for every capacity, every counter width that is *)
(* a whole number (two at least) of laps, and every block size: the buffer *)
(* neither loses nor overwrites audio, its two memcpys never touch the     *)
(* same element, and a block that was checked to fit fits.                 *)
(***************************************************************************)
EXTENDS RingBuffer, SequenceTheorems, TLAPS

-------------------------------------------------------------------------------
(* Arithmetic modulo a number the provers do not know.                      *)

(* What division and remainder are. *)
LEMMA DivMod ==
  ASSUME NEW C \in Nat \ {0}, NEW x \in Int
  PROVE  /\ x \div C \in Int
         /\ x % C \in 0 .. C - 1
         /\ x = C * (x \div C) + (x % C)
OBVIOUS

(* The only multiple of C strictly between -C and C is zero. *)
LEMMA SmallMultiple ==
  ASSUME NEW C \in Nat \ {0}, NEW d \in Int, -C < C * d, C * d < C
  PROVE  d = 0
<1>1. CASE d >= 1
  <2>1. C * d = C + C * (d - 1)
    OBVIOUS
  <2>2. C * (d - 1) >= 0
    BY <1>1
  <2>. QED BY <2>1, <2>2
<1>2. CASE d <= -1
  <2>1. C * d = C * (d + 1) - C
    OBVIOUS
  <2>2. C * (d + 1) <= 0
    BY <1>2
  <2>. QED BY <2>1, <2>2
<1>. QED BY <1>1, <1>2

(* The remainder is unique. *)
LEMMA ModUnique ==
  ASSUME NEW C \in Nat \ {0}, NEW q \in Int, NEW s \in 0 .. C - 1
  PROVE  (C * q + s) % C = s
<1> DEFINE x == C * q + s
           u == x \div C
           t == x % C
<1>1. x \in Int
  OBVIOUS
<1>2. u \in Int /\ t \in 0 .. C - 1 /\ x = C * u + t
  BY <1>1, DivMod
<1> HIDE DEF u, t
<1>3. C * (q - u) = t - s
  BY <1>2
<1>4. q - u = 0
  BY <1>2, <1>3, SmallMultiple
<1>5. t = s
  BY <1>2, <1>3, <1>4
<1>. QED BY <1>5 DEF t

(* A whole number of laps does not change a remainder. *)
LEMMA ModLaps ==
  ASSUME NEW C \in Nat \ {0}, NEW L \in Int, NEW x \in Int
  PROVE  (x + L * C) % C = x % C
<1> DEFINE q == x \div C
           s == x % C
<1>1. q \in Int /\ s \in 0 .. C - 1 /\ x = C * q + s
  BY DivMod
<1> HIDE DEF q, s
<1>2. x + L * C = C * (q + L) + s
  BY <1>1
<1>3. (C * (q + L) + s) % C = s
  BY <1>1, ModUnique
<1>. QED BY <1>2, <1>3 DEF s

(* Numbers less than C apart have different remainders. *)
LEMMA ModDistinct ==
  ASSUME NEW C \in Nat \ {0}, NEW x \in Int, NEW y \in Int,
         x < y, y < x + C
  PROVE  x % C # y % C
<1> SUFFICES ASSUME x % C = y % C
             PROVE  FALSE
  OBVIOUS
<1> DEFINE a == x \div C
           b == y \div C
           s == x % C
<1>1. a \in Int /\ b \in Int /\ s \in 0 .. C - 1 /\ x = C * a + s /\ y = C * b + s
  BY DivMod
<1> HIDE DEF a, b, s
<1>2. C * (b - a) = y - x
  BY <1>1
<1>3. b - a = 0
  BY <1>1, <1>2, SmallMultiple
<1>. QED BY <1>2, <1>3

(* Within one lap on either side, a remainder is a subtraction. *)
LEMMA ModNear ==
  ASSUME NEW C \in Nat \ {0}, NEW x \in (-C) .. (2 * C - 1)
  PROVE  x % C = IF x < 0 THEN x + C ELSE IF x < C THEN x ELSE x - C
<1>1. CASE x < 0
  BY <1>1
<1>2. CASE x \in 0 .. C - 1
  BY <1>2
<1>3. CASE x \in C .. (2 * C - 1)
  BY <1>3
<1>. QED BY <1>1, <1>2, <1>3

-------------------------------------------------------------------------------
(* Positions and slots.                                                     *)

LEMMA ModulusFacts ==
  /\ Capacity \in Nat \ {0} /\ Modulus \in Nat \ {0}
  /\ Modulus >= 2 * Capacity /\ Modulus = Laps * Capacity
<1>1. Capacity \in Nat /\ Capacity > 0 /\ Laps \in Nat /\ Laps >= 2
  BY CapacityAssumption, LapsAssumption
<1>2. Laps * Capacity = 2 * Capacity + (Laps - 2) * Capacity
  BY <1>1
<1>3. (Laps - 2) * Capacity \in Nat
  BY <1>1
<1>. QED BY <1>1, <1>2, <1>3 DEF Modulus

(* The distance between two positions, without the remainder. *)
LEMMA DistIs ==
  ASSUME NEW p \in Position, NEW q \in Position
  PROVE  /\ Dist(p, q) = IF p >= q THEN p - q ELSE p - q + Modulus
         /\ Dist(p, q) \in Position
<1>1. p - q \in (-Modulus) .. (2 * Modulus - 1) /\ p - q < Modulus
  BY ModulusFacts DEF Position
<1>2. (p - q) % Modulus = IF p - q < 0 THEN p - q + Modulus ELSE p - q
  BY <1>1, ModulusFacts, ModNear
<1>. QED BY <1>2, ModulusFacts DEF Dist, Position

(* Advancing a position by at most one lap, without the remainder. *)
LEMMA AdvanceIs ==
  ASSUME NEW p \in Position, NEW n \in 0 .. Capacity
  PROVE  /\ Advance(p, n) = IF p + n < Modulus THEN p + n ELSE p + n - Modulus
         /\ Advance(p, n) \in Position
<1> DEFINE x == p + n
<1>1. x \in (-Modulus) .. (2 * Modulus - 1) /\ x \in Int /\ ~(x < 0)
  BY ModulusFacts DEF Position
<1> HIDE DEF x
<1>2. x % Modulus = IF x < Modulus THEN x ELSE x - Modulus
  BY <1>1, ModulusFacts, ModNear
<1>. QED BY <1>1, <1>2, ModulusFacts DEF x, Advance, Position

(* Distances around the ring add up, as long as they stay below one turn,   *)
(* and a point between lo and hi splits the distance between them.          *)
LEMMA DistAdds ==
  ASSUME NEW a \in Position, NEW b \in Position, NEW c \in Position,
         Dist(a, b) + Dist(b, c) < Modulus
  PROVE  Dist(a, c) = Dist(a, b) + Dist(b, c)
<1>1. Dist(a, b) = IF a >= b THEN a - b ELSE a - b + Modulus
  BY DistIs
<1>2. Dist(b, c) = IF b >= c THEN b - c ELSE b - c + Modulus
  BY DistIs
<1>3. Dist(a, c) = IF a >= c THEN a - c ELSE a - c + Modulus
  BY DistIs
<1>. QED BY <1>1, <1>2, <1>3, ModulusFacts DEF Position

LEMMA DistSplits ==
  ASSUME NEW hi \in Position, NEW lo \in Position, NEW p \in Position,
         Dist(p, lo) <= Dist(hi, lo)
  PROVE  Dist(hi, p) = Dist(hi, lo) - Dist(p, lo)
<1>1. Dist(p, lo) = IF p >= lo THEN p - lo ELSE p - lo + Modulus
  BY DistIs
<1>2. Dist(hi, lo) = IF hi >= lo THEN hi - lo ELSE hi - lo + Modulus
  BY DistIs
<1>3. Dist(hi, p) = IF hi >= p THEN hi - p ELSE hi - p + Modulus
  BY DistIs
<1>. QED BY <1>1, <1>2, <1>3, ModulusFacts DEF Position

(* Advancing the leading point opens the distance, advancing the trailing   *)
(* one closes it.                                                           *)
LEMMA AdvanceOpens ==
  ASSUME NEW p \in Position, NEW q \in Position, NEW n \in 0 .. Capacity,
         Dist(p, q) + n < Modulus
  PROVE  Dist(Advance(p, n), q) = Dist(p, q) + n
<1> DEFINE a == Advance(p, n)
<1>1. a \in Position /\ a = IF p + n < Modulus THEN p + n ELSE p + n - Modulus
  BY AdvanceIs
<1>2. Dist(p, q) = IF p >= q THEN p - q ELSE p - q + Modulus
  BY DistIs
<1> HIDE DEF a
<1>3. Dist(a, q) = IF a >= q THEN a - q ELSE a - q + Modulus
  BY <1>1, DistIs
<1>4. n \in Int
  BY ModulusFacts
<1>5. Dist(a, q) = Dist(p, q) + n
  BY <1>1, <1>2, <1>3, <1>4, ModulusFacts DEF Position
<1>. QED BY <1>5 DEF a

LEMMA AdvanceCloses ==
  ASSUME NEW p \in Position, NEW q \in Position, NEW n \in 0 .. Capacity,
         n <= Dist(p, q)
  PROVE  Dist(p, Advance(q, n)) = Dist(p, q) - n
<1> DEFINE a == Advance(q, n)
<1>1. a \in Position /\ a = IF q + n < Modulus THEN q + n ELSE q + n - Modulus
  BY AdvanceIs
<1>2. Dist(p, q) = IF p >= q THEN p - q ELSE p - q + Modulus
  BY DistIs
<1> HIDE DEF a
<1>3. Dist(p, a) = IF p >= a THEN p - a ELSE p - a + Modulus
  BY <1>1, DistIs
<1>4. n \in Int
  BY ModulusFacts
<1>5. Dist(p, a) = Dist(p, q) - n
  BY <1>1, <1>2, <1>3, <1>4, ModulusFacts DEF Position
<1>. QED BY <1>5 DEF a

(* The wrap of a position does not show in its slot. *)
LEMMA SlotOfAdvance ==
  ASSUME NEW p \in Position, NEW n \in 0 .. Capacity
  PROVE  /\ Advance(p, n) % Capacity = (p + n) % Capacity
         /\ Advance(p, n) % Capacity \in Slot
<1>1. /\ p + n \in Int /\ p + n - Modulus \in Int /\ Laps \in Int
      /\ (p + n - Modulus) + Laps * Capacity = p + n
  BY ModulusFacts, LapsAssumption DEF Position
<1>2. (p + n - Modulus) % Capacity = (p + n) % Capacity
  <2>1. ((p + n - Modulus) + Laps * Capacity) % Capacity = (p + n - Modulus) % Capacity
    BY <1>1, ModulusFacts, ModLaps
  <2>. QED BY <2>1, <1>1
<1>3. Advance(p, n) % Capacity = (p + n) % Capacity
  BY <1>2, AdvanceIs
<1>4. (p + n) % Capacity \in Slot
  BY <1>1, ModulusFacts, DivMod DEF Slot
<1>. QED BY <1>3, <1>4

(* Samples less than a capacity apart lie in different slots. *)
LEMMA SlotsDiffer ==
  ASSUME NEW p \in Position, NEW i \in 0 .. Capacity, NEW j \in 0 .. Capacity,
         i # j, i < Capacity, j < Capacity
  PROVE  Advance(p, i) % Capacity # Advance(p, j) % Capacity
<1>1. p \in Int /\ Capacity \in Nat \ {0}
  BY ModulusFacts DEF Position
<1>2. CASE i < j
  <2>1. p + i \in Int /\ p + j \in Int /\ p + i < p + j /\ p + j < p + i + Capacity
    BY <1>1, <1>2
  <2>2. (p + i) % Capacity # (p + j) % Capacity
    BY <1>1, <2>1, ModDistinct
  <2>. QED BY <2>2, SlotOfAdvance
<1>3. CASE j < i
  <2>1. p + i \in Int /\ p + j \in Int /\ p + j < p + i /\ p + i < p + j + Capacity
    BY <1>1, <1>3
  <2>2. (p + j) % Capacity # (p + i) % Capacity
    BY <1>1, <2>1, ModDistinct
  <2>. QED BY <2>2, SlotOfAdvance
<1>. QED BY <1>2, <1>3

(* The two pieces of a copy put element i where position pos + i belongs. *)
LEMMA CopyIndexIsSlot ==
  ASSUME NEW pos \in Position, NEW n \in 0 .. Capacity, NEW i \in 0 .. n - 1
  PROVE  CopyIndex(pos, n, i) = Advance(pos, i) % Capacity
<1> DEFINE index == pos % Capacity
           q == pos \div Capacity
<1>0. i \in 0 .. Capacity
  BY ModulusFacts
<1>1. /\ index \in 0 .. Capacity - 1 /\ q \in Int
      /\ pos = Capacity * q + index /\ Capacity \in Nat \ {0}
  <2>1. pos \in Int
    BY ModulusFacts DEF Position
  <2>. QED BY <2>1, ModulusFacts, DivMod
<1> HIDE DEF q
<1>2. CopyIndex(pos, n, i) =
        IF index + i < Capacity THEN index + i ELSE index + i - Capacity
  BY <1>1 DEF CopyIndex, Lesser
<1> HIDE DEF index
<1>3. CASE index + i < Capacity
  <2>1. pos + i = Capacity * q + (index + i) /\ index + i \in 0 .. Capacity - 1
    BY <1>1, <1>3
  <2>2. (pos + i) % Capacity = index + i
    BY <2>1, <1>1, ModUnique
  <2>. QED BY <2>2, <1>0, <1>2, <1>3, SlotOfAdvance
<1>4. CASE index + i >= Capacity
  <2>1. /\ pos + i = Capacity * (q + 1) + (index + i - Capacity)
        /\ index + i - Capacity \in 0 .. Capacity - 1
    BY <1>1, <1>4
  <2>2. (pos + i) % Capacity = index + i - Capacity
    BY <2>1, <1>1, ModUnique
  <2>. QED BY <2>2, <1>0, <1>1, <1>2, <1>4, SlotOfAdvance
<1>5. index + i \in Int /\ Capacity \in Int
  BY <1>1
<1>. QED BY <1>3, <1>4, <1>5

-------------------------------------------------------------------------------
(* The inductive invariant.  Sight relates the positions to what each side  *)
(* last saw of the other: the order around the ring is wSeen, readPos,      *)
(* rSeen, writePos, all within one capacity, and a copy in progress stays   *)
(* inside the room or the data its thread saw.                              *)

Sight ==
  /\ Dist(writePos, wSeen) <= Capacity
  /\ Dist(writePos, wSeen) = Dist(writePos, readPos) + Dist(readPos, wSeen)
  /\ Dist(writePos, readPos) = Dist(writePos, rSeen) + Dist(rSeen, readPos)
  /\ wRoom <= Capacity - Dist(writePos, wSeen)
  /\ wpc = "copy" => wRoom = 0 /\ Dist(writePos, wSeen) + wCount <= Capacity
  /\ rpc = "copy" => rCount <= Dist(rSeen, readPos)

(* What is in the slots between the two positions, behind an unfinished     *)
(* write, and in the reader's hands.                                        *)
Unread ==
  \A k \in 0 .. Used - 1 :
    slots[Advance(readPos, k) % Capacity] = Advance(readPos, k)

CopiedIn ==
  wpc = "copy" => \A i \in 0 .. wDone - 1 :
    slots[Advance(writePos, i) % Capacity] = Advance(writePos, i)

CopiedOut ==
  rpc = "copy" => \A j \in 1 .. Len(out) : out[j] = Advance(readPos, j - 1)

IInv == TypeOK /\ Sight /\ Unread /\ CopiedIn /\ CopiedOut

(* Type correctness and the order of the positions hold at the start.       *)
LEMMA InitSight == Init => TypeOK /\ Sight
<1> SUFFICES ASSUME Init
             PROVE  TypeOK /\ Sight
  OBVIOUS
<1>1. 0 \in Position /\ Dist(0, 0) = 0
  BY ModulusFacts, DistIs DEF Position
<1>. QED BY <1>1, ModulusFacts, BlockAssumption DEF Init, TypeOK, Sight, Lesser, Slot

(* The distances the invariant speaks of are numbers. *)
LEMMA SightTyped ==
  ASSUME TypeOK
  PROVE  /\ Dist(writePos, wSeen) \in Position /\ Dist(writePos, readPos) \in Position
         /\ Dist(readPos, wSeen) \in Position /\ Dist(writePos, rSeen) \in Position
         /\ Dist(rSeen, readPos) \in Position
BY DistIs DEF TypeOK

(* Whatever a load of the other side's position returns lies between what   *)
(* was seen before and the position itself.                                 *)
LEMMA LoadOfReadPos ==
  ASSUME TypeOK, Sight, NEW r \in Between(wSeen, readPos)
  PROVE  /\ r \in Position
         /\ Dist(writePos, r) = Dist(writePos, readPos) + Dist(readPos, r)
         /\ Dist(writePos, r) \in 0 .. Capacity
         /\ Dist(writePos, r) <= Dist(writePos, wSeen)
<1>1. r \in Position /\ Dist(r, wSeen) <= Dist(readPos, wSeen)
  BY DEF Between
<1>2. Dist(r, wSeen) \in Position /\ Dist(writePos, r) \in Position
  BY <1>1, DistIs DEF TypeOK
<1>3. Dist(readPos, r) = Dist(readPos, wSeen) - Dist(r, wSeen)
  BY <1>1, DistSplits DEF TypeOK
<1>4. Dist(r, wSeen) <= Dist(writePos, wSeen)
  BY <1>1, <1>2, SightTyped, ModulusFacts DEF Sight, Position
<1>5. Dist(writePos, r) = Dist(writePos, wSeen) - Dist(r, wSeen)
  BY <1>1, <1>4, DistSplits DEF TypeOK
<1>. QED BY <1>1, <1>2, <1>3, <1>5, SightTyped, ModulusFacts DEF Sight, Position

LEMMA LoadOfWritePos ==
  ASSUME TypeOK, Sight, NEW w \in Between(rSeen, writePos)
  PROVE  /\ w \in Position
         /\ Dist(writePos, readPos) = Dist(writePos, w) + Dist(w, readPos)
         /\ Dist(w, readPos) \in 0 .. Capacity
<1>1. w \in Position /\ Dist(w, rSeen) <= Dist(writePos, rSeen)
  BY DEF Between
<1>2. /\ Dist(w, rSeen) \in Position /\ Dist(writePos, w) \in Position
      /\ Dist(w, readPos) \in Position
  BY <1>1, DistIs DEF TypeOK
<1>3. Dist(writePos, w) = Dist(writePos, rSeen) - Dist(w, rSeen)
  BY <1>1, DistSplits DEF TypeOK
<1>4. Dist(w, rSeen) + Dist(rSeen, readPos) < Modulus
  BY <1>1, <1>2, SightTyped, ModulusFacts DEF Sight, Position
<1>5. Dist(w, readPos) = Dist(w, rSeen) + Dist(rSeen, readPos)
  BY <1>1, <1>4, DistAdds DEF TypeOK
<1>. QED BY <1>1, <1>2, <1>3, <1>5, SightTyped, ModulusFacts DEF Sight, Position

(* Every step keeps them.                                                   *)
LEMMA NextSight == TypeOK /\ Sight /\ [Next]_vars => (TypeOK /\ Sight)'
<1> SUFFICES ASSUME TypeOK, Sight, [Next]_vars
             PROVE  (TypeOK /\ Sight)'
  OBVIOUS
<1> USE ModulusFacts, BlockAssumption
<1>1. CASE AvailableToWrite
  <2>1. PICK r \in Between(wSeen, readPos) : wSeen' = r /\ wRoom' = Space(r)
    BY <1>1 DEF AvailableToWrite
  <2>2. /\ r \in Position
        /\ Dist(writePos, r) = Dist(writePos, readPos) + Dist(readPos, r)
        /\ Dist(writePos, r) \in 0 .. Capacity
    BY <2>1, LoadOfReadPos
  <2>3. TypeOK'
    BY <1>1, <2>1, <2>2 DEF AvailableToWrite, TypeOK, consVars, Space
  <2>4. Sight'
    BY <1>1, <2>1, <2>2 DEF AvailableToWrite, Sight, TypeOK, consVars, Space
  <2>. QED BY <2>3, <2>4
<1>2. ASSUME NEW count \in 1 .. MaxBlock, WriteBegin(count)
      PROVE  (TypeOK /\ Sight)'
  <2>1. PICK r \in Between(wSeen, readPos) :
          /\ wSeen' = r /\ wCount' = Lesser(count, Space(r))
          /\ wpc' = IF wCount' = 0 THEN "idle" ELSE "copy"
    BY <1>2 DEF WriteBegin, Fitting
  <2>2. /\ r \in Position
        /\ Dist(writePos, r) = Dist(writePos, readPos) + Dist(readPos, r)
        /\ Dist(writePos, r) \in 0 .. Capacity
    BY <2>1, LoadOfReadPos
  <2>3. /\ wCount' \in 0 .. Lesser(Capacity, MaxBlock)
        /\ Dist(writePos, r) + wCount' <= Capacity
    BY <2>1, <2>2 DEF Lesser, Space
  <2>4. TypeOK'
    BY <1>2, <2>1, <2>2, <2>3 DEF WriteBegin, TypeOK, consVars
  <2>5. Sight'
    BY <1>2, <2>1, <2>2, <2>3 DEF WriteBegin, Sight, TypeOK, consVars
  <2>. QED BY <2>4, <2>5
<1>3. CASE WriteCopy
  <2>1. wDone \in 0 .. wCount - 1 /\ wCount \in 0 .. Capacity
    BY <1>3 DEF WriteCopy, TypeOK, Lesser
  <2>2. wDone \in 0 .. Capacity
    BY <2>1
  <2>3. /\ CopyIndex(writePos, wCount, wDone) \in Slot
        /\ Advance(writePos, wDone) \in Position
    BY <2>1, <2>2, CopyIndexIsSlot, SlotOfAdvance, AdvanceIs DEF TypeOK
  <2>4. TypeOK'
    BY <1>3, <2>1, <2>3 DEF WriteCopy, TypeOK, consVars
  <2>5. Sight'
    BY <1>3 DEF WriteCopy, Sight, TypeOK, consVars
  <2>. QED BY <2>4, <2>5
<1>4. CASE WritePublish
  <2>1. wCount \in 0 .. Capacity /\ Dist(writePos, wSeen) + wCount <= Capacity /\ wRoom = 0
    BY <1>4 DEF WritePublish, TypeOK, Sight, Lesser
  <2>2. writePos' \in Position /\ writePos' = Advance(writePos, wCount)
    BY <1>4, <2>1, AdvanceIs DEF WritePublish, TypeOK
  <2>3. /\ Dist(writePos', wSeen) = Dist(writePos, wSeen) + wCount
        /\ Dist(writePos', readPos) = Dist(writePos, readPos) + wCount
        /\ Dist(writePos', rSeen) = Dist(writePos, rSeen) + wCount
    <3>1. /\ Dist(writePos, wSeen) + wCount < Modulus
          /\ Dist(writePos, readPos) + wCount < Modulus
          /\ Dist(writePos, rSeen) + wCount < Modulus
      BY <2>1, SightTyped DEF Sight, Position
    <3>. QED BY <2>1, <2>2, <3>1, AdvanceOpens DEF TypeOK
  <2>4. TypeOK'
    BY <1>4, <2>2 DEF WritePublish, TypeOK, consVars
  <2>5. Sight'
    BY <1>4, <2>1, <2>2, <2>3, SightTyped DEF WritePublish, Sight, consVars, Position
  <2>. QED BY <2>4, <2>5
<1>5. ASSUME NEW count \in 1 .. MaxBlock, ReadBegin(count)
      PROVE  (TypeOK /\ Sight)'
  <2>1. PICK w \in Between(rSeen, writePos) :
          /\ rSeen' = w /\ rCount' = Lesser(count, Dist(w, readPos))
          /\ rpc' = IF rCount' = 0 THEN "idle" ELSE "copy"
    BY <1>5 DEF ReadBegin
  <2>2. /\ w \in Position
        /\ Dist(writePos, readPos) = Dist(writePos, w) + Dist(w, readPos)
        /\ Dist(w, readPos) \in 0 .. Capacity
    BY <2>1, LoadOfWritePos
  <2>3. /\ rCount' \in 0 .. Lesser(Capacity, MaxBlock)
        /\ rCount' <= Dist(w, readPos)
    BY <2>1, <2>2 DEF Lesser
  <2>4. out' = <<>> /\ Len(out') = 0 /\ out' \in Seq(Position \cup {NoSample})
    BY <1>5 DEF ReadBegin
  <2>5. TypeOK'
    BY <1>5, <2>1, <2>2, <2>3, <2>4 DEF ReadBegin, TypeOK, prodVars
  <2>6. Sight'
    BY <1>5, <2>1, <2>2, <2>3 DEF ReadBegin, Sight, TypeOK, prodVars
  <2>. QED BY <2>5, <2>6
<1>6. CASE ReadCopy
  <2>1. Len(out) \in 0 .. rCount - 1 /\ rCount \in 0 .. Capacity
    BY <1>6 DEF ReadCopy, TypeOK, Lesser
  <2>2. Len(out) \in 0 .. Capacity
    BY <2>1
  <2>3. CopyIndex(readPos, rCount, Len(out)) \in Slot
    BY <2>1, <2>2, CopyIndexIsSlot, SlotOfAdvance DEF TypeOK
  <2>4. out' \in Seq(Position \cup {NoSample}) /\ Len(out') = Len(out) + 1
    BY <1>6, <2>3 DEF ReadCopy, TypeOK
  <2>5. TypeOK'
    BY <1>6, <2>1, <2>4 DEF ReadCopy, TypeOK, prodVars
  <2>6. Sight'
    BY <1>6 DEF ReadCopy, Sight, prodVars
  <2>. QED BY <2>5, <2>6
<1>7. CASE ReadPublish
  <2>1. rCount \in 0 .. Capacity /\ rCount <= Dist(rSeen, readPos)
    BY <1>7 DEF ReadPublish, TypeOK, Sight, Lesser
  <2>2. readPos' \in Position /\ readPos' = Advance(readPos, rCount)
    BY <1>7, <2>1, AdvanceIs DEF ReadPublish, TypeOK
  <2>3. /\ Dist(writePos, readPos') = Dist(writePos, readPos) - rCount
        /\ Dist(rSeen, readPos') = Dist(rSeen, readPos) - rCount
        /\ Dist(readPos', wSeen) = Dist(readPos, wSeen) + rCount
    <3>1. /\ rCount <= Dist(writePos, readPos)
          /\ Dist(readPos, wSeen) + rCount < Modulus
      BY <2>1, SightTyped DEF Sight, Position
    <3>. QED BY <2>1, <2>2, <3>1, AdvanceOpens, AdvanceCloses DEF TypeOK
  <2>4. TypeOK'
    BY <1>7, <2>2 DEF ReadPublish, TypeOK, prodVars
  <2>5. Sight'
    <3>1. /\ UNCHANGED <<writePos, wSeen, wRoom, wCount, wpc, rSeen>> /\ rpc' = "idle"
      BY <1>7 DEF ReadPublish, prodVars
    <3>2. /\ Dist(writePos, wSeen) = Dist(writePos, readPos') + Dist(readPos', wSeen)
          /\ Dist(writePos, readPos') = Dist(writePos, rSeen) + Dist(rSeen, readPos')
      BY <2>1, <2>3, SightTyped DEF Sight, Position
    <3>. QED BY <3>1, <3>2 DEF Sight
  <2>. QED BY <2>4, <2>5
<1>8. CASE Clear
  <2>1. 0 \in Position /\ Dist(0, 0) = 0
    BY DistIs DEF Position
  <2>. QED BY <1>8, <2>1 DEF Clear, TypeOK, Sight
<1>9. CASE UNCHANGED vars
  BY <1>9 DEF vars, prodVars, consVars, TypeOK, Sight
<1>. QED BY <1>1, <1>2, <1>3, <1>4, <1>5, <1>6, <1>7, <1>8, <1>9 DEF Next

(* The ring buffer is type correct: counters stay in range through every    *)
(* wrap, and a copy is never longer than the buffer.                        *)
THEOREM TypeCorrect == Spec => []TypeOK
BY InitSight, NextSight, PTL DEF Spec

-------------------------------------------------------------------------------
(* The content of the slots.                                                *)

(* Advancing in two steps, and counting from another position. *)
LEMMA AdvanceTwice ==
  ASSUME NEW p \in Position, NEW m \in 0 .. Capacity, NEW n \in 0 .. Capacity,
         m + n <= Capacity
  PROVE  Advance(Advance(p, m), n) = Advance(p, m + n)
<1> DEFINE a == Advance(p, m)
<1>1. a \in Position /\ a = IF p + m < Modulus THEN p + m ELSE p + m - Modulus
  BY AdvanceIs
<1> HIDE DEF a
<1>2. Advance(a, n) = IF a + n < Modulus THEN a + n ELSE a + n - Modulus
  BY <1>1, AdvanceIs
<1>3. m + n \in 0 .. Capacity /\ m \in Int /\ n \in Int
  BY ModulusFacts
<1>4. Advance(p, m + n) =
        IF p + (m + n) < Modulus THEN p + (m + n) ELSE p + (m + n) - Modulus
  BY <1>3, AdvanceIs
<1>5. Advance(a, n) = Advance(p, m + n)
  BY <1>1, <1>2, <1>3, <1>4, ModulusFacts DEF Position
<1>. QED BY <1>5 DEF a

LEMMA AdvanceFrom ==
  ASSUME NEW p \in Position, NEW q \in Position, NEW n \in 0 .. Capacity,
         Dist(p, q) + n <= Capacity
  PROVE  Advance(p, n) = Advance(q, Dist(p, q) + n)
<1>1. Dist(p, q) \in Position /\ n \in Int
  BY DistIs, ModulusFacts
<1>2. Dist(p, q) \in 0 .. Capacity
  BY <1>1, ModulusFacts DEF Position
<1>3. Dist(p, q) = IF p >= q THEN p - q ELSE p - q + Modulus
  BY DistIs
<1>4. Advance(q, Dist(p, q)) = p
  BY <1>2, <1>3, AdvanceIs, ModulusFacts DEF Position
<1>. QED BY <1>2, <1>4, AdvanceTwice

(* How much there is, and how far a copy reaches, in small numbers. *)
LEMMA CopyBounds ==
  ASSUME TypeOK, Sight
  PROVE  /\ Used \in 0 .. Capacity
         /\ wCount \in 0 .. Capacity /\ wDone \in 0 .. wCount
         /\ rCount \in 0 .. Capacity /\ Len(out) \in 0 .. rCount
         /\ wpc = "copy" => Used + wCount <= Capacity
         /\ rpc = "copy" => rCount <= Used
<1>1. Used \in 0 .. Capacity
  BY SightTyped, ModulusFacts DEF Sight, Position, Used
<1>2. /\ wCount \in 0 .. Capacity /\ wDone \in 0 .. wCount /\ rCount \in 0 .. Capacity
      /\ Len(out) \in Nat /\ Len(out) <= rCount
  BY ModulusFacts, BlockAssumption DEF TypeOK, Lesser
<1>3. wpc = "copy" => Used + wCount <= Capacity
  <2>1. Dist(readPos, wSeen) >= 0 /\ Dist(writePos, wSeen) = Used + Dist(readPos, wSeen)
    BY SightTyped DEF Sight, Position, Used
  <2>2. wpc = "copy" => Dist(writePos, wSeen) + wCount <= Capacity
    BY DEF Sight
  <2>3. Dist(readPos, wSeen) \in Int
    BY SightTyped DEF Position
  <2>. QED BY <1>1, <1>2, <2>1, <2>2, <2>3, ModulusFacts
<1>4. rpc = "copy" => rCount <= Used
  BY <1>1, <1>2, SightTyped, ModulusFacts DEF Sight, Position, Used
<1>5. Len(out) \in 0 .. rCount
  BY <1>2, ModulusFacts
<1>. QED BY <1>1, <1>2, <1>3, <1>4, <1>5

(* The slot of the next element of a write holds no unread sample, and none *)
(* of the elements of the same write.                                       *)
LEMMA WriteSlotFree ==
  ASSUME TypeOK, Sight, wpc = "copy", NEW i \in 0 .. wCount - 1
  PROVE  /\ \A k \in 0 .. Used - 1 :
              Advance(readPos, k) % Capacity # Advance(writePos, i) % Capacity
         /\ \A j \in 0 .. wCount - 1 : j # i =>
              Advance(writePos, j) % Capacity # Advance(writePos, i) % Capacity
<1>1. /\ Used \in 0 .. Capacity /\ wCount \in 0 .. Capacity /\ i \in 0 .. Capacity
      /\ Used + i \in 0 .. Capacity /\ Used + i < Capacity /\ i < Capacity
  BY CopyBounds, ModulusFacts
<1>2. Advance(writePos, i) = Advance(readPos, Used + i)
  BY <1>1, AdvanceFrom DEF TypeOK, Used
<1>3. ASSUME NEW k \in 0 .. Used - 1
      PROVE  Advance(readPos, k) % Capacity # Advance(writePos, i) % Capacity
  <2>1. k \in 0 .. Capacity /\ k < Capacity /\ k # Used + i
    BY <1>1, ModulusFacts
  <2>. QED BY <1>1, <1>2, <2>1, SlotsDiffer DEF TypeOK
<1>4. ASSUME NEW j \in 0 .. wCount - 1, j # i
      PROVE  Advance(writePos, j) % Capacity # Advance(writePos, i) % Capacity
  <2>1. j \in 0 .. Capacity /\ j < Capacity
    BY <1>1, ModulusFacts
  <2>. QED BY <1>1, <1>4, <2>1, SlotsDiffer DEF TypeOK
<1>. QED BY <1>3, <1>4

LEMMA NextData == IInv /\ [Next]_vars => (Unread /\ CopiedIn /\ CopiedOut)'
<1> SUFFICES ASSUME TypeOK, Sight, Unread, CopiedIn, CopiedOut, [Next]_vars
             PROVE  (Unread /\ CopiedIn /\ CopiedOut)'
  BY DEF IInv
<1>0. (TypeOK /\ Sight)'
  BY NextSight
<1>1. CASE AvailableToWrite
  BY <1>1 DEF AvailableToWrite, consVars, Unread, CopiedIn, CopiedOut, Used
<1>2. ASSUME NEW count \in 1 .. MaxBlock, WriteBegin(count)
      PROVE  (Unread /\ CopiedIn /\ CopiedOut)'
  BY <1>2 DEF WriteBegin, consVars, Unread, CopiedIn, CopiedOut, Used
<1>3. CASE WriteCopy
  <2> DEFINE p == Advance(writePos, wDone)
  <2>1. /\ wDone \in 0 .. wCount - 1 /\ wCount \in 0 .. Capacity /\ wDone \in 0 .. Capacity
        /\ wpc = "copy"
    BY <1>3, CopyBounds, ModulusFacts DEF WriteCopy
  <2>2. CopyIndex(writePos, wCount, wDone) = p % Capacity /\ p % Capacity \in Slot
    BY <2>1, CopyIndexIsSlot, SlotOfAdvance DEF TypeOK
  <2>3. slots' = [slots EXCEPT ![p % Capacity] = p] /\ wDone' = wDone + 1
    BY <1>3, <2>2 DEF WriteCopy
  <2>4. UNCHANGED <<writePos, readPos, wpc, wCount, rpc, rCount, out>>
    BY <1>3 DEF WriteCopy, consVars
  <2>5. slots'[p % Capacity] = p
    BY <2>2, <2>3 DEF TypeOK
  <2>6. \A s \in Slot : s # p % Capacity => slots'[s] = slots[s]
    BY <2>3 DEF TypeOK
  <2> HIDE DEF p
  <2>7. Unread'
    <3> SUFFICES ASSUME NEW k \in 0 .. Used - 1
                 PROVE  slots'[Advance(readPos, k) % Capacity] = Advance(readPos, k)
      BY <2>4 DEF Unread, Used
    <3>1. k \in 0 .. Capacity
      BY CopyBounds, ModulusFacts
    <3>2. Advance(readPos, k) % Capacity \in Slot
      BY <3>1, SlotOfAdvance DEF TypeOK
    <3>3. Advance(readPos, k) % Capacity # p % Capacity
      BY <2>1, WriteSlotFree DEF p
    <3>. QED BY <2>6, <3>2, <3>3 DEF Unread
  <2>8. CopiedIn'
    <3> SUFFICES ASSUME NEW i \in 0 .. wDone
                 PROVE  slots'[Advance(writePos, i) % Capacity] = Advance(writePos, i)
      BY <2>1, <2>3, <2>4 DEF CopiedIn
    <3>1. CASE i = wDone
      BY <3>1, <2>5 DEF p
    <3>2. CASE i # wDone
      <4>1. i \in 0 .. wDone - 1 /\ i \in 0 .. wCount - 1 /\ i \in 0 .. Capacity
        BY <2>1, <3>2, ModulusFacts
      <4>2. Advance(writePos, i) % Capacity \in Slot
        BY <4>1, SlotOfAdvance DEF TypeOK
      <4>3. Advance(writePos, i) % Capacity # p % Capacity
        BY <2>1, <3>2, <4>1, WriteSlotFree DEF p
      <4>. QED BY <2>1, <2>6, <4>1, <4>2, <4>3 DEF CopiedIn
    <3>. QED BY <3>1, <3>2
  <2>9. CopiedOut'
    BY <2>4 DEF CopiedOut
  <2>. QED BY <2>7, <2>8, <2>9
<1>4. CASE WritePublish
  <2>1. /\ wpc = "copy" /\ wDone = wCount /\ wpc' = "idle"
        /\ writePos' = Advance(writePos, wCount)
        /\ UNCHANGED <<readPos, slots, rpc, out>>
    BY <1>4 DEF WritePublish, consVars
  <2>2. /\ wCount \in 0 .. Capacity /\ Used \in 0 .. Capacity /\ Used + wCount <= Capacity
    BY <2>1, CopyBounds
  <2>3. Used' = Used + wCount
    <3>1. Dist(writePos, readPos) + wCount < Modulus
      BY <2>2, ModulusFacts DEF Used
    <3>. QED BY <2>1, <2>2, <3>1, AdvanceOpens DEF TypeOK, Used
  <2>4. ASSUME NEW k \in 0 .. Used + wCount - 1
        PROVE  slots[Advance(readPos, k) % Capacity] = Advance(readPos, k)
    <3>1. CASE k \in 0 .. Used - 1
      BY <3>1 DEF Unread
    <3>2. CASE k \in Used .. Used + wCount - 1
      <4>1. /\ k - Used \in 0 .. wDone - 1 /\ k - Used \in 0 .. Capacity
            /\ Used + (k - Used) <= Capacity /\ Used + (k - Used) = k
        BY <2>1, <2>2, <3>2, ModulusFacts
      <4>2. Advance(writePos, k - Used) = Advance(readPos, k)
        BY <4>1, AdvanceFrom DEF TypeOK, Used
      <4>. QED BY <2>1, <4>1, <4>2 DEF CopiedIn
    <3>. QED BY <2>2, <3>1, <3>2, ModulusFacts
  <2>5. Unread'
    <3> SUFFICES ASSUME NEW k \in 0 .. Used' - 1
                 PROVE  slots[Advance(readPos, k) % Capacity] = Advance(readPos, k)
      BY <2>1 DEF Unread
    <3>. QED BY <2>2, <2>3, <2>4, ModulusFacts
  <2>6. CopiedIn' /\ CopiedOut'
    BY <2>1 DEF CopiedIn, CopiedOut
  <2>. QED BY <2>5, <2>6
<1>5. ASSUME NEW count \in 1 .. MaxBlock, ReadBegin(count)
      PROVE  (Unread /\ CopiedIn /\ CopiedOut)'
  <2>1. UNCHANGED <<writePos, readPos, slots, wpc, wDone>> /\ out' = <<>>
    BY <1>5 DEF ReadBegin, prodVars
  <2>2. Len(out') = 0
    BY <2>1
  <2>. QED BY <2>1, <2>2 DEF Unread, CopiedIn, CopiedOut, Used
<1>6. CASE ReadCopy
  <2> DEFINE n == Len(out)
  <2>1. /\ rpc = "copy" /\ n \in 0 .. rCount - 1 /\ rCount \in 0 .. Capacity
        /\ n \in 0 .. Capacity /\ n \in 0 .. Used - 1
    BY <1>6, CopyBounds, ModulusFacts DEF ReadCopy
  <2>2. out' = Append(out, slots[Advance(readPos, n) % Capacity])
    BY <1>6, <2>1, CopyIndexIsSlot DEF ReadCopy, TypeOK
  <2>3. slots[Advance(readPos, n) % Capacity] = Advance(readPos, n)
    BY <2>1 DEF Unread
  <2>4. UNCHANGED <<writePos, readPos, slots, wpc, wDone>>
    BY <1>6 DEF ReadCopy, prodVars
  <2>5. ASSUME NEW j \in 1 .. Len(out')
        PROVE  out'[j] = Advance(readPos, j - 1)
    <3>1. out \in Seq(Position \cup {NoSample}) /\ n \in Nat
      BY DEF TypeOK
    <3>2. CASE j = n + 1
      BY <2>2, <2>3, <3>1, <3>2
    <3>3. CASE j \in 1 .. n
      BY <2>1, <2>2, <3>1, <3>3 DEF CopiedOut
    <3>. QED BY <2>2, <3>1, <3>2, <3>3
  <2>. QED BY <2>4, <2>5 DEF Unread, CopiedIn, CopiedOut, Used
<1>7. CASE ReadPublish
  <2>1. /\ rpc = "copy" /\ rpc' = "idle" /\ readPos' = Advance(readPos, rCount)
        /\ UNCHANGED <<writePos, slots, wpc, wDone>>
    BY <1>7 DEF ReadPublish, prodVars
  <2>2. rCount \in 0 .. Capacity /\ Used \in 0 .. Capacity /\ rCount <= Used
    BY <2>1, CopyBounds
  <2>3. Used' = Used - rCount
    BY <2>1, <2>2, AdvanceCloses DEF TypeOK, Used
  <2>4. ASSUME NEW k \in 0 .. Used - rCount - 1
        PROVE  slots[Advance(readPos', k) % Capacity] = Advance(readPos', k)
    <3>1. /\ k \in 0 .. Capacity /\ rCount + k <= Capacity /\ rCount + k \in 0 .. Used - 1
      BY <2>2, ModulusFacts
    <3>2. Advance(readPos', k) = Advance(readPos, rCount + k)
      BY <2>1, <2>2, <3>1, AdvanceTwice DEF TypeOK
    <3>. QED BY <3>1, <3>2 DEF Unread
  <2>. QED BY <2>1, <2>3, <2>4 DEF Unread, CopiedIn, CopiedOut
<1>8. CASE Clear
  <2>1. Dist(0, 0) = 0
    BY DistIs, ModulusFacts DEF Position
  <2>2. Used' = 0 /\ wpc' = "idle" /\ rpc' = "idle"
    BY <1>8, <2>1 DEF Clear, Used
  <2>. QED BY <2>2 DEF Unread, CopiedIn, CopiedOut
<1>9. CASE UNCHANGED vars
  BY <1>9 DEF vars, prodVars, consVars, Unread, CopiedIn, CopiedOut, Used
<1>. QED BY <1>1, <1>2, <1>3, <1>4, <1>5, <1>6, <1>7, <1>8, <1>9 DEF Next

LEMMA InitIInv == Init => IInv
<1> SUFFICES ASSUME Init
             PROVE  IInv
  OBVIOUS
<1>1. TypeOK /\ Sight
  BY InitSight
<1>2. Dist(0, 0) = 0
  BY DistIs, ModulusFacts DEF Position
<1>3. Used = 0 /\ wpc = "idle" /\ rpc = "idle"
  BY <1>2 DEF Init, Used
<1>. QED BY <1>1, <1>3 DEF IInv, Unread, CopiedIn, CopiedOut

(* The inductive invariant holds in every reachable state.                  *)
THEOREM Inductive == Spec => []IInv
<1>1. IInv /\ [Next]_vars => IInv'
  BY NextSight, NextData DEF IInv
<1>. QED BY InitIInv, <1>1, PTL DEF Spec

(* No audio is lost or overwritten: a published sample stays in its slot    *)
(* until the consumer hands the slot back.                                  *)
THEOREM DataIntactHolds == Spec => []DataIntact
<1>1. IInv => DataIntact
  BY CopyBounds DEF IInv, DataIntact, Unread
<1>. QED BY Inductive, <1>1, PTL

(* The two memcpys never touch the same element.                            *)
THEOREM NoDataRaceHolds == Spec => []NoDataRace
<1>1. IInv => NoDataRace
  <2> SUFFICES ASSUME TypeOK, Sight, wpc = "copy", rpc = "copy",
                      NEW i \in wDone .. wCount - 1, NEW j \in Len(out) .. rCount - 1
               PROVE  CopyIndex(writePos, wCount, i) # CopyIndex(readPos, rCount, j)
    BY DEF IInv, NoDataRace
  <2>1. /\ wCount \in 0 .. Capacity /\ i \in 0 .. wCount - 1
        /\ rCount \in 0 .. Capacity /\ j \in 0 .. rCount - 1 /\ j \in 0 .. Used - 1
    BY CopyBounds, ModulusFacts
  <2>2. /\ CopyIndex(writePos, wCount, i) = Advance(writePos, i) % Capacity
        /\ CopyIndex(readPos, rCount, j) = Advance(readPos, j) % Capacity
    BY <2>1, CopyIndexIsSlot DEF TypeOK
  <2>. QED BY <2>1, <2>2, WriteSlotFree
<1>. QED BY Inductive, <1>1, PTL

(* A block the decode thread checked to fit is written as a whole, so that  *)
(* ignoring what write() returns loses nothing.                             *)
THEOREM CheckedBlockFitsHolds == Spec => CheckedBlockFits
<1>1. IInv /\ [Next]_vars => [\A count \in 1 .. MaxBlock :
                     WriteBegin(count) /\ count <= wRoom => wCount' = count]_vars
  <2> SUFFICES ASSUME TypeOK, Sight, NEW count \in 1 .. MaxBlock,
                      WriteBegin(count), count <= wRoom
               PROVE  wCount' = count
    BY DEF IInv
  <2>1. PICK r \in Between(wSeen, readPos) : wCount' = Lesser(count, Space(r))
    BY DEF WriteBegin, Fitting
  <2>2. Dist(writePos, r) \in 0 .. Capacity /\ Dist(writePos, r) <= Dist(writePos, wSeen)
    BY LoadOfReadPos
  <2>3. wRoom \in Int /\ wRoom <= Capacity - Dist(writePos, wSeen)
    BY ModulusFacts DEF TypeOK, Sight
  <2>4. count <= Space(r)
    BY <2>2, <2>3, SightTyped, ModulusFacts, BlockAssumption DEF Space, Position
  <2>. QED BY <2>1, <2>4 DEF Lesser
<1>. QED BY Inductive, <1>1, PTL DEF CheckedBlockFits, Spec

-------------------------------------------------------------------------------
(* The buffer implements the FIFO.                                          *)

(* n consecutive samples from position p on. *)
Block(p, n) == [k \in 1 .. n |-> Advance(p, k - 1)]

LEMMA BlockIsSeq ==
  ASSUME NEW p \in Position, NEW n \in 0 .. Capacity
  PROVE  /\ Block(p, n) \in Seq(Position) /\ Len(Block(p, n)) = n
         /\ \A k \in 1 .. n : Block(p, n)[k] = Advance(p, k - 1)
<1>1. \A k \in 1 .. n : Advance(p, k - 1) \in Position
  BY AdvanceIs, ModulusFacts
<1>2. n \in Nat
  BY ModulusFacts
<1>. QED BY <1>1, <1>2 DEF Block

(* What is unread is a block of consecutive samples, whatever the slots     *)
(* beyond it hold.                                                          *)
LEMMA UnreadIsBlock == IInv => unread = Block(readPos, Used)
<1> SUFFICES ASSUME IInv
             PROVE  unread = Block(readPos, Used)
  OBVIOUS
<1>1. \A k \in 1 .. Used :
        slots[Advance(readPos, k - 1) % Capacity] = Advance(readPos, k - 1)
  BY CopyBounds, ModulusFacts DEF IInv, Unread
<1>. QED BY <1>1 DEF unread, Block

(* A completed read returned a block. *)
LEMMA AnswerIsBlock ==
  ASSUME IInv, rpc = "copy", Len(out) = rCount
  PROVE  out = Block(readPos, rCount)
<1>1. rCount \in 0 .. Capacity /\ out \in Seq(Position \cup {NoSample})
  BY CopyBounds DEF IInv, TypeOK
<1>2. out = [j \in 1 .. rCount |-> out[j]]
  BY <1>1
<1>3. \A j \in 1 .. rCount : out[j] = Advance(readPos, j - 1)
  BY DEF IInv, CopiedOut
<1>. QED BY <1>2, <1>3 DEF Block

(* What write() publishes goes to the end of the queue. *)
LEMMA BlockAppend ==
  ASSUME NEW p \in Position, NEW q \in Position, NEW m \in 0 .. Capacity,
         NEW n \in 0 .. Capacity, m + n <= Capacity, q = Advance(p, m)
  PROVE  Block(p, m + n) = Block(p, m) \o Block(q, n)
<1>1. m + n \in 0 .. Capacity /\ m \in Nat /\ n \in Nat
  BY ModulusFacts
<1>2. /\ Block(p, m) \in Seq(Position) /\ Len(Block(p, m)) = m
      /\ Block(q, n) \in Seq(Position) /\ Len(Block(q, n)) = n
      /\ Block(p, m + n) \in Seq(Position) /\ Len(Block(p, m + n)) = m + n
  BY <1>1, BlockIsSeq
<1> DEFINE s == Block(p, m)
           t == Block(q, n)
<1>3. s \in Seq(Position) /\ t \in Seq(Position) /\ Len(s) = m /\ Len(t) = n
  BY <1>2
<1>4. ASSUME NEW k \in 1 .. m + n
      PROVE  Block(p, m + n)[k] = IF k <= m THEN s[k] ELSE t[k - m]
  <2>1. Block(p, m + n)[k] = Advance(p, k - 1)
    BY <1>1, BlockIsSeq
  <2>2. CASE k <= m
    <3>1. s[k] = Advance(p, k - 1)
      BY <1>1, <2>2, BlockIsSeq
    <3>. QED BY <2>1, <2>2, <3>1
  <2>3. CASE k > m
    <3>1. t[k - m] = Advance(q, k - m - 1)
      BY <1>1, <2>3, BlockIsSeq
    <3>2. k - m - 1 \in 0 .. Capacity /\ m + (k - m - 1) <= Capacity /\ m + (k - m - 1) = k - 1
      BY <1>1, <2>3, ModulusFacts
    <3>3. Advance(q, k - m - 1) = Advance(p, k - 1)
      BY <3>2, AdvanceTwice
    <3>4. ~(k <= m)
      BY <1>1, <2>3
    <3>. QED BY <2>1, <3>1, <3>3, <3>4
  <2>. QED BY <1>1, <2>2, <2>3
<1> HIDE DEF s, t
<1>5. /\ s \o t \in Seq(Position) /\ Len(s \o t) = m + n
      /\ \A k \in 1 .. m + n : (s \o t)[k] = IF k <= m THEN s[k] ELSE t[k - m]
  BY <1>1, <1>3, ConcatProperties
<1>6. Block(p, m + n) = s \o t
  BY <1>2, <1>4, <1>5, SeqEqual
<1>. QED BY <1>6 DEF s, t

(* A read cuts the queue into what it returns and what is left. *)
LEMMA BlockCut ==
  ASSUME NEW p \in Position, NEW n \in 0 .. Capacity, NEW m \in 0 .. n
  PROVE  /\ SubSeq(Block(p, n), 1, m) = Block(p, m)
         /\ SubSeq(Block(p, n), m + 1, n) = Block(Advance(p, m), n - m)
<1>1. /\ m \in 0 .. Capacity /\ n - m \in 0 .. Capacity /\ m + (n - m) = n
      /\ m \in Nat /\ n \in Nat /\ m + (n - m) <= Capacity
  BY ModulusFacts
<1>2. Advance(p, m) \in Position
  BY <1>1, AdvanceIs
<1>3. Block(p, n) = Block(p, m) \o Block(Advance(p, m), n - m)
  BY <1>1, <1>2, BlockAppend
<1> DEFINE s == Block(p, m)
           t == Block(Advance(p, m), n - m)
<1>4. s \in Seq(Position) /\ t \in Seq(Position) /\ Len(s) = m /\ Len(t) = n - m
  BY <1>1, <1>2, BlockIsSeq
<1> HIDE DEF s, t
<1>5. SubSeq(s \o t, 1, Len(s)) = s /\ SubSeq(s \o t, Len(s) + 1, Len(s) + Len(t)) = t
  BY <1>4, <1>1
<1>. QED BY <1>1, <1>3, <1>4, <1>5 DEF s, t

(* Steps that move neither position leave the queue alone. *)
LEMMA QuietStep ==
  ASSUME IInv, IInv', UNCHANGED <<writePos, readPos>>
  PROVE  unread' = unread
<1>1. unread = Block(readPos, Used)
  BY UnreadIsBlock
<1>2. (unread = Block(readPos, Used))'
  BY UnreadIsBlock, PTL
<1>. QED BY <1>1, <1>2 DEF Used

LEMMA FifoInit == Init => Fifo!Init
<1> SUFFICES ASSUME Init
             PROVE  Fifo!Init
  OBVIOUS
<1>1. IInv /\ Used = 0
  BY InitIInv, DistIs, ModulusFacts DEF Init, Used, Position
<1>2. unread = <<>>
  BY <1>1, UnreadIsBlock DEF Block
<1>. QED BY <1>2 DEF Fifo!Init, Init, answer

LEMMA FifoStep == IInv /\ IInv' /\ [Next]_vars => [Fifo!Next]_(Fifo!vars)
<1> SUFFICES ASSUME IInv, IInv', [Next]_vars
             PROVE  [Fifo!Next]_(Fifo!vars)
  OBVIOUS
<1> USE DEF Fifo!vars
<1>0. unread = Block(readPos, Used) /\ unread' = Block(readPos', Used')
  <2>1. unread = Block(readPos, Used)
    BY UnreadIsBlock
  <2>2. (unread = Block(readPos, Used))'
    BY UnreadIsBlock, PTL
  <2>. QED BY <2>1, <2>2 DEF Block
<1>1. CASE AvailableToWrite
  BY <1>1, QuietStep DEF AvailableToWrite, consVars, answer
<1>2. ASSUME NEW count \in 1 .. MaxBlock, WriteBegin(count)
      PROVE  UNCHANGED Fifo!vars
  BY <1>2, QuietStep DEF WriteBegin, consVars, answer
<1>3. CASE WriteCopy
  BY <1>3, QuietStep DEF WriteCopy, consVars, answer
<1>4. CASE WritePublish
  <2>1. /\ wpc = "copy" /\ writePos' = Advance(writePos, wCount)
        /\ UNCHANGED <<readPos, answer>>
    BY <1>4 DEF WritePublish, consVars, answer
  <2>2. /\ wCount \in 0 .. Capacity /\ Used \in 0 .. Capacity /\ Used + wCount <= Capacity
        /\ writePos \in Position /\ readPos \in Position
    BY <2>1, CopyBounds DEF IInv, TypeOK
  <2>3. Used' = Used + wCount
    <3>1. Dist(writePos, readPos) + wCount < Modulus
      BY <2>2, ModulusFacts DEF Used
    <3>. QED BY <2>1, <2>2, <3>1, AdvanceOpens DEF Used
  <2>4. writePos = Advance(readPos, Used)
    <3>1. 0 \in 0 .. Capacity /\ Used + 0 = Used /\ Used + 0 <= Capacity
      BY <2>2, ModulusFacts
    <3>2. Advance(writePos, 0) = writePos
      BY <2>2, <3>1, AdvanceIs, ModulusFacts DEF Position
    <3>. QED BY <2>2, <3>1, <3>2, AdvanceFrom DEF Used
  <2>5. unread' = unread \o Block(writePos, wCount)
    BY <1>0, <2>1, <2>2, <2>3, <2>4, BlockAppend
  <2>6. Len(unread) = Used
    BY <1>0, <2>2, BlockIsSeq
  <2>7. Block(writePos, wCount) = [k \in 1 .. wCount |-> (writePos + k - 1) % Modulus]
    <3>1. \A k \in 1 .. wCount : Advance(writePos, k - 1) = (writePos + k - 1) % Modulus
      BY <2>2, ModulusFacts DEF Advance, Position
    <3>. QED BY <3>1 DEF Block
  <2>8. Fifo!Put(wCount)
    BY <2>1, <2>2, <2>5, <2>6, <2>7 DEF Fifo!Put, Advance
  <2>. QED BY <2>2, <2>8 DEF Fifo!Next
<1>5. ASSUME NEW count \in 1 .. MaxBlock, ReadBegin(count)
      PROVE  Fifo!Ask
  BY <1>5, QuietStep DEF ReadBegin, prodVars, answer, Fifo!Ask
<1>6. CASE ReadCopy
  BY <1>6, QuietStep DEF ReadCopy, prodVars, answer
<1>7. CASE ReadPublish
  <2>1. /\ rpc = "copy" /\ Len(out) = rCount /\ readPos' = Advance(readPos, rCount)
        /\ answer' = out /\ UNCHANGED writePos
    BY <1>7 DEF ReadPublish, prodVars, answer
  <2>2. /\ rCount \in 0 .. Used /\ rCount \in 0 .. Capacity /\ Used \in 0 .. Capacity
        /\ writePos \in Position /\ readPos \in Position
    BY <2>1, CopyBounds, ModulusFacts DEF IInv, TypeOK
  <2>3. Used' = Used - rCount
    BY <2>1, <2>2, AdvanceCloses, ModulusFacts DEF Used
  <2>4. /\ SubSeq(unread, 1, rCount) = Block(readPos, rCount)
        /\ SubSeq(unread, rCount + 1, Used) = unread'
    BY <1>0, <2>1, <2>2, <2>3, BlockCut
  <2>5. Len(unread) = Used /\ out = Block(readPos, rCount)
    BY <1>0, <2>1, <2>2, BlockIsSeq, AnswerIsBlock
  <2>6. Fifo!Get(rCount)
    BY <2>1, <2>2, <2>4, <2>5, ModulusFacts DEF Fifo!Get
  <2>. QED BY <2>2, <2>6 DEF Fifo!Next
<1>8. CASE Clear
  <2>1. Dist(0, 0) = 0
    BY DistIs, ModulusFacts DEF Position
  <2>2. Used' = 0 /\ writePos' = 0 /\ UNCHANGED answer
    BY <1>8, <2>1 DEF Clear, Used, answer
  <2>3. unread' = <<>>
    BY <1>0, <2>2 DEF Block
  <2>. QED BY <2>2, <2>3 DEF Fifo!Clear, Fifo!Next
<1>9. CASE UNCHANGED vars
  BY <1>9, QuietStep DEF vars, prodVars, consVars, answer
<1>. QED BY <1>1, <1>2, <1>3, <1>4, <1>5, <1>6, <1>7, <1>8, <1>9 DEF Next, Fifo!Next

(* The lock-free buffer implements the atomic FIFO: what comes out is what  *)
(* went in, in order, for every interleaving of the two threads.            *)
THEOREM FifoRefinement == Spec => ImplementsFifo
BY FifoInit, FifoStep, Inductive, PTL DEF Spec, ImplementsFifo, Fifo!Spec
===============================================================================
