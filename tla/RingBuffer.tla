------------------------------ MODULE RingBuffer ------------------------------
(***************************************************************************)
(* util/RingBuffer.h: the single-producer single-consumer queue of samples *)
(* between the decode thread and the audio callback.  A write is: load the *)
(* two positions, copy in at most two pieces, publish the write position.  *)
(* A read is the mirror image.  memcpy is one step per element, so every   *)
(* overlap of a copy in with a copy out is a behaviour of the model.       *)
(*                                                                         *)
(* Positions are size_t counters that are never reduced to an index, so    *)
(* they wrap: here modulo Modulus, a whole number of laps of the buffer    *)
(* (2^64 and a power of two in the program).  The sample at position p has *)
(* the stamp p.  A thread's acquire load of the other thread's position    *)
(* may return an older value, but never one older than it saw before.      *)
(***************************************************************************)
EXTENDS Integers, Sequences

CONSTANTS Capacity,   \* capacity_, elements
          Laps,       \* laps of the buffer before a position wraps
          MaxBlock,   \* largest count passed to write() or read()
          NoSample    \* content of a slot nothing was written to

ASSUME CapacityAssumption == Capacity \in Nat \ {0}
ASSUME LapsAssumption     == Laps \in Nat /\ Laps >= 2
ASSUME BlockAssumption    == MaxBlock \in Nat \ {0}

Modulus  == Laps * Capacity
Position == 0 .. Modulus - 1
Slot     == 0 .. Capacity - 1

VARIABLES
  writePos,   \* writePos_
  readPos,    \* readPos_
  slots,      \* buffer_
  wpc,        \* producer: "idle", or "copy" inside write()
  wSeen,      \* the read position the producer saw last
  wRoom,      \* the producer's last availableToWrite(), until it writes
  wCount,     \* toWrite
  wDone,      \* elements of it copied in so far
  rpc,        \* consumer: "idle", or "copy" inside read()
  rSeen,      \* the write position the consumer saw last
  rCount,     \* toRead
  out         \* elements copied out so far

prodVars == <<wpc, wSeen, wRoom, wCount, wDone>>
consVars == <<rpc, rSeen, rCount, out>>
vars     == <<writePos, readPos, slots, prodVars, consVars>>

-------------------------------------------------------------------------------
(* Unsigned arithmetic on positions, and the index arithmetic of a copy.    *)

Lesser(a, b) == IF a <= b THEN a ELSE b

Advance(p, n) == (p + n) % Modulus
Dist(p, q)    == (p - q) % Modulus     \* how far p is ahead of q

Used == Dist(writePos, readPos)

(* Mutants: one element too many; the difference the wrong way round. *)
SpaceOverfull(r) == Capacity + 1 - Dist(writePos, r)
SpaceSwapped(r)  == Capacity - Dist(r, writePos)

(* What the producer may still write, as far as it can tell. *)
Space(r) == Capacity - Dist(writePos, r)

(* Mutant: only the piece up to the end of the buffer is written. *)
FittingOnePiece(count, r) ==
  Lesser(Lesser(count, Space(r)), Capacity - (writePos % Capacity))

Fitting(count, r) == Lesser(count, Space(r))

(* Every position from lo up to hi: what a load may return. *)
Between(lo, hi) == {p \in Position : Dist(p, lo) <= Dist(hi, lo)}

(* Mutant: the second piece is not sent to the front of the buffer. *)
CopyIndexNoWrap(pos, n, i) == Lesser((pos % Capacity) + i, Capacity - 1)

(* The slot of element i of an n-element copy at pos: the first piece runs  *)
(* to the end of the buffer, the second starts over at its front.           *)
CopyIndex(pos, n, i) ==
  LET index     == pos % Capacity
      firstPart == Lesser(n, Capacity - index)
  IN  IF i < firstPart THEN index + i ELSE i - firstPart

-------------------------------------------------------------------------------
Init ==
  /\ writePos = 0 /\ readPos = 0
  /\ slots = [s \in Slot |-> NoSample]
  /\ wpc = "idle" /\ wSeen = 0 /\ wRoom = 0 /\ wCount = 0 /\ wDone = 0
  /\ rpc = "idle" /\ rSeen = 0 /\ rCount = 0 /\ out = <<>>

(* availableToWrite() on the producer's thread. *)
AvailableToWrite ==
  /\ wpc = "idle"
  /\ \E r \in Between(wSeen, readPos) :
       /\ wSeen' = r
       /\ wRoom' = Space(r)
  /\ UNCHANGED <<writePos, readPos, slots, wpc, wCount, wDone, consVars>>

(* write(): loads, and the amount that fits. *)
WriteBegin(count) ==
  /\ wpc = "idle"
  /\ \E r \in Between(wSeen, readPos) :
       LET toWrite == Fitting(count, r)
       IN  /\ wSeen' = r
           /\ wpc' = (IF toWrite = 0 THEN "idle" ELSE "copy")
           /\ wCount' = toWrite
  /\ wDone' = 0 /\ wRoom' = 0
  /\ UNCHANGED <<writePos, readPos, slots, consVars>>

(* write(): one element of the memcpy. *)
WriteCopy ==
  /\ wpc = "copy" /\ wDone < wCount
  /\ slots' = [slots EXCEPT ![CopyIndex(writePos, wCount, wDone)] =
                                                  Advance(writePos, wDone)]
  /\ wDone' = wDone + 1
  /\ UNCHANGED <<writePos, readPos, wpc, wSeen, wRoom, wCount, consVars>>

(* Mutant: the position is published before the data is in place. *)
WritePublishEarly ==
  /\ wpc = "copy" /\ wDone = 0
  /\ writePos' = Advance(writePos, wCount)
  /\ wpc' = "idle"
  /\ UNCHANGED <<readPos, slots, wSeen, wRoom, wCount, wDone, consVars>>

(* write(): the release store that makes the samples visible. *)
WritePublish ==
  /\ wpc = "copy" /\ wDone = wCount
  /\ writePos' = Advance(writePos, wCount)
  /\ wpc' = "idle"
  /\ UNCHANGED <<readPos, slots, wSeen, wRoom, wCount, wDone, consVars>>

(* read(): loads, and the amount there is. *)
ReadBegin(count) ==
  /\ rpc = "idle"
  /\ \E w \in Between(rSeen, writePos) :
       LET toRead == Lesser(count, Dist(w, readPos))
       IN  /\ rSeen' = w
           /\ rpc' = (IF toRead = 0 THEN "idle" ELSE "copy")
           /\ rCount' = toRead
  /\ out' = <<>>
  /\ UNCHANGED <<writePos, readPos, slots, prodVars>>

(* read(): one element of the memcpy. *)
ReadCopy ==
  /\ rpc = "copy" /\ Len(out) < rCount
  /\ out' = Append(out, slots[CopyIndex(readPos, rCount, Len(out))])
  /\ UNCHANGED <<writePos, readPos, slots, prodVars, rpc, rSeen, rCount>>

(* read(): the store that gives the slots back to the producer. *)
ReadPublish ==
  /\ rpc = "copy" /\ Len(out) = rCount
  /\ readPos' = Advance(readPos, rCount)
  /\ rpc' = "idle"
  /\ UNCHANGED <<writePos, slots, prodVars, rSeen, rCount, out>>

(* clear(): legal only while neither thread is inside the buffer, and with  *)
(* a thread joined or a device paused in between, which is also what makes  *)
(* both sides see the new positions.  PlaybackEngine shows that its callers *)
(* keep to this.                                                            *)
Clear ==
  /\ wpc = "idle" /\ rpc = "idle"
  /\ writePos' = 0 /\ readPos' = 0
  /\ wSeen' = 0 /\ rSeen' = 0 /\ wRoom' = 0
  /\ UNCHANGED <<slots, wpc, wCount, wDone, rpc, rCount, out>>

Next ==
  \/ AvailableToWrite \/ WriteCopy \/ WritePublish
  \/ ReadCopy \/ ReadPublish
  \/ Clear
  \/ \E count \in 1 .. MaxBlock : WriteBegin(count) \/ ReadBegin(count)

Spec == Init /\ [][Next]_vars

-------------------------------------------------------------------------------
(* Properties.                                                              *)

(* Type correctness: positions stay in the counter's range, slots hold      *)
(* stamps, and no copy is longer than the buffer or than what was asked.    *)
TypeOK ==
  /\ writePos \in Position /\ readPos \in Position
  /\ wSeen \in Position /\ rSeen \in Position
  /\ slots \in [Slot -> Position \cup {NoSample}]
  /\ wpc \in {"idle", "copy"} /\ rpc \in {"idle", "copy"}
  /\ wRoom \in 0 .. Capacity
  /\ wCount \in 0 .. Lesser(Capacity, MaxBlock) /\ wDone \in 0 .. wCount
  /\ rCount \in 0 .. Lesser(Capacity, MaxBlock)
  /\ out \in Seq(Position \cup {NoSample}) /\ Len(out) <= rCount

(* The producer never overtakes the consumer, and every sample that is      *)
(* published and unread is still in its slot: no interleaving of a write    *)
(* with a read, and no wrap of the counters or of the buffer, loses or      *)
(* overwrites audio.                                                        *)
DataIntact ==
  /\ Used <= Capacity
  /\ \A k \in 0 .. Used - 1 :
       slots[Advance(readPos, k) % Capacity] = Advance(readPos, k)

(* No slot the producer still has to write is one the consumer still has to *)
(* read: the two memcpys never touch the same element (a data race, and so  *)
(* undefined behaviour, if they did).                                       *)
NoDataRace ==
  wpc = "copy" /\ rpc = "copy" =>
    \A i \in wDone .. wCount - 1, j \in Len(out) .. rCount - 1 :
      CopyIndex(writePos, wCount, i) # CopyIndex(readPos, rCount, j)

(* DecodeThread ignores what write() returns: it asks availableToWrite()    *)
(* first and writes a block at most that long.  The check cannot go stale   *)
(* before it is used: such a block always fits as a whole.                  *)
CheckedBlockFits ==
  [][\A count \in 1 .. MaxBlock :
       WriteBegin(count) /\ count <= wRoom => wCount' = count]_vars

(* The buffer is a FIFO: what read() returns is exactly what write() was    *)
(* given, in order, nothing lost, repeated or made up.  A write takes       *)
(* effect when it publishes, a read when it gives its slots back.           *)
unread == [k \in 1 .. Used |-> slots[Advance(readPos, k - 1) % Capacity]]
answer == IF rpc = "copy" THEN <<>> ELSE out

Fifo == INSTANCE AudioFifo WITH Bound <- Capacity, Stamps <- Modulus,
                                queue <- unread, next <- writePos, out <- answer

ImplementsFifo == Fifo!Spec
===============================================================================
