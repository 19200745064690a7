-------------------------- MODULE SpectrumStagingProofs --------------------------
(***************************************************************************)
(* What SpectrumStaging promises for buffers of any size and any number of *)
(* blocks.                                                                 *)
(*                                                                         *)
(* The invariant has three parts.  Staged: the buffer the audio thread is  *)
(* not filling holds the last block, and the other one as much of the next *)
(* as has been copied.  Met: how far the audio thread has come since the   *)
(* reader took its buffer.  InHand: a reader that has seen the newest      *)
(* generation has its buffer in hand, and what it read is of that block.   *)
(***************************************************************************)
EXTENDS SpectrumStaging, TLAPS

(* Buffer b holds block g. *)
Block(b, g) ==
  length[b] >= 1 /\ \A i \in 1 .. length[b] : staging[b][i] = g

Staged ==
  /\ fpc = "copy" => copied < size
  /\ fpc \in {"length", "front", "gen"} => copied = size /\ size >= 1
  /\ fpc \in {"front", "gen"} => length[back] = size
  /\ fpc # "idle" => \A i \in 1 .. copied : staging[back][i] = gen + 1
  /\ fpc # "gen" => front = IF gen = 0 THEN None ELSE 1 - back
  /\ fpc = "gen" => front = back
  /\ fpc # "gen" /\ gen > 0 => Block(1 - back, gen)

Met ==
  upc \in {"length", "copy"} =>
    /\ taken \in Buffers
    /\ met = 0 => fpc = "idle" /\ taken = 1 - back
    /\ met = 1 /\ taken = back => fpc \in {"idle", "gen"}

InHand ==
  /\ lastGen <= gen
  /\ upc # "idle" => lastGen > 0
  /\ upc \in {"length", "copy"} /\ lastGen = gen /\ fpc # "gen" => taken = front
  /\ upc = "copy" /\ lastGen = gen /\ fpc # "gen" =>
       /\ count = length[front] /\ fftData.n <= count
       /\ fftData.from = IF fftData.n = 0 THEN {} ELSE {gen}

IInv == TypeOK /\ Staged /\ Met /\ InHand /\ ShownIsLatest

(* The buffers are two. *)
LEMMA Other ==
  ASSUME NEW b \in Buffers
  PROVE  /\ 1 - b \in Buffers /\ 1 - b # b /\ 1 - (1 - b) = b
         /\ \A c \in Buffers : c = b \/ c = 1 - b
BY DEF Buffers

LEMMA InitInv == Init => IInv
<1> SUFFICES ASSUME Init PROVE IInv
  OBVIOUS
<1> USE StagingAssumption DEF Init
<1>1. TypeOK
  BY DEF TypeOK, Buffers, Samples
<1>2. Staged
  BY DEF Staged
<1>3. Met /\ InHand /\ ShownIsLatest
  BY DEF Met, InHand, ShownIsLatest
<1> QED BY <1>1, <1>2, <1>3 DEF IInv

(* feed() *)

LEMMA FeedBeginInv ==
  ASSUME IInv, NEW n \in 1 .. Size, FeedBegin(n)
  PROVE  IInv'
<1> USE StagingAssumption DEF IInv, FeedBegin, readVars
<1>1. TypeOK'
  BY DEF TypeOK, Samples
<1>2. Staged'
  BY DEF TypeOK, Staged, Block, Samples
<1>3. Met'
  BY Other DEF TypeOK, Met
<1>4. InHand' /\ ShownIsLatest'
  BY DEF InHand, ShownIsLatest
<1> QED BY <1>1, <1>2, <1>3, <1>4

LEMMA FeedCopyInv ==
  ASSUME IInv, FeedCopy
  PROVE  IInv'
<1> USE StagingAssumption DEF IInv, FeedCopy, readVars
<1>1. back \in Buffers /\ copied \in Nat /\ size \in Samples /\ gen \in Nat /\ copied + 1 <= size
  BY DEF TypeOK, Staged, Samples
<1>2. /\ staging'[1 - back] = staging[1 - back]
      /\ staging'[back] = [staging[back] EXCEPT ![copied + 1] = gen + 1]
      /\ staging[back] \in [1 .. Size -> Nat]
  BY <1>1, Other DEF TypeOK
<1>3. TypeOK'
  <2>1. copied + 1 \in 1 .. Size /\ gen + 1 \in Nat
    BY <1>1 DEF Samples
  <2>2. staging' \in [Buffers -> [1 .. Size -> Nat]]
    BY <2>1 DEF TypeOK
  <2>3. copied' \in Samples
    BY <2>1 DEF Samples
  <2> QED BY <2>2, <2>3 DEF TypeOK
<1>4. \A i \in 1 .. copied' : staging'[back][i] = gen + 1
  BY <1>1, <1>2 DEF Staged, Samples
<1>5. gen > 0 => Block(1 - back, gen)'
  BY <1>2 DEF Staged, Block
<1>6. Staged'
  BY <1>1, <1>4, <1>5 DEF Staged, Samples
<1>7. Met'
  BY DEF Met
<1>8. InHand' /\ ShownIsLatest'
  BY DEF InHand, ShownIsLatest
<1> QED BY <1>3, <1>6, <1>7, <1>8

LEMMA FeedLengthInv ==
  ASSUME IInv, FeedLength
  PROVE  IInv'
<1> USE StagingAssumption DEF IInv, FeedLength, readVars
<1>1. back \in Buffers /\ size \in Samples /\ gen \in Nat
  BY DEF TypeOK
<1>2. length'[1 - back] = length[1 - back] /\ length'[back] = size
  BY <1>1, Other DEF TypeOK
<1>3. TypeOK'
  BY DEF TypeOK
<1>4. gen > 0 => Block(1 - back, gen)'
  BY <1>2 DEF Staged, Block
<1>5. Staged'
  BY <1>2, <1>4 DEF Staged
<1>6. Met'
  BY DEF Met
<1>7. gen > 0 => length'[front] = length[front]
  BY <1>1, <1>2 DEF Staged
<1>8. InHand'
  BY <1>1, <1>7 DEF InHand, TypeOK
<1>9. ShownIsLatest'
  BY <1>7 DEF ShownIsLatest
<1> QED BY <1>3, <1>5, <1>6, <1>8, <1>9

LEMMA FeedFrontInv ==
  ASSUME IInv, FeedFront
  PROVE  IInv'
<1> USE DEF IInv, FeedFront, readVars
<1>1. TypeOK'
  BY DEF TypeOK
<1>2. Staged'
  BY DEF Staged
<1>3. Met' /\ InHand' /\ ShownIsLatest'
  BY DEF Met, InHand, ShownIsLatest
<1> QED BY <1>1, <1>2, <1>3

LEMMA FeedGenInv ==
  ASSUME IInv, FeedGen
  PROVE  IInv'
<1> USE StagingAssumption DEF IInv, FeedGen, readVars
<1>1. back \in Buffers /\ gen \in Nat /\ 1 - back' = back /\ back' \in Buffers /\ back' # back
  BY Other DEF TypeOK
<1>2. TypeOK'
  BY <1>1 DEF TypeOK
<1>3. Block(1 - back, gen)'
  BY <1>1 DEF Staged, Block
<1>4. Staged'
  BY <1>1, <1>3 DEF Staged
<1>5. Met'
  BY <1>1, Other DEF Met
<1>6. InHand' /\ ShownIsLatest'
  BY <1>1 DEF InHand, ShownIsLatest, TypeOK
<1> QED BY <1>2, <1>4, <1>5, <1>6

(* updateFromStaging() *)

LEMMA LookInv ==
  ASSUME IInv, Look
  PROVE  IInv'
<1> USE DEF IInv, Look, feedVars
<1>1. TypeOK' /\ Staged'
  BY DEF TypeOK, Staged, Block
<1>2. Met' /\ InHand' /\ ShownIsLatest'
  BY DEF Met, InHand, ShownIsLatest, TypeOK
<1> QED BY <1>1, <1>2

LEMMA TakeFrontInv ==
  ASSUME IInv, TakeFront
  PROVE  IInv'
<1> USE StagingAssumption DEF IInv, TakeFront, feedVars
<1>1. gen > 0 /\ back \in Buffers /\ lastGen \in Nat /\ gen \in Nat
  BY DEF InHand, TypeOK
<1>2. front = (IF fpc = "gen" THEN back ELSE 1 - back) /\ front \in Buffers /\ front # None
  BY <1>1, Other DEF Staged, Buffers
<1>3. TypeOK' /\ Staged'
  BY <1>2 DEF TypeOK, Staged, Block
<1>4. Met'
  BY <1>1, <1>2, Other DEF Met
<1>5. InHand' /\ ShownIsLatest'
  BY <1>2 DEF InHand, ShownIsLatest
<1> QED BY <1>3, <1>4, <1>5

LEMMA TakeLengthInv ==
  ASSUME IInv, TakeLength
  PROVE  IInv'
<1> USE StagingAssumption DEF IInv, TakeLength, feedVars
<1>1. taken \in Buffers /\ length[taken] \in Samples
  BY DEF Met, TypeOK
<1>2. TypeOK' /\ Staged'
  <2>1. [n |-> 0, from |-> {}] \in [n : Samples, from : SUBSET Nat]
    BY DEF Samples
  <2> QED BY <1>1, <2>1 DEF TypeOK, Staged, Block
<1>3. Met'
  BY DEF Met
<1>4. InHand' /\ ShownIsLatest'
  BY <1>1 DEF InHand, ShownIsLatest, Samples
<1> QED BY <1>2, <1>3, <1>4

LEMMA ReadSampleInv ==
  ASSUME IInv, ReadSample
  PROVE  IInv'
<1> USE StagingAssumption DEF IInv, ReadSample, feedVars
<1> DEFINE next == fftData.n + 1
<1>1. /\ taken \in Buffers /\ fftData.n \in Nat /\ count \in Nat /\ count <= Size
      /\ next \in 1 .. Size /\ next <= count
      /\ fftData.from \in SUBSET Nat
      /\ back \in Buffers /\ gen \in Nat /\ lastGen \in Nat
  <2>1. /\ fftData \in [n : Samples, from : SUBSET Nat] /\ count \in Samples
        /\ back \in Buffers /\ gen \in Nat /\ lastGen \in Nat
    BY DEF TypeOK
  <2>2. fftData.n \in Samples /\ fftData.from \in SUBSET Nat
    BY <2>1
  <2>3. taken \in Buffers /\ fftData.n < count
    BY DEF Met
  <2> QED BY <2>1, <2>2, <2>3 DEF Samples
<1>2. staging[taken][next] \in Nat
  BY <1>1 DEF TypeOK
<1>3. fftData'.n = next /\ fftData'.from = fftData.from \cup {staging[taken][next]}
  OBVIOUS
<1>4. fftData' \in [n : Samples, from : SUBSET Nat]
  <2> DEFINE read == fftData.from \cup {staging[taken][next]}
  <2>1. next \in Samples /\ read \in SUBSET Nat
    BY <1>1, <1>2 DEF Samples
  <2>2. fftData' = [n |-> next, from |-> read]
    OBVIOUS
  <2> HIDE DEF next, read
  <2> QED BY <2>1, <2>2
<1>5. TypeOK'
  BY <1>4 DEF TypeOK
<1>6. Staged'
  BY DEF Staged, Block
<1>7. Met'
  BY DEF Met
<1>8. ASSUME lastGen = gen, fpc # "gen"
      PROVE  staging[taken][next] = gen /\ count = length[front]
  <2>1. gen > 0 /\ front = 1 - back /\ taken = front
    BY <1>1, <1>8 DEF InHand, Staged
  <2> QED BY <1>1, <1>8, <2>1 DEF InHand, Staged, Block
<1>9. InHand'
  BY <1>1, <1>3, <1>8 DEF InHand
<1>10. ShownIsLatest'
  BY DEF ShownIsLatest
<1> QED BY <1>5, <1>6, <1>7, <1>9, <1>10

LEMMA ComputeInv ==
  ASSUME IInv, Compute
  PROVE  IInv'
<1> USE StagingAssumption DEF IInv, Compute, feedVars
<1>1. TypeOK' /\ Staged'
  BY DEF TypeOK, Staged, Block
<1>2. Met' /\ InHand'
  BY DEF Met, InHand
<1>3. ASSUME lastGen = gen, gen > 0, fpc # "gen"
      PROVE  fftData = [n |-> length[front], from |-> {gen}]
  <2>1. front = 1 - back /\ length[front] >= 1
    BY <1>3 DEF Staged, Block, TypeOK
  <2>2. fftData.n = length[front] /\ fftData.from = {gen}
    BY <1>3, <2>1 DEF InHand
  <2> QED BY <2>2 DEF TypeOK
<1>4. ShownIsLatest'
  BY <1>3 DEF ShownIsLatest
<1> QED BY <1>1, <1>2, <1>4

(* The two buffers, the counts and the reader's copy belong together at     *)
(* every step of the two threads.                                           *)
THEOREM Inductive == Spec => []IInv
<1>1. IInv /\ [Next]_vars => IInv'
  <2> SUFFICES ASSUME IInv, [Next]_vars PROVE IInv'
    OBVIOUS
  <2>1. CASE Feed
    BY <2>1, FeedBeginInv, FeedCopyInv, FeedLengthInv, FeedFrontInv, FeedGenInv DEF Feed
  <2>2. CASE Update
    BY <2>2, LookInv, TakeFrontInv, TakeLengthInv, ReadSampleInv, ComputeInv DEF Update
  <2>3. CASE UNCHANGED vars
    BY <2>3 DEF IInv, TypeOK, Staged, Block, Met, InHand, ShownIsLatest, vars, feedVars, readVars
  <2> QED BY <2>1, <2>2, <2>3 DEF Next
<1> QED BY InitInv, <1>1, PTL DEF Spec

(* Every variable keeps its kind, and no index leaves a buffer, whatever    *)
(* the size of the buffers and of the blocks.                               *)
THEOREM TypeCorrect == Spec => []TypeOK
BY Inductive, PTL DEF IInv

(* A reader that has met fewer than two new blocks never reads the buffer   *)
(* that is being filled.                                                    *)
THEOREM TornOnlyWhenLappedHolds == Spec => []TornOnlyWhenLapped
<1>1. IInv => TornOnlyWhenLapped
  BY DEF IInv, TypeOK, Met, TornOnlyWhenLapped
<1> QED BY Inductive, <1>1, PTL

(* The spectrum of the newest block is never missed, and is of that block   *)
(* alone, for every size of buffer and every number of blocks.              *)
THEOREM ShownIsLatestHolds == Spec => []ShownIsLatest
BY Inductive, PTL DEF IInv
===============================================================================
