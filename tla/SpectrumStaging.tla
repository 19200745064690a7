---------------------------- MODULE SpectrumStaging ----------------------------
(***************************************************************************)
(* decode/SpectrumAnalyzer: how the samples that go out to the device      *)
(* reach the spectrum on the screen.  The audio thread stages each block   *)
(* in one of two buffers and publishes it; the UI thread, when it draws,   *)
(* looks whether there is a new one and computes the bars from it.         *)
(* Neither ever waits for the other.  A sample is the number of the block  *)
(* it came with; what is computed is represented by the samples it is      *)
(* computed from.  The counter of the blocks, 32 bits wide, does not wrap: *)
(* that takes years of music.                                              *)
(***************************************************************************)
EXTENDS Naturals

CONSTANTS Size,       \* kFftSize
          MaxBlocks,  \* blocks staged (bound)
          None        \* no buffer: -1

ASSUME StagingAssumption == Size \in Nat \ {0} /\ MaxBlocks \in Nat /\ None \notin {0, 1}

VARIABLES
  staging, length,       \* staging_ and stagingLen_
  front, gen, back,      \* stagingFront_, stagingGen_, stagingBack_
  fpc, size, copied,     \* feed(): idle, copy, length, front, gen; n; samples written
  upc, lastGen,          \* updateFromStaging(): idle, front, length, copy; lastGen_
  taken, count, fftData, \* its front and len; fftData_ as far as it is filled
  shown,                 \* bars_ and spectrumMagnitudes_
  met                    \* history: blocks being staged since taken was read, up to 2

feedVars == <<staging, length, front, gen, back, fpc, size, copied>>
readVars == <<upc, lastGen, taken, count, fftData, shown>>
vars == <<feedVars, readVars, met>>

Buffers == {0, 1}
Samples == 0 .. Size

-------------------------------------------------------------------------------
Init ==
  /\ staging = [b \in Buffers |-> [i \in 1 .. Size |-> 0]]
  /\ length = [b \in Buffers |-> 0]
  /\ front = None /\ gen = 0 /\ back = 0
  /\ fpc = "idle" /\ size = 0 /\ copied = 0
  /\ upc = "idle" /\ lastGen = 0 /\ taken = None /\ count = 0
  /\ fftData = [n |-> 0, from |-> {}] /\ shown = [n |-> 0, from |-> {}]
  /\ met = 0

-------------------------------------------------------------------------------
(* feed(), on the audio thread: samples, length, front, generation, in this *)
(* order.  A block longer than a buffer is cut.                             *)

FeedBegin(n) ==
  /\ fpc = "idle" /\ gen < MaxBlocks
  /\ size' = n /\ copied' = 0 /\ fpc' = "copy"
  /\ met' = IF met = 0 THEN 1 ELSE 2
  /\ UNCHANGED <<staging, length, front, gen, back, readVars>>

FeedCopy ==
  /\ fpc = "copy"
  /\ staging' = [staging EXCEPT ![back][copied + 1] = gen + 1]
  /\ copied' = copied + 1
  /\ fpc' = IF copied' = size THEN "length" ELSE "copy"
  /\ UNCHANGED <<length, front, gen, back, size, readVars, met>>

FeedLength ==
  /\ fpc = "length"
  /\ length' = [length EXCEPT ![back] = size]
  /\ fpc' = "front"
  /\ UNCHANGED <<staging, front, gen, back, size, copied, readVars, met>>

FeedFront ==
  /\ fpc = "front"
  /\ front' = back
  /\ fpc' = "gen"
  /\ UNCHANGED <<staging, length, gen, back, size, copied, readVars, met>>

(* Mutant: the next block goes into the same buffer. *)
FeedGenOneBuffer ==
  /\ fpc = "gen"
  /\ gen' = gen + 1
  /\ fpc' = "idle"
  /\ UNCHANGED <<staging, length, front, back, size, copied, readVars, met>>

FeedGen ==
  /\ fpc = "gen"
  /\ gen' = gen + 1 /\ back' = 1 - back
  /\ fpc' = "idle"
  /\ UNCHANGED <<staging, length, front, size, copied, readVars, met>>

-------------------------------------------------------------------------------
(* updateFromStaging(), on the UI thread, for getBars() and                 *)
(* getSpectrumMagnitudes().                                                 *)

Look ==
  /\ upc = "idle" /\ gen # lastGen
  /\ lastGen' = gen /\ upc' = "front"
  /\ UNCHANGED <<feedVars, taken, count, fftData, shown, met>>

(* The count of blocks the reader meets begins with the one in progress. *)
TakeFront ==
  /\ upc = "front"
  /\ taken' = front
  /\ upc' = IF front = None THEN "idle" ELSE "length"
  /\ met' = IF fpc = "idle" THEN 0 ELSE 1
  /\ UNCHANGED <<feedVars, lastGen, count, fftData, shown>>

TakeLength ==
  /\ upc = "length"
  /\ count' = length[taken]
  /\ fftData' = [n |-> 0, from |-> {}]
  /\ upc' = "copy"
  /\ UNCHANGED <<feedVars, lastGen, taken, shown, met>>

ReadSample ==
  /\ upc = "copy" /\ fftData.n < count
  /\ fftData' = [n |-> fftData.n + 1, from |-> fftData.from \cup {staging[taken][fftData.n + 1]}]
  /\ UNCHANGED <<feedVars, upc, lastGen, taken, count, shown, met>>

(* Mutant: the generation is noted when the bars are done. *)
ComputeMarking ==
  /\ upc = "copy" /\ fftData.n = count
  /\ shown' = fftData /\ lastGen' = gen
  /\ upc' = "idle"
  /\ UNCHANGED <<feedVars, taken, count, fftData, met>>

Compute ==
  /\ upc = "copy" /\ fftData.n = count
  /\ shown' = fftData
  /\ upc' = "idle"
  /\ UNCHANGED <<feedVars, lastGen, taken, count, fftData, met>>

-------------------------------------------------------------------------------
Feed == (\E n \in 1 .. Size : FeedBegin(n)) \/ FeedCopy \/ FeedLength \/ FeedFront \/ FeedGen
Update == Look \/ TakeFront \/ TakeLength \/ ReadSample \/ Compute

Next == Feed \/ Update

Spec == Init /\ [][Next]_vars

-------------------------------------------------------------------------------
TypeOK ==
  /\ staging \in [Buffers -> [1 .. Size -> Nat]]
  /\ length \in [Buffers -> Samples]
  /\ front \in Buffers \cup {None} /\ gen \in Nat /\ back \in Buffers
  /\ fpc \in {"idle", "copy", "length", "front", "gen"} /\ {size, copied} \subseteq Samples
  /\ upc \in {"idle", "front", "length", "copy"} /\ lastGen \in Nat
  /\ taken \in Buffers \cup {None} /\ count \in Samples
  /\ {fftData, shown} \subseteq [n : Samples, from : SUBSET Nat]
  /\ met \in 0 .. 2

(* Two buffers are enough for a reader that is fast: while it has one in    *)
(* hand the audio thread does not write to it, unless the reader has met    *)
(* two blocks, one of them published and the next one begun.  (A reader     *)
(* that is slower than that reads what is being written: the code accepts   *)
(* it for a picture that lasts a frame.)                                    *)
TornOnlyWhenLapped ==
  upc \in {"length", "copy"} /\ fpc \in {"copy", "length"} /\ taken = back => met = 2

(* The last block is never missed: when the reader is done and sees no new  *)
(* generation, it shows that generation's block, all of it and of no other, *)
(* however the two threads met before.  (Between the front and the          *)
(* generation of the next block it may show that one already.)              *)
ShownIsLatest ==
  upc = "idle" /\ lastGen = gen /\ gen > 0 /\ fpc # "gen" =>
    shown = [n |-> length[front], from |-> {gen}]
===============================================================================
