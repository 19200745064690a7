------------------------------- MODULE AudioFifo -------------------------------
(***************************************************************************)
(* What the ring buffer between the decode thread and the audio callback   *)
(* promises: a first-in first-out queue of samples.  Samples are told      *)
(* apart by a stamp, the producer's running count modulo Stamps.  Each     *)
(* operation is one atomic step here; RingBuffer implements it without     *)
(* locks, in many steps.                                                   *)
(***************************************************************************)
EXTENDS Integers, Sequences

CONSTANTS Bound,    \* most samples the queue ever holds
          Stamps    \* samples are stamped modulo this number

VARIABLES queue,    \* samples written and not yet read, oldest first
          next,     \* the stamp of the next sample written
          out       \* the samples the last completed read returned

vars == <<queue, next, out>>

Init == queue = <<>> /\ next = 0 /\ out = <<>>

(* The producer appends n consecutive samples. *)
Put(n) ==
  /\ Len(queue) + n <= Bound
  /\ queue' = queue \o [k \in 1 .. n |-> (next + k - 1) % Stamps]
  /\ next' = (next + n) % Stamps
  /\ UNCHANGED out

(* The consumer starts a new read; what the previous one returned is gone. *)
Ask == out' = <<>> /\ UNCHANGED <<queue, next>>

(* The consumer takes the n oldest samples. *)
Get(n) ==
  /\ n <= Len(queue)
  /\ out' = SubSeq(queue, 1, n)
  /\ queue' = SubSeq(queue, n + 1, Len(queue))
  /\ UNCHANGED next

(* Emptied between two tracks. *)
Clear == queue' = <<>> /\ next' = 0 /\ UNCHANGED out

Next == Ask \/ Clear \/ \E n \in 0 .. Bound : Put(n) \/ Get(n)

Spec == Init /\ [][Next]_vars
================================================================================
