----------------------------- MODULE MCRingBuffer -----------------------------
(* A buffer of four samples whose positions wrap after two laps, and blocks  *)
(* of up to three: blocks that split at the end of the buffer, blocks that   *)
(* do not fit, a full buffer, and positions on both sides of the wrap.       *)
EXTENDS RingBuffer
===============================================================================
