--------------------------- MODULE MCSpectrumStaging ---------------------------
(* Buffers of two samples and blocks of one or two, so that a block can be   *)
(* torn and a short one follow a long one; four blocks, so that the audio    *)
(* thread comes round to a buffer the reader holds, and once more.           *)
EXTENDS SpectrumStaging
================================================================================
