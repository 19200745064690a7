--------------------------- MODULE MCPlaybackEngine ---------------------------
(* Tracks of up to five samples, a ring of three filled two at a time, a     *)
(* device that takes two samples a callback and a converter that pulls       *)
(* three, so that chunks, pulls and callbacks never line up; the silence     *)
(* threshold is two; one device beside the default.                          *)
EXTENDS PlaybackEngine
===============================================================================
