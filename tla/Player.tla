-------------------------------- MODULE Player --------------------------------
(***************************************************************************)
(* What PlaybackEngine promises the controller above it: a track is loaded *)
(* into a stopped player, starts, pauses and resumes, and is stopped and   *)
(* forgotten together.  While it plays the player may say it is over, and  *)
(* take that back when audio arrives after all.                            *)
(***************************************************************************)
CONSTANTS Tracks, NoTrack

VARIABLES state,   \* Stopped, Playing or Paused
          track,   \* the track that is loaded
          over     \* isPlaying() && hasReachedEndOfStream()

vars == <<state, track, over>>

Init == state = "Stopped" /\ track = NoTrack /\ over = FALSE

Stop == state' = "Stopped" /\ track' = NoTrack /\ over' = FALSE

Load(t) ==
  /\ state = "Stopped" /\ track = NoTrack
  /\ track' = t
  /\ UNCHANGED <<state, over>>

(* A track that just started may be over at once. *)
Start ==
  /\ state # "Playing" /\ track # NoTrack
  /\ state' = "Playing"
  /\ over' \in BOOLEAN
  /\ UNCHANGED track

Pause ==
  /\ state = "Playing"
  /\ state' = "Paused" /\ over' = FALSE
  /\ UNCHANGED track

(* Silence for long enough, or audio again. *)
Turn ==
  /\ state = "Playing"
  /\ over' = ~over
  /\ UNCHANGED <<state, track>>

Next == Stop \/ Start \/ Pause \/ Turn \/ \E t \in Tracks : Load(t)

Spec == Init /\ [][Next]_vars
===============================================================================
