--------------------------- MODULE MCPlaybackControl ---------------------------
(* An album of three songs: a first, a middle and a last one to play from,   *)
(* and playlists of three lengths; songs are pre-warmed one ahead.  Two      *)
(* commands wait at most in the passing run, one of the user's and one of    *)
(* the watcher's or two of either, three in the others.                      *)
EXTENDS PlaybackControl

CONSTANTS s1, s2, s3

ThreeSongs == <<s1, s2, s3>>
================================================================================
