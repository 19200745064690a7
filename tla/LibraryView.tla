------------------------------ MODULE LibraryView ------------------------------
(***************************************************************************)
(* The file manager's copy of the library.  Its Renderer, once a frame on  *)
(* the UI thread, reads the library anew when it is told to (reload_flag)  *)
(* or when the data version has moved, in three calls that each take       *)
(* mutex_, while the watcher and the loaders go on.                        *)
(*                                                                         *)
(* Versions are compared only for being equal, so two flags stand for the  *)
(* counter: "behind", the last version the view kept is not the current    *)
(* one, and "moved", nor is the one it read at the beginning of this       *)
(* refresh.  (The counter would have to wrap, 2^32 changes between two     *)
(* frames, for these to differ.)                                           *)
(***************************************************************************)
EXTENDS LibraryLoad

CONSTANT UI
ASSUME UIAssumption == UI \in Setters

VARIABLES
  behind, moved,   \* dataVersion_ against last_version and v, see above
  reload,          \* reload_flag
  rpc, mode,       \* the refresh: where it is, and why it is made
  view             \* albums, songs_per_album and album_loaded

flagVars == <<behind, moved, reload>>
viewVars == <<flagVars, rpc, mode, view>>
vars     == <<libVars, viewVars>>

Init ==
  /\ LibInit
  /\ behind = FALSE /\ moved = FALSE /\ reload = FALSE
  /\ rpc = "idle" /\ mode = "none"
  /\ view = [names |-> <<>>, songs |-> <<>>, states |-> <<>>]

-------------------------------------------------------------------------------
(* dataVersion_.fetch_add(1).  "moved" counts from the reading of v.        *)
BumpVersion ==
  /\ behind' = TRUE /\ moved' = (rpc \notin {"idle", "version"})
  /\ UNCHANGED <<reload, rpc, mode, view>>

RaiseFlag == reload' = TRUE /\ UNCHANGED <<behind, moved, rpc, mode, view>>

(* A thread does one thing at a time: the UI thread renders when it is not  *)
(* in setRootPath().                                                        *)
Rendering == pc[UI] = "idle"

(* The flag is asked first. *)
AskFlag ==
  /\ rpc = "idle" /\ Rendering
  /\ IF reload THEN rpc' = "names" /\ mode' = "reload"
               ELSE rpc' = "version" /\ UNCHANGED mode
  /\ UNCHANGED <<libVars, flagVars, view>>

(* Mutant: a new version is treated like the flag. *)
ReasonOfVersionReload == "reload"

ReasonOfVersion == "version"

AskVersion ==
  /\ rpc = "version"
  /\ IF behind THEN rpc' = "names" /\ mode' = ReasonOfVersion
               ELSE rpc' = "idle" /\ UNCHANGED mode
  /\ UNCHANGED <<libVars, flagVars, view>>

ReadNames ==
  /\ rpc = "names"
  /\ view' = [view EXCEPT !.names = Names(library)]
  /\ rpc' = "songs"
  /\ UNCHANGED <<libVars, flagVars, mode>>

(* The songs of an album are there when it is loaded. *)
ReadSongs ==
  /\ rpc = "songs"
  /\ view' = [view EXCEPT !.songs = library]
  /\ rpc' = "states"
  /\ UNCHANGED <<libVars, flagVars, mode>>

ReadStates ==
  /\ rpc = "states"
  /\ view' = [view EXCEPT !.states = States(library)]
  /\ rpc' = "mark"
  /\ UNCHANGED <<libVars, flagVars, mode>>

(* Mutant: the version that is kept is the one that is current by now.      *)
StillBehindLate == FALSE

(* Refreshed for a version, the view keeps that version; refreshed for the  *)
(* flag, it keeps the one that is current by now.                           *)
StillBehind == mode = "version" /\ moved

Mark ==
  /\ rpc = "mark"
  /\ behind' = StillBehind /\ moved' = FALSE
  /\ rpc' = (IF mode = "reload" THEN "unflag" ELSE "idle")
  /\ UNCHANGED <<libVars, reload, mode, view>>

Unflag ==
  /\ rpc = "unflag"
  /\ reload' = FALSE /\ moved' = FALSE
  /\ rpc' = "idle"
  /\ UNCHANGED <<libVars, behind, mode, view>>

-------------------------------------------------------------------------------
UIFree(t) == t = UI => rpc = "idle"

Quiet ==
  \/ \E t \in Setters : SetRoot(t) \/ Lock(t)
  \/ \E t \in Setters, scan \in Scans : UIFree(t) /\ Scan(t, scan)
  \/ \E w \in Loaders : Loader(w)

Announcing == (\E t \in Setters : Announce(t)) \/ (\E w \in Loaders : AnnounceAlbum(w))

Frame == AskFlag \/ AskVersion \/ ReadNames \/ ReadSongs \/ ReadStates \/ Mark \/ Unflag

Next ==
  \/ Quiet /\ UNCHANGED viewVars
  \/ Announcing /\ BumpVersion
  \/ (\E t \in Setters : Flag(t)) /\ RaiseFlag
  \/ Frame

Spec == Init /\ [][Next]_vars

-------------------------------------------------------------------------------
(* The view's variables hold values of their kinds, and the flag that a     *)
(* refresh lowers is one that was up: nobody else lowers it.                *)
ViewTypeOK ==
  /\ {behind, moved, reload} \subseteq BOOLEAN
  /\ rpc \in {"idle", "version", "names", "songs", "states", "mark", "unflag"}
  /\ mode \in {"none", "reload", "version"}
  /\ rpc = "unflag" => reload
  /\ view \in [names : Seq(Albums), songs : Seq(Entry), states : Seq(BOOLEAN)]

(* A frame that refreshed for a version (FileManager.cpp's second branch)   *)
(* misses nothing: once the view holds the current version, and nobody is   *)
(* between a change and its announcement, all three lists are the           *)
(* library's, though each was read at a moment of its own.                  *)
Announced ==
  /\ \A t \in Setters : pc[t] # "bump"
  /\ \A w \in Loaders : lpc[w] # "bump"

ViewOfVersionCurrent ==
  rpc = "idle" /\ mode = "version" /\ ~behind /\ Announced =>
    view = [names |-> Names(library), songs |-> library, states |-> States(library)]
================================================================================
