---------------------------- MODULE PlaybackControl ----------------------------
(***************************************************************************)
(* player/PlaybackController with what it is made of: the position in the  *)
(* playlist (SongQueue) and the thread that opens the songs ahead of it,   *)
(* the engine (as Player promises it), the thread that watches for the end *)
(* of a song (AutoAdvanceManager), and the CommandQueue whose worker       *)
(* executes, one after another, what the user asked for through            *)
(* AsyncLibraryService and what the watcher asked for.  A command takes    *)
(* several steps, and the other threads run between any two of them.       *)
(***************************************************************************)
EXTENDS Integers, Sequences

CONSTANTS Album,        \* the songs of the album, in order
          NoTrack,
          PreWarmAhead, \* PRE_WARM_AHEAD_COUNT
          MaxPending    \* commands waiting at a time (bound)

ASSUME AlbumAssumption ==
  /\ Album \in Seq({Album[i] : i \in DOMAIN Album}) /\ Album # <<>>
  /\ \A i, j \in DOMAIN Album : Album[i] # NoTrack /\ (Album[i] = Album[j] => i = j)
ASSUME PreWarmAssumption == PreWarmAhead \in Nat
ASSUME PendingAssumption == MaxPending \in Nat /\ MaxPending >= 2

Songs == {Album[i] : i \in DOMAIN Album}

VARIABLES
  state, track, over,   \* engine_, as in Player
  playlist, index,      \* queue_: playlist_ and currentIndex_ + 1
  warm,                 \* its preWarmedUpTo_ + 1
  ppc, pstop,           \* its thread: off, poll or open; the stop token
  ahead,                \* the songs of this round still to open, from .. to
  commands,             \* cmdQueue_: queue_
  wpc, song,            \* what the worker does next, and with which song
  mpc,                  \* autoAdvance_: off, poll, or fire before onAdvance_()
  mstop,                \* its stop token
  callbacks             \* shouldAdvance_ and onAdvance_ are set

engineVars  == <<state, track, over>>
warmVars    == <<warm, ppc, pstop, ahead>>
queueVars   == <<playlist, index, warmVars>>
monitorVars == <<mpc, mstop, callbacks>>
vars == <<engineVars, queueVars, monitorVars, commands, wpc, song>>

Engine == INSTANCE Player WITH Tracks <- Songs

User == [op : {"play"}, from : DOMAIN Album]
          \cup [op : {"next", "prev", "resume", "pause", "output"}]
Advance == [op |-> "advance"]
NoRound == [from |-> 0, to |-> 0]

-------------------------------------------------------------------------------
Init ==
  /\ Engine!Init
  /\ playlist = <<>> /\ index = 0 /\ warm = 0
  /\ ppc = "off" /\ pstop = FALSE /\ ahead = NoRound
  /\ commands = <<>> /\ wpc = "idle" /\ song = NoTrack
  /\ mpc = "off" /\ mstop = FALSE /\ callbacks = FALSE

-------------------------------------------------------------------------------
(* CommandQueue.  The last free place is kept for the watcher.              *)

Enqueue(command) ==
  /\ Len(commands) < MaxPending - 1
  /\ commands' = Append(commands, command)
  /\ UNCHANGED <<engineVars, queueVars, monitorVars, wpc, song>>

(* The worker takes the oldest command and is at the first step of it.      *)
First(op) == CASE op = "play"    -> "unload"
               [] op = "next"    -> "advance"
               [] op = "advance" -> "advance"
               [] OTHER          -> op

Dequeue ==
  /\ wpc = "idle" /\ commands # <<>>
  /\ LET command == Head(commands)
     IN  /\ wpc' = First(command.op)
         /\ song' = (IF command.op = "play" THEN Album[command.from] ELSE NoTrack)
  /\ commands' = Tail(commands)
  /\ UNCHANGED <<engineVars, queueVars, monitorVars>>

-------------------------------------------------------------------------------
(* LibraryService::playSong(): the album from the song on becomes the       *)
(* playlist.  loadAlbum() stops everything first: the engine, the queue,    *)
(* the watcher, which is waited for.                                        *)

StopAll ==
  /\ wpc = "unload"
  /\ Engine!Stop
  /\ wpc' = "clear"
  /\ UNCHANGED <<queueVars, monitorVars, commands, song>>

(* SongQueue::clear(): the thread is told to stop and waited for before the *)
(* mutex is taken, which it takes too, and before the songs go.             *)
StopPreWarm ==
  /\ wpc \in {"clear", "empty"} /\ ppc # "off" /\ ~pstop
  /\ pstop' = TRUE
  /\ UNCHANGED <<engineVars, playlist, index, warm, ppc, ahead, monitorVars, commands, wpc, song>>

(* Mutant: the thread is told to stop and not waited for. *)
ClearedDetached ==
  /\ ppc # "off" => pstop
  /\ playlist' = <<>> /\ index' = 0 /\ warm' = 0
  /\ UNCHANGED <<ppc, pstop, ahead>>

Cleared ==
  /\ ppc = "off"
  /\ playlist' = <<>> /\ index' = 0 /\ warm' = 0
  /\ UNCHANGED <<ppc, pstop, ahead>>

ClearQueue ==
  /\ wpc = "clear"
  /\ Cleared
  /\ mstop' = TRUE
  /\ wpc' = "join"
  /\ UNCHANGED <<engineVars, mpc, callbacks, commands, song>>

(* Mutant: stop() resets the callbacks without waiting for the thread. *)
JoinMonitorDetached ==
  /\ wpc = "join"
  /\ callbacks' = FALSE
  /\ wpc' = "fill"
  /\ UNCHANGED <<engineVars, queueVars, mpc, mstop, commands, song>>

JoinMonitor ==
  /\ wpc = "join" /\ mpc = "off"
  /\ callbacks' = FALSE
  /\ wpc' = "fill"
  /\ UNCHANGED <<engineVars, queueVars, mpc, mstop, commands, song>>

SongsFrom(s) ==
  LET from == CHOOSE i \in DOMAIN Album : Album[i] = s
  IN  SubSeq(Album, from, Len(Album))

(* SongQueue::loadPlaylist(), after clear(): a new thread for the songs. *)
LoadPlaylist ==
  /\ playlist' = SongsFrom(song) /\ index' = 1 /\ warm' = 0
  /\ ppc' = "poll" /\ pstop' = FALSE
  /\ UNCHANGED ahead

(* Mutant: the watcher of the last album is relied on. *)
FillPlaylistUnwatched ==
  /\ wpc = "fill"
  /\ LoadPlaylist
  /\ wpc' = "stop"
  /\ UNCHANGED <<engineVars, mpc, mstop, callbacks, commands, song>>

(* loadPlaylist(), start() of a new watcher, and skipTo(0). *)
FillPlaylist ==
  /\ wpc = "fill"
  /\ LoadPlaylist
  /\ callbacks' = TRUE /\ mpc' = "poll" /\ mstop' = FALSE
  /\ wpc' = "stop"
  /\ UNCHANGED <<engineVars, commands, song>>

-------------------------------------------------------------------------------
(* loadAndPlaySong(): stop, load, which may fail, and start.                *)

StopSong ==
  /\ wpc = "stop"
  /\ Engine!Stop
  /\ wpc' = "load"
  /\ UNCHANGED <<queueVars, monitorVars, commands, song>>

LoadSong ==
  /\ wpc = "load"
  /\ \/ Engine!Load(song) /\ wpc' = "start"
     \/ UNCHANGED engineVars /\ wpc' = "idle"
  /\ UNCHANGED <<queueVars, monitorVars, commands, song>>

StartSong ==
  /\ wpc = "start"
  /\ Engine!Start
  /\ wpc' = "idle"
  /\ UNCHANGED <<queueVars, monitorVars, commands, song>>

-------------------------------------------------------------------------------
(* next() and handleAutoAdvance() differ in their messages only.            *)

(* SongQueue::next(): the position goes up, and back if that was the end.    *)
(* The mutex it holds does not keep the pre-warm thread from seeing it there. *)
NextSong ==
  /\ wpc = "advance"
  /\ IF playlist = <<>>
     THEN wpc' = "finish" /\ UNCHANGED <<index, song>>
     ELSE /\ index' = index + 1
          /\ IF index' <= Len(playlist)
             THEN song' = playlist[index'] /\ wpc' = "stop"
             ELSE wpc' = "back" /\ UNCHANGED song
  /\ UNCHANGED <<engineVars, playlist, warmVars, monitorVars, commands>>

(* Mutant: the position is left where it is. *)
StepBackNot ==
  /\ wpc = "back"
  /\ wpc' = "finish"
  /\ UNCHANGED <<engineVars, queueVars, monitorVars, commands, song>>

StepBack ==
  /\ wpc = "back"
  /\ index' = Len(playlist)
  /\ wpc' = "finish"
  /\ UNCHANGED <<engineVars, playlist, warmVars, monitorVars, commands, song>>

(* Mutant: the queue is emptied and the song left playing. *)
FinishAlbumPlaying ==
  /\ wpc = "finish"
  /\ wpc' = "empty"
  /\ UNCHANGED <<engineVars, queueVars, monitorVars, commands, song>>

(* The end of the album, or no album: the watcher stays. *)
FinishAlbum ==
  /\ wpc = "finish"
  /\ Engine!Stop
  /\ wpc' = "empty"
  /\ UNCHANGED <<queueVars, monitorVars, commands, song>>

EmptyQueue ==
  /\ wpc = "empty"
  /\ Cleared
  /\ wpc' = "idle"
  /\ UNCHANGED <<engineVars, monitorVars, commands, song>>

PreviousSong ==
  /\ wpc = "prev"
  /\ IF index > 1
     THEN /\ index' = index - 1
          /\ song' = playlist[index']
          /\ wpc' = "stop"
     ELSE wpc' = "idle" /\ UNCHANGED <<index, song>>
  /\ UNCHANGED <<engineVars, playlist, warmVars, monitorVars, commands>>

(* resumePlayback() is play(): a paused song goes on, any other is loaded   *)
(* again from its start, the one that is playing too.                       *)
PlaySong ==
  /\ wpc = "resume"
  /\ CASE playlist = <<>>    -> wpc' = "idle" /\ UNCHANGED <<engineVars, song>>
       [] playlist # <<>> /\ state = "Paused" ->
                                Engine!Start /\ wpc' = "idle" /\ UNCHANGED song
       [] OTHER              -> /\ song' = playlist[index] /\ wpc' = "stop"
                                /\ UNCHANGED engineVars
  /\ UNCHANGED <<queueVars, monitorVars, commands>>

(* stopPlayback() is pause(). *)
PauseSong ==
  /\ wpc = "pause"
  /\ Engine!Pause \/ (state # "Playing" /\ UNCHANGED engineVars)
  /\ wpc' = "idle"
  /\ UNCHANGED <<queueVars, monitorVars, commands, song>>

(* setOutputDevice() keeps the worker busy while the song plays on. *)
SwapDevice ==
  /\ wpc = "output"
  /\ wpc' = "idle"
  /\ UNCHANGED <<engineVars, queueVars, monitorVars, commands, song>>

-------------------------------------------------------------------------------
(* AutoAdvanceManager::monitorLoop()                                        *)

MonitorEnd ==
  /\ mpc = "poll" /\ mstop
  /\ mpc' = "off"
  /\ UNCHANGED <<engineVars, queueVars, mstop, callbacks, commands, wpc, song>>

MonitorPoll ==
  /\ mpc = "poll" /\ ~mstop /\ over
  /\ Len(commands) < MaxPending
  /\ mpc' = "fire"
  /\ UNCHANGED <<engineVars, queueVars, mstop, callbacks, commands, wpc, song>>

(* Mutant: the worker holds the mutex of the queue while it runs a command. *)
MonitorFireLocked ==
  /\ mpc = "fire" /\ wpc = "idle"
  /\ commands' = Append(commands, Advance)
  /\ mpc' = "poll"
  /\ UNCHANGED <<engineVars, queueVars, mstop, callbacks, wpc, song>>

MonitorFire ==
  /\ mpc = "fire"
  /\ commands' = Append(commands, Advance)
  /\ mpc' = "poll"
  /\ UNCHANGED <<engineVars, queueVars, mstop, callbacks, wpc, song>>

-------------------------------------------------------------------------------
(* SongQueue::preWarmLoop(): a round opens the songs after the last one     *)
(* opened, as far as PreWarmAhead past the current one.  A file that fails  *)
(* is reported and passed over.                                             *)

PreWarmEnd ==
  /\ ppc = "poll" /\ pstop
  /\ ppc' = "off" /\ pstop' = FALSE
  /\ UNCHANGED <<engineVars, playlist, index, warm, ahead, monitorVars, commands, wpc, song>>

Reach == IF index + PreWarmAhead < Len(playlist) THEN index + PreWarmAhead ELSE Len(playlist)

PreWarmPoll ==
  /\ ppc = "poll" /\ ~pstop /\ warm < Reach
  /\ ahead' = [from |-> warm + 1, to |-> Reach]
  /\ ppc' = "open"
  /\ UNCHANGED <<engineVars, playlist, index, warm, pstop, monitorVars, commands, wpc, song>>

PreWarmSong ==
  /\ ppc = "open"
  /\ warm' \in {warm, ahead.from}
  /\ IF ahead.from < ahead.to /\ ~pstop
     THEN ahead' = [ahead EXCEPT !.from = @ + 1] /\ UNCHANGED ppc
     ELSE ahead' = NoRound /\ ppc' = "poll"
  /\ UNCHANGED <<engineVars, playlist, index, pstop, monitorVars, commands, wpc, song>>

(* The audio threads: the song is over, or was only late. *)
EngineTurn ==
  /\ Engine!Turn
  /\ UNCHANGED <<queueVars, monitorVars, commands, wpc, song>>

-------------------------------------------------------------------------------
Worker ==
  \/ Dequeue
  \/ StopAll \/ StopPreWarm \/ ClearQueue \/ JoinMonitor \/ FillPlaylist
  \/ StopSong \/ LoadSong \/ StartSong
  \/ NextSong \/ StepBack \/ FinishAlbum \/ EmptyQueue \/ PreviousSong
  \/ PlaySong \/ PauseSong \/ SwapDevice

Monitor == MonitorEnd \/ MonitorPoll \/ MonitorFire

PreWarm == PreWarmEnd \/ PreWarmPoll \/ PreWarmSong

Next == Worker \/ Monitor \/ PreWarm \/ EngineTurn \/ \E command \in User : Enqueue(command)

Spec == Init /\ [][Next]_vars

(* The worker, the watcher and the pre-warm thread keep running. *)
FairSpec == Spec /\ WF_vars(Worker) /\ WF_vars(Monitor) /\ WF_vars(PreWarm)

-------------------------------------------------------------------------------
TypeOK ==
  /\ state \in {"Stopped", "Playing", "Paused"} /\ over \in BOOLEAN
  /\ {track, song} \subseteq Songs \cup {NoTrack}
  /\ playlist \in Seq(Songs)
  /\ index \in 0 .. Len(playlist) + 1
  /\ (index = 0 <=> playlist = <<>>) /\ (index > Len(playlist) <=> wpc = "back")
  /\ commands \in Seq(User \cup {Advance}) /\ Len(commands) <= MaxPending
  /\ wpc \in {"idle", "unload", "clear", "join", "fill", "stop", "load", "start",
              "advance", "back", "finish", "empty", "prev", "resume", "pause", "output"}
  /\ warm \in Nat /\ ppc \in {"off", "poll", "open"} /\ pstop \in BOOLEAN
  /\ ahead \in [from : Nat, to : Nat]
  /\ mpc \in {"off", "poll", "fire"} /\ mstop \in BOOLEAN /\ callbacks \in BOOLEAN

(* Whatever was asked and whenever the watcher fired: between commands the  *)
(* engine has the song the queue stands at, or none, and plays nothing that *)
(* the queue does not know of.  What status shows as the current song is    *)
(* read from the queue, what sounds comes from the engine.                  *)
EngineMatchesQueue ==
  /\ wpc = "idle" /\ track # NoTrack => playlist # <<>> /\ track = playlist[index]
  /\ wpc \in {"stop", "load", "start"} => playlist # <<>> /\ song = playlist[index]

(* While an album is loaded its end of song is watched for: a watcher runs  *)
(* and has not been told to stop.                                           *)
AlbumWatched == playlist # <<>> => mpc # "off" /\ ~mstop

(* The watcher never runs without the two functions it calls: stop() resets *)
(* them only after the thread is gone, start() sets them before there is    *)
(* one.  (They are plain members, and the thread reads them without a lock.)*)
CallbacksHeld == mpc # "off" => callbacks

(* The pre-warm thread goes through a playlist that is still there: the     *)
(* songs it has in hand and the mark it leaves are positions in it, though  *)
(* it looks at the playlist once per round and the worker clears and        *)
(* replaces it.                                                             *)
PreWarmInPlaylist ==
  /\ warm <= Len(playlist)
  /\ ppc = "open" => ahead.from <= ahead.to /\ warm < ahead.from /\ ahead.to <= Len(playlist)
  /\ wpc \notin {"clear", "empty"} => (playlist # <<>> <=> ppc # "off")

(* Every command comes to its end: the worker waits for the watcher, which  *)
(* may be just then waiting to put a command into the worker's queue, and   *)
(* for the pre-warm thread, which may be in the middle of a song.           *)
CommandsEnd == wpc # "idle" ~> wpc = "idle"

(* A song that is over does not stay so: the watcher sees it, and the next  *)
(* one is played, or the album ends.                                        *)
OverIsFollowed == over ~> ~over

(* The watcher "checks if the current song has finished and triggers the    *)
(* advance callback": one song that finished triggers one advance.          *)
AdvancedOnce ==
  \A i, j \in DOMAIN commands :
    commands[i] = Advance /\ commands[j] = Advance => i = j

(* The track that status reports is the song's place in the album.          *)
ReportedTrack == index

StatusTrack ==
  wpc = "idle" /\ track # NoTrack => Album[ReportedTrack] = track
===============================================================================
