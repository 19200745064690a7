------------------------- MODULE PlaybackControlProofs -------------------------
(***************************************************************************)
(* What PlaybackControl promises for any album, any number of songs opened *)
(* ahead and any number of commands that wait.                             *)
(*                                                                         *)
(* Two things are not to be seen in the promises and hold them up: the     *)
(* engine is empty while the worker empties or fills the queue, and the    *)
(* pre-warm thread is told to stop only while the worker waits for it.     *)
(***************************************************************************)
EXTENDS PlaybackControl, TLAPS

Labels == {"idle", "unload", "clear", "join", "fill", "stop", "load", "start",
           "advance", "back", "finish", "empty", "prev", "resume", "pause", "output"}

(* Where the worker has not touched the last song of the engine yet and the *)
(* position is that song's, and where it has the song of the queue in hand. *)
Ready  == {"idle", "unload", "advance", "finish", "prev", "resume", "pause", "output"}
InHand == {"stop", "load", "start"}

CommandInv ==
  /\ commands \in Seq(User \cup {Advance}) /\ Len(commands) <= MaxPending
  /\ mpc = "fire" => Len(commands) < MaxPending

QueueInv ==
  /\ wpc \in Labels /\ song \in Songs \cup {NoTrack}
  /\ playlist \in Seq(Songs)
  /\ index \in 0 .. Len(playlist) + 1
  /\ (index = 0 <=> playlist = <<>>) /\ (index > Len(playlist) <=> wpc = "back")
  /\ wpc \in {"unload", "clear", "join", "fill"} => song \in Songs
  /\ wpc \in {"join", "fill"} => playlist = <<>>
  /\ wpc \in InHand => playlist # <<>> /\ song = playlist[index]

EngineInv ==
  /\ state \in {"Stopped", "Playing", "Paused"} /\ track \in Songs \cup {NoTrack}
  /\ wpc \in {"clear", "join", "fill", "load", "empty"} => track = NoTrack
  /\ wpc = "start" => track = song
  /\ wpc \in Ready /\ track # NoTrack => playlist # <<>> /\ track = playlist[index]
  /\ wpc = "back" /\ track # NoTrack => playlist # <<>> /\ track = playlist[Len(playlist)]

WatchInv ==
  /\ mpc \in {"off", "poll", "fire"}
  /\ AlbumWatched /\ CallbacksHeld

WarmInv ==
  /\ warm \in Nat /\ ppc \in {"off", "poll", "open"}
  /\ ahead \in [from : Nat, to : Nat]
  /\ pstop => ppc # "off" /\ wpc \in {"clear", "empty"}
  /\ PreWarmInPlaylist

Flags == over \in BOOLEAN /\ pstop \in BOOLEAN /\ mstop \in BOOLEAN /\ callbacks \in BOOLEAN

IInv == CommandInv /\ QueueInv /\ EngineInv /\ WatchInv /\ WarmInv /\ Flags
-------------------------------------------------------------------------------
(* The album from a song on begins with that song. *)
LEMMA SongsFromIs ==
  ASSUME NEW s \in Songs
  PROVE  SongsFrom(s) \in Seq(Songs) /\ SongsFrom(s) # <<>> /\ SongsFrom(s)[1] = s
<1> DEFINE from == CHOOSE i \in DOMAIN Album : Album[i] = s
<1>1. Album \in Seq(Songs) /\ DOMAIN Album = 1 .. Len(Album) /\ Len(Album) \in Nat
  BY AlbumAssumption DEF Songs
<1>2. from \in DOMAIN Album /\ Album[from] = s
  BY DEF Songs
<1>3. SongsFrom(s) = SubSeq(Album, from, Len(Album))
  BY DEF SongsFrom
<1> HIDE DEF from
<1> QED BY <1>1, <1>2, <1>3

LEMMA PlayedSong ==
  ASSUME NEW i \in DOMAIN Album
  PROVE  Album[i] \in Songs /\ Album[i] # NoTrack
BY AlbumAssumption DEF Songs

LEMMA NoTrackIsNoSong == NoTrack \notin Songs
BY AlbumAssumption DEF Songs

LEMMA InitInv == Init => IInv
<1> SUFFICES ASSUME Init PROVE IInv
  OBVIOUS
<1>1. CommandInv
  BY PendingAssumption DEF Init, CommandInv
<1>2. QueueInv
  BY DEF Init, QueueInv, Labels, InHand
<1>3. EngineInv
  BY DEF Init, EngineInv, Engine!Init
<1>4. WatchInv
  BY DEF Init, WatchInv, AlbumWatched, CallbacksHeld
<1>5. WarmInv
  BY DEF Init, WarmInv, PreWarmInPlaylist, NoRound
<1>6. Flags
  BY DEF Init, Flags, Engine!Init
<1> QED BY <1>1, <1>2, <1>3, <1>4, <1>5, <1>6 DEF IInv

-------------------------------------------------------------------------------
(* The commands that wait: the watcher finds the place it saw. *)
LEMMA CommandStep == IInv /\ [Next]_vars => CommandInv'
<1> SUFFICES ASSUME IInv, [Next]_vars PROVE CommandInv'
  OBVIOUS
<1> USE DEF engineVars, warmVars, queueVars, monitorVars
<1>0. CommandInv /\ mpc \in {"off", "poll", "fire"}
  BY DEF IInv, WatchInv
<1>1. ASSUME NEW command \in User, Enqueue(command) PROVE CommandInv'
  BY <1>0, <1>1, PendingAssumption DEF Enqueue, CommandInv
<1>2. CASE Dequeue
  BY <1>0, <1>2, PendingAssumption DEF Dequeue, CommandInv
<1>3. CASE MonitorPoll
  <2>1. Len(commands) < MaxPending /\ UNCHANGED commands
    BY <1>3, Zenon DEF MonitorPoll
  <2> QED BY <1>0, <2>1 DEF CommandInv
<1>4. CASE MonitorFire
  BY <1>0, <1>4, PendingAssumption DEF MonitorFire, CommandInv, Advance
<1>5. ASSUME UNCHANGED commands, mpc' = mpc \/ mpc' # "fire" PROVE CommandInv'
  BY <1>0, <1>5 DEF CommandInv
<1>6. CASE Worker
  <2>1. CASE FillPlaylist
    BY <1>5, <2>1 DEF FillPlaylist
  <2>2. CASE StopAll \/ StopPreWarm \/ ClearQueue \/ JoinMonitor
    BY <1>5, <2>2 DEF StopAll, StopPreWarm, ClearQueue, JoinMonitor
  <2>3. CASE StopSong \/ LoadSong \/ StartSong
    BY <1>5, <2>3 DEF StopSong, LoadSong, StartSong
  <2>4. CASE NextSong \/ StepBack \/ FinishAlbum \/ EmptyQueue \/ PreviousSong
    BY <1>5, <2>4 DEF NextSong, StepBack, FinishAlbum, EmptyQueue, PreviousSong
  <2>5. CASE PlaySong \/ PauseSong \/ SwapDevice
    BY <1>5, <2>5 DEF PlaySong, PauseSong, SwapDevice
  <2> QED BY <1>2, <1>6, <2>1, <2>2, <2>3, <2>4, <2>5 DEF Worker
<1>7. CASE Monitor
  BY <1>3, <1>4, <1>5, <1>7 DEF Monitor, MonitorEnd
<1>8. CASE PreWarm
  BY <1>5, <1>8 DEF PreWarm, PreWarmEnd, PreWarmPoll, PreWarmSong
<1>9. CASE EngineTurn
  BY <1>5, <1>9 DEF EngineTurn
<1>10. CASE UNCHANGED vars
  BY <1>5, <1>10 DEF vars
<1> QED BY <1>1, <1>6, <1>7, <1>8, <1>9, <1>10 DEF Next

(* The watcher: there is one while there is a playlist, with its functions. *)
LEMMA WatchStep == IInv /\ [Next]_vars => WatchInv'
<1> SUFFICES ASSUME IInv, [Next]_vars PROVE WatchInv'
  OBVIOUS
<1> USE DEF engineVars, warmVars, queueVars, monitorVars
<1>0. /\ mpc \in {"off", "poll", "fire"}
      /\ playlist # <<>> => mpc # "off" /\ mstop = FALSE
      /\ mpc # "off" => callbacks = TRUE
  BY DEF IInv, WatchInv, AlbumWatched, CallbacksHeld, Flags
<1>1. ASSUME UNCHANGED <<playlist, mpc, mstop, callbacks>> PROVE WatchInv'
  BY <1>0, <1>1 DEF WatchInv, AlbumWatched, CallbacksHeld
<1>2. ASSUME NEW command \in User, Enqueue(command) PROVE WatchInv'
  BY <1>1, <1>2 DEF Enqueue
<1>3. CASE Worker
  <2>1. CASE ClearQueue
    <3>1. playlist' = <<>> /\ UNCHANGED <<mpc, callbacks>>
      BY <2>1, Zenon DEF ClearQueue, Cleared
    <3> QED BY <1>0, <3>1 DEF WatchInv, AlbumWatched, CallbacksHeld
  <2>2. CASE JoinMonitor
    <3>1. mpc = "off" /\ UNCHANGED <<playlist, mpc, mstop>>
      BY <2>2, Zenon DEF JoinMonitor
    <3> QED BY <1>0, <3>1 DEF WatchInv, AlbumWatched, CallbacksHeld
  <2>3. CASE FillPlaylist
    BY <2>3 DEF FillPlaylist, WatchInv, AlbumWatched, CallbacksHeld
  <2>4. CASE EmptyQueue
    <3>1. playlist' = <<>> /\ UNCHANGED <<mpc, mstop, callbacks>>
      BY <2>4, Zenon DEF EmptyQueue, Cleared
    <3> QED BY <1>0, <3>1 DEF WatchInv, AlbumWatched, CallbacksHeld
  <2>5. CASE Dequeue \/ StopAll \/ StopPreWarm
    BY <1>1, <2>5, Zenon DEF Dequeue, StopAll, StopPreWarm
  <2>6. CASE StopSong \/ LoadSong \/ StartSong
    BY <1>1, <2>6, Zenon DEF StopSong, LoadSong, StartSong
  <2>7. CASE NextSong \/ StepBack \/ FinishAlbum \/ PreviousSong
    BY <1>1, <2>7, Zenon DEF NextSong, StepBack, FinishAlbum, PreviousSong
  <2>8. CASE PlaySong \/ PauseSong \/ SwapDevice
    BY <1>1, <2>8, Zenon DEF PlaySong, PauseSong, SwapDevice
  <2> QED BY <1>3, <2>1, <2>2, <2>3, <2>4, <2>5, <2>6, <2>7, <2>8 DEF Worker
<1>4. CASE Monitor
  <2>1. CASE MonitorEnd
    <3>1. mstop = TRUE
      BY <2>1 DEF MonitorEnd, IInv, Flags
    <3>2. playlist = <<>> /\ mpc' = "off" /\ UNCHANGED playlist
      BY <1>0, <2>1, <3>1 DEF MonitorEnd
    <3> QED BY <3>2 DEF WatchInv, AlbumWatched, CallbacksHeld
  <2>2. CASE MonitorPoll \/ MonitorFire
    <3>1. mpc # "off" /\ mpc' \in {"poll", "fire"} /\ UNCHANGED <<playlist, mstop, callbacks>>
      BY <2>2, Zenon DEF MonitorPoll, MonitorFire
    <3> QED BY <1>0, <3>1 DEF WatchInv, AlbumWatched, CallbacksHeld
  <2> QED BY <1>4, <2>1, <2>2 DEF Monitor
<1>5. CASE PreWarm
  BY <1>1, <1>5, Zenon DEF PreWarm, PreWarmEnd, PreWarmPoll, PreWarmSong
<1>6. CASE EngineTurn
  BY <1>1, <1>6, Zenon DEF EngineTurn
<1>7. CASE UNCHANGED vars
  BY <1>1, <1>7 DEF vars
<1> QED BY <1>2, <1>3, <1>4, <1>5, <1>6, <1>7 DEF Next
(* The queue: what the worker has in hand is the song the queue stands at.  *)
LEMMA QueueStep == IInv /\ [Next]_vars => QueueInv'
<1> SUFFICES ASSUME IInv, [Next]_vars PROVE QueueInv'
  OBVIOUS
<1> USE DEF engineVars, warmVars, queueVars, monitorVars
<1>0. QueueInv
  BY DEF IInv
<1>1. ASSUME UNCHANGED <<playlist, index, song>>, wpc' \in Labels,
             wpc' = wpc \/ (wpc # "back" /\ wpc' \notin {"unload", "clear", "join", "fill", "back"} \cup InHand)
      PROVE  QueueInv'
  BY <1>0, <1>1 DEF QueueInv
<1>2. ASSUME UNCHANGED <<playlist, index, song, wpc>> PROVE QueueInv'
  BY <1>0, <1>1, <1>2 DEF QueueInv
<1>3. CASE Dequeue
  <2> DEFINE command == Head(commands)
  <2>1. command \in User \cup {Advance} /\ wpc = "idle" /\ UNCHANGED <<playlist, index>>
    BY <1>3 DEF Dequeue, IInv, CommandInv
  <2>2. CASE command.op = "play"
    <3>1. command.from \in DOMAIN Album
      BY <2>1, <2>2 DEF User, Advance
    <3>2. wpc' = "unload" /\ song' = Album[command.from]
      BY <1>3, <2>2 DEF Dequeue, First
    <3> QED BY <1>0, <2>1, <3>1, <3>2, PlayedSong DEF QueueInv, Labels, InHand
  <2>3. CASE command.op # "play"
    <3>1. command.op \in {"next", "prev", "resume", "pause", "output", "advance"}
      BY <2>1, <2>3 DEF User, Advance
    <3>2. wpc' \in {"advance", "prev", "resume", "pause", "output"} /\ song' = NoTrack
      BY <1>3, <2>3, <3>1 DEF Dequeue, First
    <3> QED BY <1>0, <2>1, <3>2 DEF QueueInv, Labels, InHand
  <2> QED BY <2>2, <2>3
<1>4. CASE StopAll \/ StopPreWarm
  BY <1>0, <1>2, <1>4 DEF StopAll, StopPreWarm, QueueInv, Labels, InHand
<1>5. CASE ClearQueue \/ JoinMonitor
  <2>1. CASE ClearQueue
    <3>1. wpc = "clear" /\ wpc' = "join" /\ playlist' = <<>> /\ index' = 0 /\ song' = song
      BY <2>1, Zenon DEF ClearQueue, Cleared
    <3> QED BY <1>0, <3>1 DEF QueueInv, Labels, InHand
  <2>2. CASE JoinMonitor
    BY <1>0, <2>2 DEF JoinMonitor, QueueInv, Labels, InHand
  <2> QED BY <1>5, <2>1, <2>2
<1>6. CASE FillPlaylist
  <2>1. song \in Songs
    BY <1>0, <1>6 DEF FillPlaylist, QueueInv
  <2>2. playlist' = SongsFrom(song) /\ index' = 1 /\ wpc' = "stop" /\ song' = song
    BY <1>6 DEF FillPlaylist, LoadPlaylist
  <2>3. playlist' \in Seq(Songs) /\ playlist' # <<>> /\ playlist'[1] = song
    BY <2>1, <2>2, SongsFromIs
  <2> QED BY <2>1, <2>2, <2>3 DEF QueueInv, Labels, InHand
<1>7. CASE StopSong \/ LoadSong \/ StartSong
  BY <1>0, <1>7 DEF StopSong, LoadSong, StartSong, QueueInv, Labels, InHand
<1>8. CASE NextSong \/ StepBack
  <2>1. CASE NextSong /\ playlist = <<>>
    <3>1. wpc = "advance" /\ wpc' = "finish" /\ UNCHANGED <<playlist, index, song>>
      BY <2>1 DEF NextSong
    <3> QED BY <1>1, <3>1 DEF Labels, InHand
  <2>2. CASE NextSong /\ playlist # <<>>
    <3>1. wpc = "advance" /\ index' = index + 1 /\ UNCHANGED playlist
      BY <2>2 DEF NextSong
    <3>2. index \in 1 .. Len(playlist)
      BY <1>0, <2>2, <3>1 DEF QueueInv
    <3>3. CASE index < Len(playlist)
      <4>1. index + 1 \in DOMAIN playlist /\ playlist[index + 1] \in Songs
        BY <1>0, <3>2, <3>3 DEF QueueInv
      <4>2. song' = playlist[index + 1] /\ wpc' = "stop"
        BY <2>2, <3>1, <3>2, <3>3 DEF NextSong
      <4> QED BY <1>0, <2>2, <3>1, <3>2, <3>3, <4>1, <4>2 DEF QueueInv, Labels, InHand
    <3>4. CASE index = Len(playlist)
      <4>1. wpc' = "back" /\ song' = song
        BY <2>2, <3>1, <3>2, <3>4 DEF NextSong
      <4> QED BY <1>0, <2>2, <3>1, <3>2, <3>4, <4>1 DEF QueueInv, Labels, InHand
    <3> QED BY <1>0, <3>2, <3>3, <3>4 DEF QueueInv
  <2>3. CASE StepBack
    <3>1. wpc = "back" /\ wpc' = "finish" /\ index' = Len(playlist) /\ UNCHANGED <<playlist, song>>
      BY <2>3 DEF StepBack
    <3>2. playlist # <<>> /\ Len(playlist) \in Nat /\ Len(playlist) # 0
      BY <1>0, <3>1 DEF QueueInv
    <3> QED BY <1>0, <3>1, <3>2 DEF QueueInv, Labels, InHand
  <2> QED BY <1>8, <2>1, <2>2, <2>3
<1>9. CASE FinishAlbum \/ EmptyQueue
  <2>1. CASE EmptyQueue
    <3>1. wpc' = "idle" /\ playlist' = <<>> /\ index' = 0 /\ song' = song
      BY <2>1, Zenon DEF EmptyQueue, Cleared
    <3> QED BY <1>0, <3>1 DEF QueueInv, Labels, InHand
  <2>2. CASE FinishAlbum
    BY <1>1, <2>2 DEF FinishAlbum, Labels, InHand
  <2> QED BY <1>9, <2>1, <2>2
<1>10. CASE PreviousSong
  BY <1>0, <1>1, <1>10 DEF PreviousSong, QueueInv, Labels, InHand
<1>11. CASE PlaySong
  <2>1. CASE playlist = <<>> \/ (playlist # <<>> /\ state = "Paused")
    BY <1>0, <1>1, <1>11, <2>1 DEF PlaySong, QueueInv, Labels, InHand
  <2>2. CASE playlist # <<>> /\ state # "Paused"
    <3>1. wpc = "resume" /\ song' = playlist[index] /\ wpc' = "stop" /\ UNCHANGED <<playlist, index>>
      BY <1>11, <2>2 DEF PlaySong
    <3>2. index \in DOMAIN playlist
      BY <1>0, <2>2, <3>1 DEF QueueInv
    <3> QED BY <1>0, <2>2, <3>1, <3>2 DEF QueueInv, Labels, InHand
  <2> QED BY <2>1, <2>2
<1>12. CASE PauseSong \/ SwapDevice
  BY <1>1, <1>12 DEF PauseSong, SwapDevice, Labels, InHand
<1>13. CASE Worker
  BY <1>3, <1>4, <1>5, <1>6, <1>7, <1>8, <1>9, <1>10, <1>11, <1>12, <1>13 DEF Worker
<1>14. ASSUME NEW command \in User, Enqueue(command) PROVE QueueInv'
  BY <1>2, <1>14 DEF Enqueue
<1>15. CASE Monitor
  BY <1>2, <1>15, Zenon DEF Monitor, MonitorEnd, MonitorPoll, MonitorFire
<1>16. CASE PreWarm
  BY <1>2, <1>16, Zenon DEF PreWarm, PreWarmEnd, PreWarmPoll, PreWarmSong
<1>17. CASE EngineTurn
  BY <1>2, <1>17 DEF EngineTurn
<1>18. CASE UNCHANGED vars
  BY <1>2, <1>18 DEF vars
<1> QED BY <1>13, <1>14, <1>15, <1>16, <1>17, <1>18 DEF Next

(* The engine: it has the song of the queue, or none. *)
LEMMA EngineStep == IInv /\ [Next]_vars => EngineInv'
<1> SUFFICES ASSUME IInv, [Next]_vars PROVE EngineInv'
  OBVIOUS
<1> USE DEF engineVars, warmVars, queueVars, monitorVars
<1>0. QueueInv /\ EngineInv
  BY DEF IInv
<1>1. ASSUME UNCHANGED <<playlist, index, song, wpc, track>>, state' \in {"Stopped", "Playing", "Paused"}
      PROVE  EngineInv'
  BY <1>0, <1>1 DEF EngineInv
<1>2. ASSUME track' = NoTrack, state' = "Stopped", wpc' # "start" PROVE EngineInv'
  BY <1>2 DEF EngineInv
<1>3. ASSUME wpc \in Ready, wpc' \in Ready, UNCHANGED <<playlist, index, track>>,
             state' \in {"Stopped", "Playing", "Paused"}
      PROVE  EngineInv'
  BY <1>0, <1>3 DEF EngineInv, Ready
<1>4. ASSUME wpc' \in {"stop"}, UNCHANGED <<track, state>> PROVE EngineInv'
  BY <1>0, <1>4 DEF EngineInv, Ready
<1>5. CASE Dequeue
  <2>1. Head(commands) \in User \cup {Advance}
    BY <1>5 DEF Dequeue, IInv, CommandInv
  <2>2. Head(commands).op \in {"play", "next", "prev", "resume", "pause", "output", "advance"}
    BY <2>1 DEF User, Advance
  <2>3. wpc = "idle" /\ wpc' \in Ready /\ UNCHANGED <<playlist, index, track, state>>
    BY <1>5, <2>2 DEF Dequeue, First, Ready
  <2> QED BY <1>0, <1>3, <2>3 DEF Ready, EngineInv
<1>6. CASE StopAll \/ StopSong \/ FinishAlbum
  BY <1>2, <1>6 DEF StopAll, StopSong, FinishAlbum, Engine!Stop
<1>7. CASE StopPreWarm
  BY <1>0, <1>1, <1>7 DEF StopPreWarm, EngineInv
<1>8. CASE ClearQueue \/ JoinMonitor \/ EmptyQueue
  BY <1>0, <1>8 DEF ClearQueue, JoinMonitor, EmptyQueue, EngineInv, Ready
<1>9. CASE FillPlaylist
  BY <1>4, <1>9 DEF FillPlaylist
<1>10. CASE LoadSong
  <2>1. song \in Songs /\ track = NoTrack /\ wpc = "load"
    <3>1. wpc = "load"
      BY <1>10 DEF LoadSong
    <3>2. song = playlist[index] /\ playlist # <<>> /\ index \in DOMAIN playlist
      BY <1>0, <3>1 DEF QueueInv, InHand
    <3> QED BY <1>0, <3>1, <3>2 DEF EngineInv, QueueInv
  <2> QED BY <1>0, <1>10, <2>1 DEF LoadSong, Engine!Load, EngineInv, Ready
<1>11. CASE StartSong
  <2>1. wpc = "start" /\ wpc' = "idle" /\ state' = "Playing" /\ UNCHANGED <<track, playlist, index>>
    BY <1>11 DEF StartSong, Engine!Start
  <2>2. track = song /\ playlist # <<>> /\ song = playlist[index]
    BY <1>0, <2>1 DEF EngineInv, QueueInv, InHand
  <2> QED BY <1>0, <2>1, <2>2 DEF EngineInv, Ready
<1>12. CASE NextSong \/ StepBack
  <2>1. CASE NextSong
    <3>1. wpc = "advance" /\ UNCHANGED <<track, state, playlist>>
      BY <2>1 DEF NextSong
    <3>2. \/ wpc' = "finish" /\ index' = index
          \/ wpc' = "stop"
          \/ wpc' = "back" /\ playlist # <<>> /\ index + 1 > Len(playlist)
      BY <1>0, <2>1 DEF NextSong, QueueInv
    <3>3. wpc' = "back" => index = Len(playlist)
      BY <1>0, <3>1, <3>2 DEF QueueInv
    <3> QED BY <1>0, <1>3, <1>4, <3>1, <3>2, <3>3 DEF EngineInv, Ready
  <2>2. CASE StepBack
    BY <1>0, <2>2 DEF StepBack, EngineInv, Ready
  <2> QED BY <1>12, <2>1, <2>2
<1>13. CASE PreviousSong
  BY <1>0, <1>3, <1>4, <1>13 DEF PreviousSong, Ready, EngineInv
<1>14. CASE PlaySong
  BY <1>0, <1>3, <1>4, <1>14 DEF PlaySong, Engine!Start, Ready, EngineInv
<1>15. CASE PauseSong
  BY <1>0, <1>3, <1>15 DEF PauseSong, Engine!Pause, Ready, EngineInv
<1>16. CASE SwapDevice
  BY <1>0, <1>3, <1>16 DEF SwapDevice, Ready, EngineInv
<1>17. CASE Worker
  BY <1>5, <1>6, <1>7, <1>8, <1>9, <1>10, <1>11, <1>12, <1>13, <1>14, <1>15, <1>16, <1>17 DEF Worker
<1>18. ASSUME NEW command \in User, Enqueue(command) PROVE EngineInv'
  BY <1>0, <1>1, <1>18 DEF Enqueue, EngineInv
<1>19. CASE Monitor \/ PreWarm \/ UNCHANGED vars
  <2>1. UNCHANGED <<playlist, index, song, wpc, track, state>>
    BY <1>19, Zenon DEF Monitor, MonitorEnd, MonitorPoll, MonitorFire,
                        PreWarm, PreWarmEnd, PreWarmPoll, PreWarmSong, vars
  <2> QED BY <1>0, <1>1, <2>1 DEF EngineInv
<1>20. CASE EngineTurn
  BY <1>0, <1>1, <1>20 DEF EngineTurn, Engine!Turn, EngineInv
<1> QED BY <1>17, <1>18, <1>19, <1>20 DEF Next
(* The pre-warm thread: its songs are in the playlist, which the worker     *)
(* takes away only when the thread is gone.                                 *)
LEMMA WarmStep == IInv /\ [Next]_vars => WarmInv'
<1> SUFFICES ASSUME IInv, [Next]_vars PROVE WarmInv'
  OBVIOUS
<1> USE DEF engineVars, warmVars, queueVars, monitorVars
<1>0. WarmInv /\ QueueInv /\ pstop \in BOOLEAN
  BY DEF IInv, Flags
<1>1. ASSUME UNCHANGED <<playlist, warmVars>>,
             wpc \in {"clear", "empty"} => wpc' = wpc
      PROVE  WarmInv'
  <2>1. wpc' \notin {"clear", "empty"} => wpc \notin {"clear", "empty"}
    BY <1>1
  <2>2. UNCHANGED <<playlist, warm, ppc, ahead, pstop>>
    BY <1>1, Zenon
  <2>3. pstop' => ppc' # "off" /\ wpc' \in {"clear", "empty"}
    BY <1>0, <1>1, <2>2 DEF WarmInv
  <2> QED BY <1>0, <2>1, <2>2, <2>3 DEF WarmInv, PreWarmInPlaylist
<1>2. ASSUME NEW command \in User, Enqueue(command) PROVE WarmInv'
  BY <1>1, <1>2, Zenon DEF Enqueue
<1>3. CASE StopPreWarm
  <2>1. /\ wpc \in {"clear", "empty"} /\ ppc # "off"
        /\ UNCHANGED <<playlist, warm, ppc, ahead, wpc>>
    BY <1>3, Zenon DEF StopPreWarm
  <2> QED BY <1>0, <2>1 DEF WarmInv, PreWarmInPlaylist
<1>4. ASSUME Cleared, wpc \in {"clear", "empty"} PROVE WarmInv'
  <2>1. ppc = "off" /\ playlist' = <<>> /\ warm' = 0 /\ UNCHANGED <<ppc, ahead, pstop>>
    BY <1>4, Zenon DEF Cleared
  <2>2. pstop = FALSE
    BY <1>0, <2>1 DEF WarmInv
  <2> QED BY <1>0, <2>1, <2>2 DEF WarmInv, PreWarmInPlaylist
<1>5. CASE FillPlaylist
  <2>1. song \in Songs
    BY <1>0, <1>5 DEF FillPlaylist, QueueInv
  <2>2. /\ playlist' = SongsFrom(song) /\ warm' = 0 /\ ppc' = "poll" /\ pstop' = FALSE
        /\ ahead' = ahead
    BY <1>5 DEF FillPlaylist, LoadPlaylist
  <2>3. playlist' \in Seq(Songs) /\ playlist' # <<>>
    BY <2>1, <2>2, SongsFromIs
  <2> QED BY <1>0, <2>2, <2>3 DEF WarmInv, PreWarmInPlaylist
<1>6. CASE Worker
  <2>1. CASE ClearQueue \/ EmptyQueue
    BY <1>4, <2>1 DEF ClearQueue, EmptyQueue
  <2>2. CASE Dequeue \/ StopAll \/ JoinMonitor
    BY <1>1, <2>2, Zenon DEF Dequeue, StopAll, JoinMonitor
  <2>3. CASE StopSong \/ LoadSong \/ StartSong
    BY <1>1, <2>3, Zenon DEF StopSong, LoadSong, StartSong
  <2>4. CASE NextSong \/ StepBack \/ FinishAlbum \/ PreviousSong
    BY <1>1, <2>4, Zenon DEF NextSong, StepBack, FinishAlbum, PreviousSong
  <2>5. CASE PlaySong \/ PauseSong \/ SwapDevice
    BY <1>1, <2>5, Zenon DEF PlaySong, PauseSong, SwapDevice
  <2> QED BY <1>3, <1>5, <1>6, <2>1, <2>2, <2>3, <2>4, <2>5 DEF Worker
<1>7. CASE Monitor
  BY <1>1, <1>7, Zenon DEF Monitor, MonitorEnd, MonitorPoll, MonitorFire
<1>8. CASE PreWarmEnd
  <2>1. pstop = TRUE /\ ppc' = "off" /\ pstop' = FALSE /\ UNCHANGED <<playlist, warm, ahead, wpc>>
    BY <1>0, <1>8 DEF PreWarmEnd
  <2>2. wpc \in {"clear", "empty"}
    BY <1>0, <2>1 DEF WarmInv
  <2> QED BY <1>0, <2>1, <2>2 DEF WarmInv, PreWarmInPlaylist
<1>9. CASE PreWarmPoll
  <2>1. /\ ppc = "poll" /\ ppc' = "open" /\ warm < Reach
        /\ ahead' = [from |-> warm + 1, to |-> Reach]
        /\ UNCHANGED <<playlist, warm, pstop, wpc>>
    BY <1>9, Zenon DEF PreWarmPoll
  <2>2. Reach \in Nat /\ Reach <= Len(playlist)
    BY <1>0, PreWarmAssumption DEF Reach, QueueInv
  <2>3. pstop' => ppc' # "off" /\ wpc' \in {"clear", "empty"}
    BY <1>0, <2>1 DEF WarmInv
  <2>4. playlist' # <<>> <=> playlist # <<>>
    BY <2>1
  <2> QED BY <1>0, <2>1, <2>2, <2>3, <2>4 DEF WarmInv, PreWarmInPlaylist
<1>10. CASE PreWarmSong
  <2>1. ppc = "open" /\ warm' \in {warm, ahead.from} /\ UNCHANGED <<playlist, pstop, wpc>>
    BY <1>10, Zenon DEF PreWarmSong
  <2>2. \/ ahead.from < ahead.to /\ ahead' = [ahead EXCEPT !.from = @ + 1] /\ ppc' = ppc
        \/ ahead' = NoRound /\ ppc' = "poll"
    BY <1>10, Zenon DEF PreWarmSong
  <2>3. /\ ahead \in [from : Nat, to : Nat] /\ ahead.from <= ahead.to
        /\ warm \in Nat /\ warm < ahead.from /\ ahead.to <= Len(playlist)
    BY <1>0, <2>1 DEF WarmInv, PreWarmInPlaylist
  <2>4. ahead' \in [from : Nat, to : Nat] /\ ppc' \in {"poll", "open"}
    BY <2>1, <2>2, <2>3 DEF NoRound
  <2>5. warm' \in Nat /\ warm' <= Len(playlist')
    BY <1>0, <2>1, <2>3 DEF QueueInv
  <2>6. ppc' = "open" => ahead'.from <= ahead'.to /\ warm' < ahead'.from /\ ahead'.to <= Len(playlist')
    BY <2>1, <2>2, <2>3 DEF NoRound
  <2>7. pstop' => ppc' # "off" /\ wpc' \in {"clear", "empty"}
    BY <1>0, <2>1, <2>4 DEF WarmInv
  <2>8. wpc' \notin {"clear", "empty"} => (playlist' # <<>> <=> ppc' # "off")
    BY <1>0, <2>1, <2>4 DEF WarmInv, PreWarmInPlaylist
  <2> QED BY <2>4, <2>5, <2>6, <2>7, <2>8 DEF WarmInv, PreWarmInPlaylist
<1>11. CASE EngineTurn
  BY <1>1, <1>11, Zenon DEF EngineTurn
<1>12. CASE UNCHANGED vars
  BY <1>1, <1>12, Zenon DEF vars
<1> QED BY <1>2, <1>6, <1>7, <1>8, <1>9, <1>10, <1>11, <1>12 DEF Next, PreWarm
LEMMA FlagStep == IInv /\ [Next]_vars => Flags'
<1> SUFFICES ASSUME IInv, [Next]_vars PROVE Flags'
  OBVIOUS
<1> USE DEF engineVars, warmVars, queueVars, monitorVars
<1>0. Flags
  BY DEF IInv
<1>1. over' \in BOOLEAN
  <2>1. over' = over \/ over' = ~over \/ over' \in BOOLEAN
    <3>1. ASSUME NEW command \in User, Enqueue(command) PROVE over' = over
      BY <3>1, Zenon DEF Enqueue
    <3>2. CASE Dequeue \/ StopPreWarm \/ ClearQueue \/ JoinMonitor \/ FillPlaylist
      BY <3>2, Zenon DEF Dequeue, StopPreWarm, ClearQueue, JoinMonitor, FillPlaylist
    <3>3. CASE NextSong \/ StepBack \/ EmptyQueue \/ PreviousSong \/ SwapDevice
      BY <3>3, Zenon DEF NextSong, StepBack, EmptyQueue, PreviousSong, SwapDevice
    <3>4. CASE StopAll \/ StopSong \/ FinishAlbum
      BY <3>4 DEF StopAll, StopSong, FinishAlbum, Engine!Stop
    <3>5. CASE LoadSong \/ StartSong
      BY <3>5, Zenon DEF LoadSong, StartSong, Engine!Load, Engine!Start
    <3>6. CASE PlaySong
      BY <3>6, Zenon DEF PlaySong, Engine!Start
    <3>7. CASE PauseSong
      BY <3>7 DEF PauseSong, Engine!Pause
    <3>8. CASE Monitor \/ PreWarm \/ UNCHANGED vars
      BY <3>8, Zenon DEF Monitor, MonitorEnd, MonitorPoll, MonitorFire,
                         PreWarm, PreWarmEnd, PreWarmPoll, PreWarmSong, vars
    <3>9. CASE EngineTurn
      BY <3>9, Zenon DEF EngineTurn, Engine!Turn
    <3> QED BY <3>1, <3>2, <3>3, <3>4, <3>5, <3>6, <3>7, <3>8, <3>9, Zenon DEF Next, Worker
  <2> QED BY <1>0, <2>1, Zenon DEF Flags
<1>2. pstop' \in {pstop, TRUE, FALSE} /\ mstop' \in {mstop, TRUE, FALSE} /\ callbacks' \in {callbacks, TRUE, FALSE}
  <2>1. ASSUME UNCHANGED <<pstop, mstop, callbacks>>
        PROVE  pstop' \in {pstop, TRUE, FALSE} /\ mstop' \in {mstop, TRUE, FALSE} /\ callbacks' \in {callbacks, TRUE, FALSE}
    BY <2>1, Zenon
  <2>2. ASSUME NEW command \in User, Enqueue(command) PROVE UNCHANGED <<pstop, mstop, callbacks>>
    BY <2>2, Zenon DEF Enqueue
  <2>3. CASE Dequeue \/ StopAll \/ StopSong \/ LoadSong \/ StartSong
    BY <2>1, <2>3, Zenon DEF Dequeue, StopAll, StopSong, LoadSong, StartSong
  <2>4. CASE NextSong \/ StepBack \/ FinishAlbum \/ PreviousSong \/ PlaySong \/ PauseSong \/ SwapDevice
    BY <2>1, <2>4, Zenon DEF NextSong, StepBack, FinishAlbum, PreviousSong, PlaySong, PauseSong, SwapDevice
  <2>5. CASE StopPreWarm \/ ClearQueue \/ JoinMonitor
    BY <2>5, Zenon DEF StopPreWarm, ClearQueue, Cleared, JoinMonitor
  <2>6. CASE FillPlaylist \/ EmptyQueue
    BY <2>6, Zenon DEF FillPlaylist, LoadPlaylist, EmptyQueue, Cleared
  <2>7. CASE Monitor \/ PreWarmPoll \/ PreWarmSong \/ EngineTurn \/ UNCHANGED vars
    BY <2>1, <2>7, Zenon DEF Monitor, MonitorEnd, MonitorPoll, MonitorFire,
                             PreWarmPoll, PreWarmSong, EngineTurn, vars
  <2>8. CASE PreWarmEnd
    BY <2>8, Zenon DEF PreWarmEnd
  <2> QED BY <2>1, <2>2, <2>3, <2>4, <2>5, <2>6, <2>7, <2>8, Zenon DEF Next, Worker, PreWarm
<1> QED BY <1>0, <1>1, <1>2, Zenon DEF Flags

(* The invariant is one. *)
THEOREM Inductive == Spec => []IInv
<1>1. IInv /\ [Next]_vars => IInv'
  BY CommandStep, QueueStep, EngineStep, WatchStep, WarmStep, FlagStep, Zenon DEF IInv
<1> QED BY InitInv, <1>1, PTL DEF Spec

-------------------------------------------------------------------------------
(* Every variable holds a value of its kind, and no more commands wait than *)
(* there is place for.                                                      *)
THEOREM TypeCorrect == Spec => []TypeOK
<1>1. IInv => TypeOK
  <2> SUFFICES ASSUME IInv PROVE TypeOK
    OBVIOUS
  <2>1. /\ state \in {"Stopped", "Playing", "Paused"} /\ {track, song} \subseteq Songs \cup {NoTrack}
        /\ playlist \in Seq(Songs) /\ index \in 0 .. Len(playlist) + 1
        /\ (index = 0 <=> playlist = <<>>) /\ (index > Len(playlist) <=> wpc = "back")
    BY DEF IInv, EngineInv, QueueInv
  <2>2. commands \in Seq(User \cup {Advance}) /\ Len(commands) <= MaxPending /\ wpc \in Labels
    BY DEF IInv, CommandInv, QueueInv
  <2>3. /\ warm \in Nat /\ ppc \in {"off", "poll", "open"} /\ ahead \in [from : Nat, to : Nat]
        /\ mpc \in {"off", "poll", "fire"}
    BY DEF IInv, WarmInv, WatchInv
  <2> QED BY <2>1, <2>2, <2>3, Zenon DEF TypeOK, IInv, Flags, Labels
<1> QED BY Inductive, <1>1, PTL

(* Between commands the engine has the song the queue stands at, or none,   *)
(* whatever was asked and whenever the watcher fired, for any album.        *)
THEOREM EngineMatchesQueueHolds == Spec => []EngineMatchesQueue
<1>1. IInv => EngineMatchesQueue
  BY DEF IInv, EngineInv, QueueInv, Ready, InHand, EngineMatchesQueue
<1> QED BY Inductive, <1>1, PTL

(* While an album is loaded a watcher runs that was not told to stop. *)
THEOREM AlbumWatchedHolds == Spec => []AlbumWatched
<1>1. IInv => AlbumWatched
  BY Zenon DEF IInv, WatchInv
<1> QED BY Inductive, <1>1, PTL

(* The watcher never runs without the functions it calls. *)
THEOREM CallbacksHeldHolds == Spec => []CallbacksHeld
<1>1. IInv => CallbacksHeld
  BY Zenon DEF IInv, WatchInv
<1> QED BY Inductive, <1>1, PTL

(* The pre-warm thread goes through a playlist that is still there, however *)
(* far ahead of the current song it opens files.                            *)
THEOREM PreWarmInPlaylistHolds == Spec => []PreWarmInPlaylist
<1>1. IInv => PreWarmInPlaylist
  BY Zenon DEF IInv, WarmInv
<1> QED BY Inductive, <1>1, PTL
===============================================================================
