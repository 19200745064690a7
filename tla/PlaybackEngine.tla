---------------------------- MODULE PlaybackEngine ----------------------------
(***************************************************************************)
(* player/PlaybackEngine: one track at a time, from the decoder through    *)
(* the ring buffer to the audio device.  Three threads meet here:          *)
(*   - the worker that runs the playback commands one after another calls  *)
(*     load, play, pause, stop, setVolume and setOutputDevice (wpc);       *)
(*   - the decode thread (player/DecodeThread) fills the ring (dpc);       *)
(*   - the device thread calls SdlAudioSink::fill, which empties it        *)
(*     (the phase of a sink).                                              *)
(* The ring is the FIFO that RingBuffer implements.  A sample is a track   *)
(* and a position in it.                                                   *)
(*                                                                         *)
(* Of SDL the model takes what the code relies on: the callback runs under *)
(* the device lock and only while the device is not paused, and pausing or *)
(* closing a device takes that lock, so it waits for a callback in flight. *)
(* A converter here changes the size of a pull, not the sample rate.       *)
(***************************************************************************)
EXTENDS Integers, Sequences

CONSTANTS
  Tracks,        \* audio files
  MaxLength,     \* samples in the longest of them (bound)
  Capacity,      \* samples the ring holds
  Chunk,         \* DECODE_CHUNK_FRAMES
  PrefillParts,  \* 1 / RING_BUFFER_PREFILL_PERCENT
  DeviceFrames,  \* samples a device asks for in one callback
  Pull,          \* srcFramesPerPull_ when there is a converter
  Threshold,     \* END_OF_STREAM_THRESHOLD
  Devices, Default,   \* output devices by name, and the empty name
  VolumeInputs,       \* the percentages setVolume() is called with
  NoTrack, NoSink

ASSUME SizeAssumption ==
  /\ {MaxLength, Threshold} \subseteq Nat
  /\ {Capacity, Chunk, PrefillParts, DeviceFrames, Pull} \subseteq Nat \ {0}
  /\ Pull > DeviceFrames
  /\ Capacity \div PrefillParts <= Capacity - Chunk + 1
ASSUME NameAssumption ==
  /\ NoTrack \notin Tracks /\ Default \in Devices
  /\ VolumeInputs \subseteq Int

(* A sample, and an open device: its converter and what is left in it, and  *)
(* where its callback is.                                                   *)
Samples == Seq(Tracks \X (1 .. MaxLength))
Sink    == [dev : Devices, paused : BOOLEAN, vol : 0 .. 100, conv : BOOLEAN,
            left : Samples, phase : {"quiet", "pull", "deliver"}]

ASSUME SinkAssumption == NoSink \notin Sink

VARIABLES
  wpc, job,       \* where the worker is, and the track or device it is on
  state,          \* state_
  decoder,        \* decoder_: the track it has open
  decoded,        \* samples the decoder has handed out
  currentFile,    \* currentFile_
  target,         \* targetSamples of the prefill loop
  dpc,            \* decode thread: off, check, decode, write, ended
  chunk,          \* what it decoded and has not written yet
  stopReq, eos,   \* its stop token; endOfStream_
  ring,           \* ringBuffer_
  silent,         \* silentCallbacks_, up to Threshold
  samplesPlayed,  \* samplesPlayed_
  sinks,          \* "main": sink_; "new": newSink of setOutputDevice()
  volume, outputDevice,   \* volume_, outputDeviceName_
  heard           \* history: samples of the track that left for the device

workVars   == <<wpc, job, target>>
decodeVars == <<decoded, dpc, chunk, eos>>
countVars  == <<silent, samplesPlayed, heard>>
prefVars   == <<volume, outputDevice>>
vars == <<workVars, state, decoder, currentFile, decodeVars, stopReq, ring,
          countVars, sinks, prefVars>>

-------------------------------------------------------------------------------
Lesser(a, b) == IF a <= b THEN a ELSE b
Take(s, n)   == SubSeq(s, 1, n)
Drop(s, n)   == SubSeq(s, n + 1, Len(s))

Space    == Capacity - Len(ring)
Clamp(v) == IF v < 0 THEN 0 ELSE Lesser(v, 100)

(* A device just opened: paused, silent, and with a converter or without.   *)
Fresh(d, v, conv) == [dev |-> d, paused |-> TRUE, vol |-> v, conv |-> conv,
                      left |-> <<>>, phase |-> "quiet"]

HasSink == sinks["main"] # NoSink
Idle    == wpc = "idle"

(* No callback of the sink in use is in flight: what taking the device lock *)
(* to pause it waits for.                                                   *)
LockFree == HasSink => sinks["main"].phase = "quiet"

PausedSinks(on) ==
  IF HasSink THEN [sinks EXCEPT !["main"].paused = on] ELSE sinks

-------------------------------------------------------------------------------
Init ==
  /\ wpc = "idle" /\ job = NoTrack /\ target = 0
  /\ state = "Stopped" /\ decoder = NoTrack /\ currentFile = NoTrack
  /\ dpc = "off" /\ decoded = 0 /\ chunk = <<>> /\ stopReq = FALSE /\ eos = FALSE
  /\ ring = <<>> /\ silent = 0 /\ samplesPlayed = 0 /\ heard = 0
  /\ sinks = [s \in {"main", "new"} |-> NoSink]
  /\ volume = 100 /\ outputDevice = Default

-------------------------------------------------------------------------------
(* stopPlayback(), alone or as the first half of load(t).                   *)

BeginStop(t) ==
  /\ Idle
  /\ job' = t /\ wpc' = "quiet"
  /\ UNCHANGED <<target, state, decoder, currentFile, decodeVars, stopReq, ring,
                 countVars, sinks, prefVars>>

(* sink_->stop(), then the decode thread is asked to stop. *)
QuietSink ==
  /\ wpc = "quiet" /\ LockFree
  /\ sinks' = PausedSinks(TRUE)
  /\ stopReq' = TRUE
  /\ wpc' = "join"
  /\ UNCHANGED <<job, target, state, decoder, currentFile, decodeVars, ring,
                 countVars, prefVars>>

(* Mutant: the thread is told to stop and not waited for. *)
JoinDecodeDetached ==
  /\ wpc = "join"
  /\ stopReq' = (dpc \in {"check", "decode", "write"})
  /\ wpc' = "teardown"
  /\ UNCHANGED <<job, target, state, decoder, currentFile, decodeVars, ring,
                 countVars, sinks, prefVars>>

JoinDecode ==
  /\ wpc = "join" /\ dpc \in {"off", "ended"}
  /\ dpc' = "off" /\ stopReq' = FALSE
  /\ wpc' = "teardown"
  /\ UNCHANGED <<job, target, state, decoder, currentFile, decoded, chunk, eos,
                 ring, countVars, sinks, prefVars>>

(* Mutant: the state is not set back to Stopped. *)
TearDownKeepingState ==
  /\ wpc = "teardown"
  /\ decoder' = NoTrack /\ currentFile' = NoTrack /\ decoded' = 0
  /\ ring' = <<>> /\ samplesPlayed' = 0 /\ heard' = 0
  /\ wpc' = (IF job = NoTrack THEN "idle" ELSE "open")
  /\ UNCHANGED <<job, target, state, dpc, chunk, stopReq, eos, silent, sinks,
                 prefVars>>

TearDown ==
  /\ wpc = "teardown"
  /\ decoder' = NoTrack /\ currentFile' = NoTrack /\ decoded' = 0
  /\ ring' = <<>> /\ samplesPlayed' = 0 /\ heard' = 0
  /\ state' = "Stopped"
  /\ wpc' = (IF job = NoTrack THEN "idle" ELSE "open")
  /\ UNCHANGED <<job, target, dpc, chunk, stopReq, eos, silent, sinks, prefVars>>

-------------------------------------------------------------------------------
(* The rest of load(): the decoder, then the sink.                          *)

OpenFile ==
  /\ wpc = "open"
  /\ \/ /\ decoder' = job /\ currentFile' = job    \* samplesPlayed_ is 0 and
        /\ wpc' = "prepare"                        \* the ring empty already
     \/ /\ wpc' = "idle" /\ UNCHANGED <<decoder, currentFile>>
  /\ UNCHANGED <<job, target, state, decodeVars, stopReq, ring, countVars, sinks,
                 prefVars>>

(* Mutant: the converter is kept as it is, with the samples still in it. *)
ReformattedKeeping(conv) == [sinks["main"] EXCEPT !.conv = conv, !.vol = volume]

(* What prepareSink() and setVolume() make of the sink, when they succeed:  *)
(* the open one set to the new format, or a new one on device d.            *)
Reformatted(conv) == [sinks["main"] EXCEPT !.conv = conv, !.left = <<>>, !.vol = volume]

PrepareSink ==
  /\ wpc = "prepare"
  /\ \/ \E conv \in BOOLEAN :
          /\ \/ /\ HasSink
                /\ sinks' = [sinks EXCEPT !["main"] = Reformatted(conv)]
                /\ UNCHANGED outputDevice
             \/ \E d \in {outputDevice, Default} :
                  /\ sinks' = [sinks EXCEPT !["main"] = Fresh(d, volume, conv)]
                  /\ outputDevice' = d
          /\ state' = "Stopped"
          /\ UNCHANGED decoder
     \/ /\ sinks' = [sinks EXCEPT !["main"] = NoSink]
        /\ decoder' = NoTrack
        /\ UNCHANGED <<state, outputDevice>>
  /\ wpc' = "idle"
  /\ UNCHANGED <<job, target, currentFile, decodeVars, stopReq, ring, countVars,
                 volume>>

-------------------------------------------------------------------------------
(* play(): a loaded track starts (startPlayback), a paused one resumes.     *)

StartPlayback ==
  /\ Idle /\ state = "Stopped" /\ decoder # NoTrack /\ HasSink
  /\ silent' = 0
  /\ dpc' = "check" /\ eos' = FALSE
  /\ wpc' = "target"
  /\ UNCHANGED <<job, target, state, decoder, currentFile, decoded, chunk, stopReq,
                 ring, samplesPlayed, heard, sinks, prefVars>>

PrefillTarget ==
  /\ wpc = "target"
  /\ target' = Space \div PrefillParts
  /\ wpc' = "prefill"
  /\ UNCHANGED <<job, state, decoder, currentFile, decodeVars, stopReq, ring,
                 countVars, sinks, prefVars>>

(* Mutant: the loop does not look at the end of the stream. *)
PrefilledByLevel == Len(ring) >= target

Prefilled == Len(ring) >= target \/ eos

PrefillEnd ==
  /\ wpc = "prefill" /\ Prefilled
  /\ wpc' = "start"
  /\ UNCHANGED <<job, target, state, decoder, currentFile, decodeVars, stopReq,
                 ring, countVars, sinks, prefVars>>

Resume ==
  /\ Idle /\ state = "Paused" /\ decoder # NoTrack /\ HasSink
  /\ wpc' = "start"
  /\ UNCHANGED <<job, target, state, decoder, currentFile, decodeVars, stopReq,
                 ring, countVars, sinks, prefVars>>

StartDevice ==
  /\ wpc = "start"
  /\ sinks' = PausedSinks(FALSE)
  /\ wpc' = "playing"
  /\ UNCHANGED <<job, target, state, decoder, currentFile, decodeVars, stopReq,
                 ring, countVars, prefVars>>

MarkPlaying ==
  /\ wpc = "playing"
  /\ state' = "Playing"
  /\ wpc' = "idle"
  /\ UNCHANGED <<job, target, decoder, currentFile, decodeVars, stopReq, ring,
                 countVars, sinks, prefVars>>

(* pause() *)
BeginPause ==
  /\ Idle /\ state = "Playing"
  /\ wpc' = "pausing"
  /\ UNCHANGED <<job, target, state, decoder, currentFile, decodeVars, stopReq,
                 ring, countVars, sinks, prefVars>>

PauseDevice ==
  /\ wpc = "pausing" /\ LockFree
  /\ sinks' = PausedSinks(TRUE)
  /\ wpc' = "paused"
  /\ UNCHANGED <<job, target, state, decoder, currentFile, decodeVars, stopReq,
                 ring, countVars, prefVars>>

MarkPaused ==
  /\ wpc = "paused"
  /\ state' = "Paused"
  /\ wpc' = "idle"
  /\ UNCHANGED <<job, target, decoder, currentFile, decodeVars, stopReq, ring,
                 countVars, sinks, prefVars>>

SetVolume(percent) ==
  /\ Idle
  /\ volume' = Clamp(percent)
  /\ sinks' = (IF HasSink THEN [sinks EXCEPT !["main"].vol = Clamp(percent)]
               ELSE sinks)
  /\ UNCHANGED <<workVars, state, decoder, currentFile, decodeVars, stopReq, ring,
                 countVars, outputDevice>>

-------------------------------------------------------------------------------
(* setOutputDevice(): with no sink the name is tried and kept; otherwise    *)
(* the new device is opened first, then the old one stopped and replaced.   *)
(* A device that cannot be opened, or is already the one, changes nothing.  *)

ProbeDevice(d) ==
  /\ Idle /\ d # outputDevice /\ ~HasSink
  /\ outputDevice' = d
  /\ UNCHANGED <<workVars, state, decoder, currentFile, decodeVars, stopReq, ring,
                 countVars, sinks, volume>>

(* Mutants: the new device does not get the volume; it is started already. *)
NewSinkLoud(d, conv)    == Fresh(d, 100, conv)
NewSinkStarted(d, conv) == [Fresh(d, volume, conv) EXCEPT !.paused = state # "Playing"]

NewSink(d, conv) == Fresh(d, volume, conv)

OpenNewSink(d) ==
  /\ Idle /\ d # outputDevice /\ HasSink
  /\ \E conv \in BOOLEAN : sinks' = [sinks EXCEPT !["new"] = NewSink(d, conv)]
  /\ job' = d /\ wpc' = "stopold"
  /\ UNCHANGED <<target, state, decoder, currentFile, decodeVars, stopReq, ring,
                 countVars, prefVars>>

StopOldSink ==
  /\ wpc = "stopold" /\ LockFree
  /\ sinks' = PausedSinks(TRUE)
  /\ wpc' = "swap"
  /\ UNCHANGED <<job, target, state, decoder, currentFile, decodeVars, stopReq,
                 ring, countVars, prefVars>>

(* The old sink is closed; what its converter still held is lost with it.   *)
SwapSink ==
  /\ wpc = "swap"
  /\ sinks' = [main |-> sinks["new"], new |-> NoSink]
  /\ heard' = (IF decoder = NoTrack THEN heard
               ELSE heard + Len(sinks["main"].left))
  /\ wpc' = "restart"
  /\ UNCHANGED <<job, target, state, decoder, currentFile, decodeVars, stopReq,
                 ring, silent, samplesPlayed, prefVars>>

(* Mutant: the new device is started whatever the state was. *)
WasPlayingAlways == TRUE

WasPlaying == state = "Playing"

RestartSink ==
  /\ wpc = "restart"
  /\ sinks' = (IF WasPlaying THEN PausedSinks(FALSE) ELSE sinks)
  /\ outputDevice' = job
  /\ wpc' = "idle"
  /\ UNCHANGED <<job, target, state, decoder, currentFile, decodeVars, stopReq,
                 ring, countVars, volume>>

-------------------------------------------------------------------------------
(* decodeLoop().  While the ring has no room for a chunk the loop sleeps.   *)

DecodeStop ==
  /\ dpc = "check" /\ stopReq
  /\ dpc' = "ended"
  /\ UNCHANGED <<workVars, state, decoder, currentFile, decoded, chunk, eos,
                 stopReq, ring, countVars, sinks, prefVars>>

(* Mutant: asks for room for one sample instead of a chunk. *)
RoomForOne == Space >= 1

RoomForChunk == Space >= Chunk

DecodeAdmit ==
  /\ dpc = "check" /\ ~stopReq /\ RoomForChunk
  /\ dpc' = "decode"
  /\ UNCHANGED <<workVars, state, decoder, currentFile, decoded, chunk, eos,
                 stopReq, ring, countVars, sinks, prefVars>>

(* decodeFrames(): up to a chunk; none is the end of the track, or an error *)
(* in it, wherever it comes.                                                *)
DecodeFrames ==
  /\ dpc = "decode"
  /\ \E n \in 0 .. Lesser(Chunk, MaxLength - decoded) :
       /\ chunk' = [k \in 1 .. n |-> <<decoder, decoded + k>>]
       /\ decoded' = decoded + n
       /\ eos' = (n = 0)
       /\ dpc' = (IF n = 0 THEN "ended" ELSE "write")
  /\ UNCHANGED <<workVars, state, decoder, currentFile, stopReq, ring, countVars,
                 sinks, prefVars>>

(* ringBuffer_->write(); whatever does not fit would be lost. *)
DecodeWrite ==
  /\ dpc = "write"
  /\ ring' = ring \o Take(chunk, Lesser(Len(chunk), Space))
  /\ chunk' = <<>>
  /\ dpc' = "check"
  /\ UNCHANGED <<workVars, state, decoder, currentFile, decoded, eos, stopReq,
                 countVars, sinks, prefVars>>

-------------------------------------------------------------------------------
(* SdlAudioSink::fill() of sink s, with makeAudioProvider()'s provider.     *)

Enough(sink, left) == sink.conv /\ Len(left) >= DeviceFrames

FillBegin(s) ==
  /\ sinks[s] # NoSink /\ ~sinks[s].paused /\ sinks[s].phase = "quiet"
  /\ sinks' = [sinks EXCEPT ![s].phase =
                 IF Enough(sinks[s], sinks[s].left) THEN "deliver" ELSE "pull"]
  /\ UNCHANGED <<workVars, state, decoder, currentFile, decodeVars, stopReq, ring,
                 countVars, prefVars>>

(* Mutant: silence after the decoder's end is not an underrun, so not counted. *)
SilentWhileDecoding(n) == IF n = 0 /\ ~eos THEN Lesser(silent + 1, Threshold) ELSE 0

SilentAfter(n) == IF n = 0 THEN Lesser(silent + 1, Threshold) ELSE 0

(* One call of the provider.  A converter goes on pulling until it has one  *)
(* callback's worth or the ring is empty.                                   *)
FillPull(s) ==
  /\ sinks[s] # NoSink /\ sinks[s].phase = "pull"
  /\ LET sink == sinks[s]
         want == IF sink.conv THEN Pull ELSE DeviceFrames
         n    == Lesser(want, Len(ring))
         left == sink.left \o Take(ring, n)
     IN  /\ ring' = Drop(ring, n)
         /\ silent' = SilentAfter(n)
         /\ samplesPlayed' = samplesPlayed + n
         /\ sinks' = [sinks EXCEPT
              ![s].left = left,
              ![s].phase = IF n = 0 \/ ~sink.conv \/ Enough(sink, left)
                           THEN "deliver" ELSE "pull"]
  /\ UNCHANGED <<workVars, state, decoder, currentFile, decodeVars, stopReq, heard,
                 prefVars>>

FillDeliver(s) ==
  /\ sinks[s] # NoSink /\ sinks[s].phase = "deliver"
  /\ LET n == Lesser(DeviceFrames, Len(sinks[s].left))
     IN  /\ sinks' = [sinks EXCEPT ![s].left = Drop(@, n), ![s].phase = "quiet"]
         /\ heard' = heard + n
  /\ UNCHANGED <<workVars, state, decoder, currentFile, decodeVars, stopReq, ring,
                 silent, samplesPlayed, prefVars>>

-------------------------------------------------------------------------------
Command ==
  \/ \E t \in Tracks \cup {NoTrack} : BeginStop(t)
  \/ StartPlayback \/ Resume \/ BeginPause
  \/ \E v \in VolumeInputs : SetVolume(v)
  \/ \E d \in Devices : ProbeDevice(d) \/ OpenNewSink(d)

Locked == QuietSink \/ PauseDevice \/ StopOldSink

Work == \/ JoinDecode \/ TearDown \/ OpenFile \/ PrepareSink
        \/ PrefillTarget \/ PrefillEnd \/ StartDevice \/ MarkPlaying
        \/ MarkPaused \/ SwapSink \/ RestartSink

DecodeLoop == DecodeStop \/ DecodeAdmit \/ DecodeFrames \/ DecodeWrite

Fill == \E s \in {"main", "new"} : FillBegin(s) \/ FillPull(s) \/ FillDeliver(s)

Next == Command \/ Locked \/ Work \/ DecodeLoop \/ Fill

Spec == Init /\ [][Next]_vars

(* Every thread keeps running, and the device keeps asking for audio.  The  *)
(* worker gets the device lock in the end: the device thread waits for the  *)
(* hardware between two callbacks.                                          *)
Fairness == WF_vars(Work) /\ SF_vars(Locked) /\ WF_vars(DecodeLoop) /\ WF_vars(Fill)

FairSpec == Spec /\ Fairness

-------------------------------------------------------------------------------
TypeOK ==
  /\ wpc \in {"idle", "quiet", "join", "teardown", "open", "prepare", "target",
              "prefill", "start", "playing", "pausing", "paused", "stopold",
              "swap", "restart"}
  /\ job \in Tracks \cup Devices \cup {NoTrack}
  /\ state \in {"Stopped", "Playing", "Paused"}
  /\ {decoder, currentFile} \subseteq Tracks \cup {NoTrack}
  /\ target \in 0 .. Capacity
  /\ dpc \in {"off", "check", "decode", "write", "ended"}
  /\ {decoded, samplesPlayed, heard} \subseteq 0 .. MaxLength
  /\ stopReq \in BOOLEAN /\ eos \in BOOLEAN
  /\ ring \in Samples /\ Len(ring) <= Capacity
  /\ chunk \in Samples /\ Len(chunk) <= Chunk
  /\ silent \in 0 .. Threshold
  /\ sinks \in [{"main", "new"} -> Sink \cup {NoSink}]
  /\ \A s \in {"main", "new"} : sinks[s] # NoSink => Len(sinks[s].left) <= DeviceFrames + Pull
  /\ volume \in 0 .. 100 /\ outputDevice \in Devices

(* What is on its way to the device: in the converter, the ring and the     *)
(* decode thread's hands.                                                   *)
Pipeline == (IF HasSink THEN sinks["main"].left ELSE <<>>) \o ring \o chunk

(* While a track is loaded, the audio on its way is that track's, all of    *)
(* what was decoded and not yet heard, in order: no command, device change  *)
(* or track change repeats, reorders or mixes in samples, and only closing  *)
(* a device drops any.  samplesPlayed_, the progress shown, agrees with it. *)
AudioInOrder ==
  decoder # NoTrack /\ wpc # "prepare" =>
    /\ currentFile = decoder
    /\ Pipeline = [k \in 1 .. decoded - heard |-> <<decoder, heard + k>>]
    /\ samplesPlayed = decoded - Len(ring \o chunk)

(* The ring and the decoder are torn down only when nobody else is inside:  *)
(* "safe: decode thread stopped and device paused" at load(), and the same  *)
(* for stopPlayback(), which also closes the decoder the thread reads from. *)
TearDownIsSafe ==
  /\ wpc \in {"teardown", "open", "prepare"} =>
       /\ dpc \in {"off", "ended"}
       /\ HasSink => sinks["main"].paused /\ sinks["main"].phase = "quiet"
  /\ dpc \in {"check", "decode", "write"} => decoder # NoTrack

(* The ring buffer is for one consumer: never do two devices run at once,   *)
(* not even while one replaces the other.                                   *)
OneConsumer ==
  ~ \A s \in {"main", "new"} : sinks[s] # NoSink /\ ~sinks[s].paused

(* Between commands, sound comes out exactly in the state Playing, and a    *)
(* track that plays or is paused has a decoder and a device: a device       *)
(* change does not wake a paused player or silence a playing one.           *)
StateMatchesDevice ==
  Idle => /\ state = "Playing" <=> HasSink /\ ~sinks["main"].paused
          /\ state # "Stopped" => decoder # NoTrack /\ HasSink

(* Between commands, the device in use has the volume that was set last,    *)
(* and is the one whose name is shown, through fallbacks and swaps.         *)
SinkAsChosen ==
  Idle /\ HasSink => /\ sinks["main"].vol = volume
                     /\ sinks["main"].dev = outputDevice

(* Every command the worker runs comes to its end: the prefill loop ends,   *)
(* the decode thread is joined even when the ring is full and nobody reads, *)
(* and no device lock is waited for forever.                                *)
CommandsEnd == wpc # "idle" ~> wpc = "idle"

(* When the decoder is through, the end is noticed: the device drains the   *)
(* ring and the silence reaches the threshold, unless a command comes in    *)
(* between.                                                                 *)
EndNoticed ==
  (eos /\ dpc = "ended" /\ state = "Playing" /\ Idle)
     ~> (silent = Threshold \/ ~Idle)

(* What AutoAdvanceManager asks for is whether "the current song has        *)
(* finished": the decoder is through and nothing is left to hear.           *)
EndMeansFinished ==
  silent = Threshold /\ state = "Playing" /\ Idle => eos /\ Pipeline = <<>>

(* Seen from the controller, the three threads are one player, whose steps  *)
(* are the ends of the commands and the turns of the silence.  A track that *)
(* could not be given a device is forgotten again, as by a stop.            *)
ShouldAutoAdvance == state = "Playing" /\ silent = Threshold

ThePlayer == INSTANCE Player WITH track <- decoder, over <- ShouldAutoAdvance

ImplementsPlayer == ThePlayer!Spec
===============================================================================
