------------------------- MODULE PlaybackEngineProofs -------------------------
(***************************************************************************)
(* What PlaybackEngine promises for any tracks, any sizes of the ring, of  *)
(* the chunks and of the callbacks, and any devices.                       *)
(*                                                                         *)
(* The invariant has two halves.  Of the control: where the worker is says *)
(* whether the decode thread runs, whether the device is still and whether *)
(* there is a second one.  Of the data: while a track is loaded, what is   *)
(* in the converter, in the ring and in the hands of the decode thread are *)
(* three stretches of that track, each starting where the other ends.      *)
(***************************************************************************)
EXTENDS PlaybackEngine, SequenceTheorems, TLAPS

Labels == {"idle", "quiet", "join", "teardown", "open", "prepare", "target",
           "prefill", "start", "playing", "pausing", "paused", "stopold",
           "swap", "restart"}

Main == sinks["main"]
New  == sinks["new"]

(* Paused, and no callback in flight. *)
Still(sink) == sink # NoSink => sink.paused = TRUE /\ sink.phase = "quiet"

Types ==
  /\ wpc \in Labels /\ job \in Tracks \cup Devices \cup {NoTrack}
  /\ state \in {"Stopped", "Playing", "Paused"}
  /\ {decoder, currentFile} \subseteq Tracks \cup {NoTrack}
  /\ dpc \in {"off", "check", "decode", "write", "ended"}
  /\ ring \in Samples /\ chunk \in Samples
  /\ sinks \in [{"main", "new"} -> Sink \cup {NoSink}]
  /\ volume \in 0 .. 100 /\ outputDevice \in Devices

Flags == stopReq \in BOOLEAN /\ eos \in BOOLEAN

JobInv ==
  /\ wpc \in {"quiet", "join", "teardown"} => job \in Tracks \cup {NoTrack}
  /\ wpc \in {"open", "prepare"} => job \in Tracks
  /\ wpc \in {"stopold", "swap", "restart"} => job \in Devices

(* The decode thread runs on a decoder, and not where it was waited for.    *)
DecodeInv ==
  /\ dpc \in {"check", "decode", "write"} => decoder # NoTrack
  /\ wpc \in {"teardown", "open", "prepare"} => dpc = "off"
  /\ state = "Stopped" /\ wpc \notin {"target", "prefill", "start", "playing", "quiet", "join"} =>
       dpc = "off"

SinkInv ==
  /\ New # NoSink <=> wpc \in {"stopold", "swap"}
  /\ New # NoSink => Still(New) /\ New.vol = volume /\ New.dev = job /\ New.left = <<>>
  /\ wpc \in {"stopold", "swap", "restart", "target", "prefill", "start", "playing",
              "pausing", "paused"} => Main # NoSink
  /\ wpc \in {"join", "teardown", "open", "prepare", "swap", "restart"} => Still(Main)
  /\ Main # NoSink => /\ Main.vol = volume
                      /\ wpc # "restart" => Main.dev = outputDevice
                      /\ wpc = "restart" => Main.dev = job

StateInv ==
  /\ state # "Stopped" => decoder # NoTrack /\ Main # NoSink
  /\ wpc \in {"target", "prefill", "start", "playing", "pausing", "paused"} => decoder # NoTrack
  /\ wpc \in {"target", "prefill", "start", "playing"} => state # "Playing"
  /\ wpc \in {"pausing", "paused"} => state = "Playing"
  /\ wpc \in {"open", "prepare"} => state = "Stopped"
  /\ wpc = "open" => decoder = NoTrack
  /\ decoder = NoTrack => Still(Main)
  /\ wpc = "idle" => (state = "Playing" <=> Main # NoSink /\ Main.paused = FALSE)
  /\ wpc = "playing" => Main.paused = FALSE
  /\ wpc = "paused" => Main.paused = TRUE

ControlInv == Types /\ JobInv /\ DecodeInv /\ SinkInv /\ StateInv

(* The samples from + 1 .. from + n of the track. *)
Stretch(t, from, n) == [k \in 1 .. n |-> <<t, from + k>>]

Left == IF Main = NoSink THEN <<>> ELSE Main.left

(* A converter has at most one callback's worth when it pulls, and without  *)
(* one nothing is left between two callbacks.                               *)
LeftInv ==
  Main # NoSink =>
    /\ Main.conv = FALSE => /\ Len(Main.left) <= DeviceFrames
                            /\ Main.phase # "deliver" => Main.left = <<>>
    /\ Main.conv = TRUE  => /\ Len(Main.left) <= DeviceFrames + Pull
                            /\ Main.phase = "pull" => Len(Main.left) < DeviceFrames

RoomInv ==
  /\ Len(ring) <= Capacity /\ Len(chunk) <= Chunk
  /\ dpc \in {"decode", "write"} => Len(ring) + Chunk <= Capacity
  /\ dpc # "write" => chunk = <<>>

CountInv ==
  /\ {decoded, heard, samplesPlayed} \subseteq Nat /\ decoded <= MaxLength
  /\ silent \in 0 .. Threshold /\ target \in 0 .. Capacity

OrderInv ==
  /\ decoder = NoTrack \/ wpc = "prepare" =>
       /\ decoded = 0 /\ heard = 0 /\ samplesPlayed = 0
       /\ ring = <<>> /\ chunk = <<>>
  /\ decoder # NoTrack => currentFile = decoder
  /\ decoder # NoTrack /\ wpc # "prepare" =>
       /\ Left  = Stretch(decoder, heard, Len(Left))
       /\ ring  = Stretch(decoder, samplesPlayed, Len(ring))
       /\ chunk = Stretch(decoder, samplesPlayed + Len(ring), Len(chunk))
       /\ samplesPlayed = heard + Len(Left)
       /\ decoded = samplesPlayed + Len(ring) + Len(chunk)

DataInv == LeftInv /\ RoomInv /\ CountInv /\ OrderInv
-------------------------------------------------------------------------------
(* Devices as records *)

LEMMA SinkFields ==
  ASSUME NEW k \in Sink
  PROVE  /\ k.dev \in Devices /\ k.vol \in 0 .. 100 /\ k.left \in Samples
         /\ k.phase \in {"quiet", "pull", "deliver"}
         /\ k.paused = TRUE \/ k.paused = FALSE
         /\ k.conv = TRUE \/ k.conv = FALSE
         /\ k # NoSink
BY SinkAssumption DEF Sink

LEMMA PausedSink ==
  ASSUME NEW k \in Sink, NEW on \in BOOLEAN
  PROVE  LET m == [k EXCEPT !.paused = on]
         IN  /\ m \in Sink /\ m.paused = on
             /\ m.dev = k.dev /\ m.vol = k.vol /\ m.left = k.left /\ m.phase = k.phase /\ m.conv = k.conv
BY DEF Sink

LEMMA VolumeSink ==
  ASSUME NEW k \in Sink, NEW v \in 0 .. 100
  PROVE  LET m == [k EXCEPT !.vol = v]
         IN  /\ m \in Sink /\ m.vol = v
             /\ m.dev = k.dev /\ m.paused = k.paused /\ m.left = k.left /\ m.phase = k.phase /\ m.conv = k.conv
BY DEF Sink

(* What a callback makes of a device. *)
Filled(k, l, ph) == [k EXCEPT !.left = l, !.phase = ph]

LEMMA FilledSink ==
  ASSUME NEW k \in Sink, NEW l \in Samples, NEW ph \in {"quiet", "pull", "deliver"}
  PROVE  /\ Filled(k, l, ph) \in Sink /\ Filled(k, l, ph).left = l /\ Filled(k, l, ph).phase = ph
         /\ Filled(k, l, ph).dev = k.dev /\ Filled(k, l, ph).paused = k.paused
         /\ Filled(k, l, ph).vol = k.vol /\ Filled(k, l, ph).conv = k.conv
BY DEF Sink, Filled

LEMMA PhaseSink ==
  ASSUME NEW k \in Sink, NEW ph \in {"quiet", "pull", "deliver"}
  PROVE  LET m == [k EXCEPT !.phase = ph]
         IN  /\ m \in Sink /\ m.left = k.left /\ m.phase = ph
             /\ m.dev = k.dev /\ m.paused = k.paused /\ m.vol = k.vol /\ m.conv = k.conv
BY DEF Sink

(* A device set to another format. *)
Reset(k, c, v) == [k EXCEPT !.conv = c, !.left = <<>>, !.vol = v]

LEMMA ReformattedSink ==
  ASSUME NEW k \in Sink, NEW c \in BOOLEAN, NEW v \in 0 .. 100
  PROVE  /\ Reset(k, c, v) \in Sink
         /\ Reset(k, c, v).left = <<>> /\ Reset(k, c, v).vol = v
         /\ Reset(k, c, v).dev = k.dev /\ Reset(k, c, v).paused = k.paused /\ Reset(k, c, v).phase = k.phase
<1>1. <<>> \in Samples
  BY DEF Samples
<1> QED BY <1>1 DEF Sink, Reset

LEMMA FreshSink ==
  ASSUME NEW d \in Devices, NEW v \in 0 .. 100, NEW c \in BOOLEAN
  PROVE  LET m == Fresh(d, v, c)
         IN  /\ m \in Sink /\ m # NoSink /\ m.dev = d /\ m.vol = v /\ m.conv = c
             /\ m.paused = TRUE /\ m.left = <<>> /\ m.phase = "quiet"
<1> DEFINE m == Fresh(d, v, c)
<1>1. <<>> \in Samples
  BY DEF Samples
<1>2. m \in Sink
  BY <1>1 DEF Sink, Fresh
<1>3. m.dev = d /\ m.vol = v /\ m.conv = c /\ m.paused = TRUE /\ m.left = <<>> /\ m.phase = "quiet"
  BY DEF Fresh
<1>4. m # NoSink
  BY <1>2, SinkAssumption, Zenon
<1> QED BY <1>2, <1>3, <1>4, Zenon

(* One of the two is replaced. *)
LEMMA MainReplaced ==
  ASSUME Types, NEW k \in Sink \cup {NoSink}, sinks' = [sinks EXCEPT !["main"] = k]
  PROVE  Main' = k /\ New' = New /\ sinks' \in [{"main", "new"} -> Sink \cup {NoSink}]
BY DEF Types, Main, New

LEMMA NewReplaced ==
  ASSUME Types, NEW k \in Sink \cup {NoSink}, sinks' = [sinks EXCEPT !["new"] = k]
  PROVE  Main' = Main /\ New' = k /\ sinks' \in [{"main", "new"} -> Sink \cup {NoSink}]
BY DEF Types, Main, New

(* The device in use is paused or started, if there is one. *)
LEMMA MainPaused ==
  ASSUME Types, NEW on \in BOOLEAN, sinks' = PausedSinks(on)
  PROVE  /\ sinks' \in [{"main", "new"} -> Sink \cup {NoSink}] /\ New' = New
         /\ Main' # NoSink <=> Main # NoSink
         /\ Main # NoSink => /\ Main'.paused = on /\ Main'.dev = Main.dev /\ Main'.vol = Main.vol
                             /\ Main'.left = Main.left /\ Main'.phase = Main.phase /\ Main'.conv = Main.conv
<1>1. CASE HasSink
  <2> DEFINE m == [Main EXCEPT !.paused = on]
  <2>1. Main \in Sink
    BY <1>1 DEF Types, HasSink, Main
  <2>2. /\ m \in Sink /\ m.paused = on
        /\ m.dev = Main.dev /\ m.vol = Main.vol /\ m.left = Main.left /\ m.phase = Main.phase /\ m.conv = Main.conv
    BY <2>1, PausedSink
  <2>3. sinks' = [sinks EXCEPT !["main"] = m]
    BY <1>1 DEF PausedSinks, Main
  <2> HIDE DEF m
  <2>4. Main' = m /\ New' = New /\ sinks' \in [{"main", "new"} -> Sink \cup {NoSink}]
    BY <2>2, <2>3, MainReplaced
  <2>5. m # NoSink /\ Main # NoSink
    BY <2>1, <2>2, SinkAssumption
  <2> QED BY <2>2, <2>4, <2>5
<1>2. CASE ~HasSink
  <2>1. sinks' = sinks
    BY <1>2 DEF PausedSinks
  <2>2. Main = NoSink /\ Main' = Main /\ New' = New
    BY <1>2, <2>1 DEF HasSink, Main, New
  <2> QED BY <2>1, <2>2 DEF Types
<1> QED BY <1>1, <1>2

(* The device is found quiet, and is still when it is paused. *)
LEMMA StillWhenPaused ==
  ASSUME Types, LockFree, sinks' = PausedSinks(TRUE)
  PROVE  Still(Main)'
BY MainPaused DEF LockFree, HasSink, Main, Still

LEMMA MainIsSink ==
  ASSUME Types
  PROVE  /\ Main # NoSink => Main \in Sink
         /\ New # NoSink => New \in Sink
         /\ HasSink <=> Main # NoSink
BY DEF Types, Main, New, HasSink

-------------------------------------------------------------------------------
(* The control, action by action *)

LEMMA ControlInit == Init => ControlInv
<1> SUFFICES ASSUME Init PROVE ControlInv
  OBVIOUS
<1>1. Main = NoSink /\ New = NoSink
  BY DEF Init, Main, New
<1>2. ring \in Samples /\ chunk \in Samples
  BY DEF Init, Samples
<1>3. Types
  BY <1>2, NameAssumption DEF Init, Types, Labels
<1>4. JobInv /\ DecodeInv
  BY DEF Init, JobInv, DecodeInv
<1>5. SinkInv /\ StateInv
  BY <1>1 DEF Init, SinkInv, StateInv, Still
<1> QED BY <1>3, <1>4, <1>5 DEF ControlInv

(* A step that leaves the devices alone: what is to be shown of the rest.   *)
LEMMA SinksKept ==
  ASSUME Types, UNCHANGED sinks
  PROVE  Main' = Main /\ New' = New /\ (Still(Main)' <=> Still(Main)) /\ (Still(New)' <=> Still(New))
BY DEF Main, New, Still

(* The steps of the worker that leave the devices alone. *)
LEMMA WorkerSteps ==
  ASSUME ControlInv,
         \/ \E t \in Tracks \cup {NoTrack} : BeginStop(t)
         \/ JoinDecode \/ TearDown \/ OpenFile
         \/ StartPlayback \/ PrefillTarget \/ PrefillEnd \/ Resume \/ MarkPlaying
         \/ BeginPause \/ MarkPaused \/ \E d \in Devices : ProbeDevice(d)
  PROVE  ControlInv'
<1> USE DEF workVars, decodeVars, countVars, prefVars, Idle
<1>0. Types /\ JobInv /\ DecodeInv /\ SinkInv /\ StateInv
  BY DEF ControlInv
<1>1. UNCHANGED sinks
  BY DEF BeginStop, JoinDecode, TearDown, OpenFile, StartPlayback, PrefillTarget, PrefillEnd, Resume,
         MarkPlaying, BeginPause, MarkPaused, ProbeDevice
<1>2. /\ Main' = Main /\ New' = New /\ (Still(Main)' <=> Still(Main)) /\ (Still(New)' <=> Still(New))
      /\ (HasSink <=> Main # NoSink)
  BY <1>0, <1>1, SinksKept, MainIsSink
<1> HIDE DEF Still
<1>3. ASSUME NEW t \in Tracks \cup {NoTrack}, BeginStop(t) PROVE ControlInv'
  <2>1. wpc = "idle" /\ wpc' = "quiet" /\ job' = t /\ UNCHANGED <<state, decoder, currentFile, dpc, ring, chunk, sinks, volume, outputDevice>>
    BY <1>3, Zenon DEF BeginStop
  <2>2. Types' /\ JobInv' /\ DecodeInv'
    BY <1>0, <2>1 DEF Types, Labels, JobInv, DecodeInv
  <2>3. SinkInv' /\ StateInv'
    BY <1>0, <1>2, <2>1 DEF SinkInv, StateInv
  <2> QED BY <2>2, <2>3 DEF ControlInv
<1>4. CASE JoinDecode
  <2>1. wpc = "join" /\ wpc' = "teardown" /\ dpc' = "off" /\ UNCHANGED <<job, state, decoder, currentFile, ring, chunk, sinks, volume, outputDevice>>
    BY <1>4, Zenon DEF JoinDecode
  <2>2. Types' /\ JobInv' /\ DecodeInv'
    BY <1>0, <2>1 DEF Types, Labels, JobInv, DecodeInv
  <2>3. SinkInv' /\ StateInv'
    BY <1>0, <1>2, <2>1 DEF SinkInv, StateInv
  <2> QED BY <2>2, <2>3 DEF ControlInv
<1>5. CASE TearDown
  <2>1. /\ wpc = "teardown" /\ wpc' = (IF job = NoTrack THEN "idle" ELSE "open")
        /\ decoder' = NoTrack /\ currentFile' = NoTrack /\ state' = "Stopped" /\ ring' = <<>>
        /\ UNCHANGED <<job, dpc, chunk, sinks, volume, outputDevice>>
    BY <1>5, Zenon DEF TearDown
  <2>2. ring' \in Samples
    BY <2>1 DEF Samples
  <2>3. Types' /\ JobInv' /\ DecodeInv'
    BY <1>0, <2>1, <2>2 DEF Types, Labels, JobInv, DecodeInv
  <2>4. Still(Main) /\ (Main # NoSink => Main.paused # FALSE)
    BY <1>0, <2>1 DEF SinkInv, Still
  <2>5. SinkInv' /\ StateInv'
    BY <1>0, <1>2, <2>1, <2>4 DEF SinkInv, StateInv
  <2> QED BY <2>3, <2>5 DEF ControlInv
<1>6. CASE OpenFile
  <2>1. /\ wpc = "open"
        /\ \/ wpc' = "prepare" /\ decoder' = job /\ currentFile' = job
           \/ wpc' = "idle" /\ UNCHANGED <<decoder, currentFile>>
        /\ UNCHANGED <<job, state, dpc, ring, chunk, sinks, volume, outputDevice>>
    BY <1>6, Zenon DEF OpenFile
  <2>2. job \in Tracks /\ dpc = "off" /\ state = "Stopped"
    BY <1>0, <2>1 DEF JobInv, DecodeInv, StateInv
  <2>3. Types' /\ JobInv' /\ DecodeInv'
    BY <1>0, <2>1, <2>2 DEF Types, Labels, JobInv, DecodeInv
  <2>4. Still(Main) /\ (Main # NoSink => Main.paused # FALSE)
    BY <1>0, <2>1 DEF SinkInv, Still
  <2>5. SinkInv' /\ StateInv'
    BY <1>0, <1>2, <2>1, <2>2, <2>4 DEF SinkInv, StateInv
  <2> QED BY <2>3, <2>5 DEF ControlInv
<1>7. CASE StartPlayback
  <2>1. /\ wpc = "idle" /\ wpc' = "target" /\ dpc' = "check"
        /\ state = "Stopped" /\ decoder # NoTrack /\ HasSink
        /\ UNCHANGED <<job, state, decoder, currentFile, ring, chunk, sinks, volume, outputDevice>>
    BY <1>7, Zenon DEF StartPlayback
  <2>2. Types' /\ JobInv' /\ DecodeInv'
    BY <1>0, <2>1 DEF Types, Labels, JobInv, DecodeInv
  <2>3. SinkInv' /\ StateInv'
    BY <1>0, <1>2, <2>1 DEF SinkInv, StateInv
  <2> QED BY <2>2, <2>3 DEF ControlInv
<1>8. CASE PrefillTarget \/ PrefillEnd
  <2>1. /\ \/ wpc = "target" /\ wpc' = "prefill"
           \/ wpc = "prefill" /\ wpc' = "start"
        /\ UNCHANGED <<job, state, decoder, currentFile, dpc, ring, chunk, sinks, volume, outputDevice>>
    BY <1>8, Zenon DEF PrefillTarget, PrefillEnd
  <2>2. Types' /\ JobInv' /\ DecodeInv'
    BY <1>0, <2>1 DEF Types, Labels, JobInv, DecodeInv
  <2>3. SinkInv' /\ StateInv'
    BY <1>0, <1>2, <2>1 DEF SinkInv, StateInv
  <2> QED BY <2>2, <2>3 DEF ControlInv
<1>9. CASE Resume
  <2>1. /\ wpc = "idle" /\ wpc' = "start" /\ state = "Paused" /\ decoder # NoTrack /\ HasSink
        /\ UNCHANGED <<job, state, decoder, currentFile, dpc, ring, chunk, sinks, volume, outputDevice>>
    BY <1>9, Zenon DEF Resume
  <2>2. Types' /\ JobInv' /\ DecodeInv'
    BY <1>0, <2>1 DEF Types, Labels, JobInv, DecodeInv
  <2>3. SinkInv' /\ StateInv'
    BY <1>0, <1>2, <2>1 DEF SinkInv, StateInv
  <2> QED BY <2>2, <2>3 DEF ControlInv
<1>10. CASE MarkPlaying
  <2>1. /\ wpc = "playing" /\ wpc' = "idle" /\ state' = "Playing"
        /\ UNCHANGED <<job, decoder, currentFile, dpc, ring, chunk, sinks, volume, outputDevice>>
    BY <1>10, Zenon DEF MarkPlaying
  <2>2. Types' /\ JobInv' /\ DecodeInv'
    BY <1>0, <2>1 DEF Types, Labels, JobInv, DecodeInv
  <2>3. SinkInv' /\ StateInv'
    BY <1>0, <1>2, <2>1 DEF SinkInv, StateInv
  <2> QED BY <2>2, <2>3 DEF ControlInv
<1>11. CASE BeginPause
  <2>1. /\ wpc = "idle" /\ wpc' = "pausing" /\ state = "Playing"
        /\ UNCHANGED <<job, state, decoder, currentFile, dpc, ring, chunk, sinks, volume, outputDevice>>
    BY <1>11, Zenon DEF BeginPause
  <2>2. Types' /\ JobInv' /\ DecodeInv'
    BY <1>0, <2>1 DEF Types, Labels, JobInv, DecodeInv
  <2>3. SinkInv' /\ StateInv'
    BY <1>0, <1>2, <2>1 DEF SinkInv, StateInv
  <2> QED BY <2>2, <2>3 DEF ControlInv
<1>12. CASE MarkPaused
  <2>1. /\ wpc = "paused" /\ wpc' = "idle" /\ state' = "Paused"
        /\ UNCHANGED <<job, decoder, currentFile, dpc, ring, chunk, sinks, volume, outputDevice>>
    BY <1>12, Zenon DEF MarkPaused
  <2>2. Types' /\ JobInv' /\ DecodeInv'
    BY <1>0, <2>1 DEF Types, Labels, JobInv, DecodeInv
  <2>3. SinkInv' /\ StateInv'
    BY <1>0, <1>2, <2>1 DEF SinkInv, StateInv
  <2> QED BY <2>2, <2>3 DEF ControlInv
<1>13. ASSUME NEW d \in Devices, ProbeDevice(d) PROVE ControlInv'
  <2>1. /\ wpc = "idle" /\ ~HasSink /\ outputDevice' = d
        /\ UNCHANGED <<wpc, job, state, decoder, currentFile, dpc, ring, chunk, sinks, volume>>
    BY <1>13, Zenon DEF ProbeDevice
  <2>2. Types' /\ JobInv' /\ DecodeInv'
    BY <1>0, <2>1 DEF Types, Labels, JobInv, DecodeInv
  <2>3. SinkInv' /\ StateInv'
    BY <1>0, <1>2, <2>1 DEF SinkInv, StateInv
  <2> QED BY <2>2, <2>3 DEF ControlInv
<1> QED BY <1>3, <1>4, <1>5, <1>6, <1>7, <1>8, <1>9, <1>10, <1>11, <1>12, <1>13

(* The decode thread. *)
LEMMA DecodeSteps ==
  ASSUME ControlInv, DecodeLoop, chunk' \in Samples, ring' \in Samples
  PROVE  ControlInv'
<1> USE DEF workVars, decodeVars, countVars, prefVars
<1>0. Types /\ JobInv /\ DecodeInv /\ SinkInv /\ StateInv
  BY DEF ControlInv
<1>1. /\ dpc \in {"check", "decode", "write"} /\ dpc' \in {"check", "decode", "write", "ended"}
      /\ UNCHANGED <<wpc, job, state, decoder, currentFile, sinks, volume, outputDevice>>
  BY Zenon DEF DecodeLoop, DecodeStop, DecodeAdmit, DecodeFrames, DecodeWrite
<1>2. /\ Main' = Main /\ New' = New /\ (Still(Main)' <=> Still(Main)) /\ (Still(New)' <=> Still(New))
  BY <1>0, <1>1, SinksKept
<1> HIDE DEF Still
<1>3. Types' /\ JobInv' /\ DecodeInv'
  BY <1>0, <1>1 DEF Types, JobInv, DecodeInv
<1>4. SinkInv' /\ StateInv'
  BY <1>0, <1>1, <1>2 DEF SinkInv, StateInv
<1> QED BY <1>3, <1>4 DEF ControlInv

(* The steps that pause or start the device in use. *)
LEMMA PausingSteps ==
  ASSUME ControlInv, QuietSink \/ PauseDevice \/ StopOldSink \/ StartDevice \/ RestartSink
  PROVE  ControlInv'
<1> USE DEF workVars, decodeVars, countVars, prefVars
<1>0. Types /\ JobInv /\ DecodeInv /\ SinkInv /\ StateInv /\ (HasSink <=> Main # NoSink)
  BY MainIsSink DEF ControlInv
(* What pausing changes, and what it leaves. *)
<1>1. ASSUME NEW on \in BOOLEAN, sinks' = PausedSinks(on)
      PROVE  /\ sinks' \in [{"main", "new"} -> Sink \cup {NoSink}] /\ New' = New
             /\ Main' # NoSink <=> Main # NoSink
             /\ Main # NoSink => /\ Main'.paused = on /\ Main'.dev = Main.dev /\ Main'.vol = Main.vol
                                 /\ Main'.phase = Main.phase
             /\ Still(New)' <=> Still(New)
  <2>1. /\ sinks' \in [{"main", "new"} -> Sink \cup {NoSink}] /\ New' = New
        /\ Main' # NoSink <=> Main # NoSink
        /\ Main # NoSink => /\ Main'.paused = on /\ Main'.dev = Main.dev /\ Main'.vol = Main.vol
                            /\ Main'.phase = Main.phase
    BY <1>0, <1>1, MainPaused
  <2> QED BY <2>1 DEF Still
<1>2. CASE QuietSink
  <2>1. /\ wpc = "quiet" /\ wpc' = "join" /\ LockFree /\ sinks' = PausedSinks(TRUE)
        /\ UNCHANGED <<job, state, decoder, currentFile, dpc, ring, chunk, volume, outputDevice>>
    BY <1>2, Zenon DEF QuietSink
  <2>2. Still(Main)' /\ (Main' # NoSink => Main'.paused = TRUE)
    BY <1>0, <1>1, <2>1, StillWhenPaused
  <2>3. Types' /\ JobInv' /\ DecodeInv'
    BY <1>0, <1>1, <2>1 DEF Types, Labels, JobInv, DecodeInv
  <2>4. SinkInv' /\ StateInv'
    BY <1>0, <1>1, <2>1, <2>2 DEF SinkInv, StateInv
  <2> QED BY <2>3, <2>4 DEF ControlInv
<1>3. CASE PauseDevice
  <2>1. /\ wpc = "pausing" /\ wpc' = "paused" /\ LockFree /\ sinks' = PausedSinks(TRUE)
        /\ UNCHANGED <<job, state, decoder, currentFile, dpc, ring, chunk, volume, outputDevice>>
    BY <1>3, Zenon DEF PauseDevice
  <2>2. Types' /\ JobInv' /\ DecodeInv'
    BY <1>0, <1>1, <2>1 DEF Types, Labels, JobInv, DecodeInv
  <2>3. SinkInv' /\ StateInv'
    BY <1>0, <1>1, <2>1 DEF SinkInv, StateInv
  <2> QED BY <2>2, <2>3 DEF ControlInv
<1>4. CASE StopOldSink
  <2>1. /\ wpc = "stopold" /\ wpc' = "swap" /\ LockFree /\ sinks' = PausedSinks(TRUE)
        /\ UNCHANGED <<job, state, decoder, currentFile, dpc, ring, chunk, volume, outputDevice>>
    BY <1>4, Zenon DEF StopOldSink
  <2>2. Still(Main)'
    BY <1>0, <2>1, StillWhenPaused
  <2>3. Types' /\ JobInv' /\ DecodeInv'
    BY <1>0, <1>1, <2>1 DEF Types, Labels, JobInv, DecodeInv
  <2>4. SinkInv' /\ StateInv'
    BY <1>0, <1>1, <2>1, <2>2 DEF SinkInv, StateInv
  <2> QED BY <2>3, <2>4 DEF ControlInv
<1>5. CASE StartDevice
  <2>1. /\ wpc = "start" /\ wpc' = "playing" /\ sinks' = PausedSinks(FALSE)
        /\ UNCHANGED <<job, state, decoder, currentFile, dpc, ring, chunk, volume, outputDevice>>
    BY <1>5, Zenon DEF StartDevice
  <2>2. Types' /\ JobInv' /\ DecodeInv'
    BY <1>0, <1>1, <2>1 DEF Types, Labels, JobInv, DecodeInv
  <2>3. SinkInv' /\ StateInv'
    BY <1>0, <1>1, <2>1 DEF SinkInv, StateInv
  <2> QED BY <2>2, <2>3 DEF ControlInv
<1>6. CASE RestartSink
  <2>1. /\ wpc = "restart" /\ wpc' = "idle" /\ outputDevice' = job
        /\ sinks' = (IF state = "Playing" THEN PausedSinks(FALSE) ELSE sinks)
        /\ UNCHANGED <<job, state, decoder, currentFile, dpc, ring, chunk, volume>>
    BY <1>6, Zenon DEF RestartSink, WasPlaying
  <2>2. Main # NoSink /\ Main.paused = TRUE /\ job \in Devices /\ New = NoSink
    BY <1>0, <2>1 DEF SinkInv, JobInv, Still
  <2>3. CASE state = "Playing"
    <3>1. sinks' = PausedSinks(FALSE)
      BY <2>1, <2>3
    <3>2. Types' /\ JobInv' /\ DecodeInv'
      BY <1>0, <1>1, <2>1, <2>2, <3>1 DEF Types, Labels, JobInv, DecodeInv
    <3>3. SinkInv' /\ StateInv'
      BY <1>0, <1>1, <2>1, <2>2, <2>3, <3>1 DEF SinkInv, StateInv
    <3> QED BY <3>2, <3>3 DEF ControlInv
  <2>4. CASE state # "Playing"
    <3>1. sinks' = sinks /\ Main' = Main /\ New' = New /\ (Still(Main)' <=> Still(Main))
      BY <1>0, <2>1, <2>4, SinksKept
    <3>2. Types' /\ JobInv' /\ DecodeInv'
      BY <1>0, <2>1, <2>2, <3>1 DEF Types, Labels, JobInv, DecodeInv
    <3>3. SinkInv' /\ StateInv'
      BY <1>0, <2>1, <2>2, <2>4, <3>1 DEF SinkInv, StateInv
    <3> QED BY <3>2, <3>3 DEF ControlInv
  <2> QED BY <2>3, <2>4
<1> QED BY <1>2, <1>3, <1>4, <1>5, <1>6

(* A volume, a device beside the one in use, and its taking over. *)
LEMMA SwapSteps ==
  ASSUME ControlInv,
         \/ \E v \in VolumeInputs : SetVolume(v)
         \/ \E d \in Devices : OpenNewSink(d)
         \/ SwapSink \/ PrepareSink
  PROVE  ControlInv'
<1> USE DEF workVars, decodeVars, countVars, prefVars, Idle
<1>0. Types /\ JobInv /\ DecodeInv /\ SinkInv /\ StateInv /\ (HasSink <=> Main # NoSink)
  BY MainIsSink DEF ControlInv
<1>1. ASSUME NEW v \in VolumeInputs, SetVolume(v) PROVE ControlInv'
  <2>1. Clamp(v) \in 0 .. 100
    BY NameAssumption DEF Clamp, Lesser
  <2>2. /\ wpc = "idle" /\ volume' = Clamp(v)
        /\ sinks' = (IF HasSink THEN [sinks EXCEPT !["main"].vol = Clamp(v)] ELSE sinks)
        /\ UNCHANGED <<wpc, job, state, decoder, currentFile, dpc, ring, chunk, outputDevice>>
    BY <1>1, Zenon DEF SetVolume
  <2>3. /\ sinks' \in [{"main", "new"} -> Sink \cup {NoSink}] /\ New' = New
        /\ Main' # NoSink <=> Main # NoSink
        /\ Main # NoSink => /\ Main'.paused = Main.paused /\ Main'.dev = Main.dev /\ Main'.vol = Clamp(v)
                            /\ Main'.phase = Main.phase
    <3>1. CASE HasSink
      <4> DEFINE m == [Main EXCEPT !.vol = Clamp(v)]
      <4>1. Main \in Sink
        BY <1>0, <3>1, MainIsSink
      <4>2. m \in Sink /\ m.vol = Clamp(v) /\ m.dev = Main.dev /\ m.paused = Main.paused /\ m.phase = Main.phase
        BY <2>1, <4>1, VolumeSink
      <4>3. sinks' = [sinks EXCEPT !["main"] = m]
        BY <2>2, <3>1 DEF Main
      <4> HIDE DEF m
      <4> QED BY <1>0, <3>1, <4>2, <4>3, MainReplaced, SinkAssumption
    <3>2. CASE ~HasSink
      BY <1>0, <2>2, <3>2 DEF Types, Main, New
    <3> QED BY <3>1, <3>2
  <2>4. Still(Main)' <=> Still(Main)
    BY <2>3 DEF Still
  <2>5. Types' /\ JobInv' /\ DecodeInv'
    BY <1>0, <2>1, <2>2, <2>3 DEF Types, JobInv, DecodeInv
  <2>6. SinkInv' /\ StateInv'
    BY <1>0, <2>2, <2>3, <2>4 DEF SinkInv, StateInv
  <2> QED BY <2>5, <2>6 DEF ControlInv
<1>2. ASSUME NEW d \in Devices, OpenNewSink(d) PROVE ControlInv'
  <2>1. /\ wpc = "idle" /\ wpc' = "stopold" /\ job' = d /\ HasSink
        /\ \E conv \in BOOLEAN : sinks' = [sinks EXCEPT !["new"] = NewSink(d, conv)]
        /\ UNCHANGED <<state, decoder, currentFile, dpc, ring, chunk, volume, outputDevice>>
    BY <1>2, Zenon DEF OpenNewSink
  <2>2. PICK conv \in BOOLEAN : sinks' = [sinks EXCEPT !["new"] = Fresh(d, volume, conv)]
    BY <2>1 DEF NewSink
  <2> DEFINE m == Fresh(d, volume, conv)
  <2>3. /\ m \in Sink /\ m # NoSink /\ m.dev = d /\ m.vol = volume
        /\ m.paused = TRUE /\ m.left = <<>> /\ m.phase = "quiet"
    <3>1. volume \in 0 .. 100
      BY <1>0 DEF Types
    <3> QED BY <3>1, FreshSink, Zenon
  <2> HIDE DEF m
  <2>4. Main' = Main /\ New' = m /\ sinks' \in [{"main", "new"} -> Sink \cup {NoSink}]
    BY <1>0, <2>2, <2>3, NewReplaced DEF m
  <2>5. Still(New)' /\ (Still(Main)' <=> Still(Main))
    BY <2>3, <2>4 DEF Still
  <2>6. Types' /\ JobInv' /\ DecodeInv'
    BY <1>0, <2>1, <2>4 DEF Types, Labels, JobInv, DecodeInv
  <2>7. SinkInv' /\ StateInv'
    BY <1>0, <2>1, <2>3, <2>4, <2>5 DEF SinkInv, StateInv
  <2> QED BY <2>6, <2>7 DEF ControlInv
<1>3. CASE SwapSink
  <2>1. /\ wpc = "swap" /\ wpc' = "restart" /\ sinks' = [main |-> sinks["new"], new |-> NoSink]
        /\ UNCHANGED <<job, state, decoder, currentFile, dpc, ring, chunk, volume, outputDevice>>
    BY <1>3, Zenon DEF SwapSink
  <2>2. Main' = New /\ New' = NoSink /\ sinks' \in [{"main", "new"} -> Sink \cup {NoSink}]
    BY <1>0, <2>1 DEF Types, Main, New
  <2>3. New # NoSink /\ Still(New) /\ New.vol = volume /\ New.dev = job
    BY <1>0, <2>1 DEF SinkInv
  <2>4. Still(Main)'
    BY <2>2, <2>3 DEF Still
  <2>5. Types' /\ JobInv' /\ DecodeInv'
    BY <1>0, <2>1, <2>2 DEF Types, Labels, JobInv, DecodeInv
  <2>6. SinkInv' /\ StateInv'
    BY <1>0, <2>1, <2>2, <2>3, <2>4 DEF SinkInv, StateInv
  <2> QED BY <2>5, <2>6 DEF ControlInv
<1>4. CASE PrepareSink
  <2>1. /\ wpc = "prepare" /\ wpc' = "idle"
        /\ UNCHANGED <<job, currentFile, dpc, ring, chunk, volume>>
    BY <1>4, Zenon DEF PrepareSink
  <2>2. state = "Stopped" /\ dpc = "off" /\ Still(Main) /\ New = NoSink
    BY <1>0, <2>1 DEF StateInv, DecodeInv, SinkInv
  (* The device that is there, or a new one. *)
  <2>3. ASSUME NEW m \in Sink, sinks' = [sinks EXCEPT !["main"] = m],
               m.vol = volume, m.dev = outputDevice', m.paused = TRUE, m.phase = "quiet",
               state' = "Stopped", decoder' = decoder, outputDevice' \in Devices
        PROVE  ControlInv'
    <3>1. Main' = m /\ New' = New /\ sinks' \in [{"main", "new"} -> Sink \cup {NoSink}] /\ m # NoSink
      BY <1>0, <2>3, MainReplaced, SinkAssumption
    <3>2. Still(Main)'
      BY <2>3, <3>1 DEF Still
    <3>3. Types' /\ JobInv' /\ DecodeInv'
      BY <1>0, <2>1, <2>2, <2>3, <3>1 DEF Types, Labels, JobInv, DecodeInv
    <3>4. SinkInv' /\ StateInv'
      BY <1>0, <2>1, <2>2, <2>3, <3>1, <3>2 DEF SinkInv, StateInv
    <3> QED BY <3>3, <3>4 DEF ControlInv
  <2>4. ASSUME NEW conv \in BOOLEAN, HasSink, sinks' = [sinks EXCEPT !["main"] = Reformatted(conv)],
               outputDevice' = outputDevice, state' = "Stopped", decoder' = decoder
        PROVE  ControlInv'
    <3> DEFINE m == Reset(Main, conv, volume)
    <3>1. Main \in Sink /\ volume \in 0 .. 100 /\ Main # NoSink
      BY <1>0, <2>4, MainIsSink DEF Types
    <3>2. m \in Sink /\ m.vol = volume /\ m.dev = Main.dev /\ m.paused = Main.paused /\ m.phase = Main.phase
      BY <3>1, ReformattedSink, Zenon
    <3>3. Main.paused = TRUE /\ Main.phase = "quiet" /\ Main.dev = outputDevice
      BY <1>0, <2>1, <2>2, <3>1 DEF Still, SinkInv
    <3>4. sinks' = [sinks EXCEPT !["main"] = m]
      BY <2>4 DEF Reformatted, Reset, Main
    <3>5. outputDevice' \in Devices
      BY <1>0, <2>4 DEF Types
    <3> HIDE DEF m
    <3> QED BY <2>3, <2>4, <3>2, <3>3, <3>4, <3>5
  <2>5. ASSUME NEW conv \in BOOLEAN, NEW d \in {outputDevice, Default},
               sinks' = [sinks EXCEPT !["main"] = Fresh(d, volume, conv)],
               outputDevice' = d, state' = "Stopped", decoder' = decoder
        PROVE  ControlInv'
    <3> DEFINE m == Fresh(d, volume, conv)
    <3>1. d \in Devices /\ volume \in 0 .. 100
      BY <1>0, NameAssumption DEF Types
    <3>2. m \in Sink /\ m.dev = d /\ m.vol = volume /\ m.paused = TRUE /\ m.phase = "quiet"
      BY <3>1, FreshSink, Zenon
    <3>3. sinks' = [sinks EXCEPT !["main"] = m]
      BY <2>5
    <3> HIDE DEF m
    <3> QED BY <2>3, <2>5, <3>1, <3>2, <3>3
  <2>6. ASSUME sinks' = [sinks EXCEPT !["main"] = NoSink], decoder' = NoTrack,
               UNCHANGED <<state, outputDevice>>
        PROVE  ControlInv'
    <3>1. Main' = NoSink /\ New' = New /\ sinks' \in [{"main", "new"} -> Sink \cup {NoSink}]
      BY <1>0, <2>6, MainReplaced
    <3>2. Still(Main)'
      BY <3>1 DEF Still
    <3>3. Types' /\ JobInv' /\ DecodeInv'
      BY <1>0, <2>1, <2>2, <2>6, <3>1 DEF Types, Labels, JobInv, DecodeInv
    <3>4. SinkInv' /\ StateInv'
      BY <1>0, <2>1, <2>2, <2>6, <3>1, <3>2 DEF SinkInv, StateInv
    <3> QED BY <3>3, <3>4 DEF ControlInv
  <2> QED BY <1>4, <2>4, <2>5, <2>6 DEF PrepareSink
<1> QED BY <1>1, <1>2, <1>3, <1>4

(* The callback.  It runs on the device in use only, and changes nothing    *)
(* the worker relies on.                                                    *)
LEMMA FillsMain ==
  ASSUME ControlInv, NEW s \in {"main", "new"}, FillBegin(s) \/ FillPull(s) \/ FillDeliver(s)
  PROVE  /\ s = "main" /\ Main # NoSink /\ ~Still(Main)
         /\ decoder # NoTrack /\ wpc \notin {"join", "teardown", "open", "prepare", "swap", "restart"}
<1>1. sinks[s] # NoSink /\ ~(sinks[s].paused = TRUE /\ sinks[s].phase = "quiet")
  BY DEF FillBegin, FillPull, FillDeliver
<1>2. s = "main"
  BY <1>1 DEF ControlInv, SinkInv, New, Still
<1> QED BY <1>1, <1>2 DEF ControlInv, SinkInv, StateInv, Main, Still

LEMMA FillKeepsControl ==
  ASSUME ControlInv, ~Still(Main), NEW m \in Sink, sinks' = [sinks EXCEPT !["main"] = m],
         m.paused = Main.paused, m.vol = Main.vol, m.dev = Main.dev, ring' \in Samples,
         Main # NoSink, UNCHANGED <<wpc, job, state, decoder, currentFile, dpc, chunk, volume, outputDevice>>
  PROVE  ControlInv'
<1>0. Types /\ JobInv /\ DecodeInv /\ SinkInv /\ StateInv
  BY DEF ControlInv
<1>1. Main' = m /\ New' = New /\ sinks' \in [{"main", "new"} -> Sink \cup {NoSink}] /\ m # NoSink
  BY <1>0, MainReplaced, SinkAssumption
<1>2. Still(New)' <=> Still(New)
  BY <1>1 DEF Still
<1> HIDE DEF Still
<1>3. Types' /\ JobInv' /\ DecodeInv'
  BY <1>0, <1>1 DEF Types, JobInv, DecodeInv
<1>4. SinkInv' /\ StateInv'
  BY <1>0, <1>1, <1>2 DEF SinkInv, StateInv
<1> QED BY <1>3, <1>4 DEF ControlInv

-------------------------------------------------------------------------------
(* Stretches of a track *)

LEMMA StretchIs ==
  ASSUME NEW t \in Tracks, NEW a \in Nat, NEW n \in Nat
  PROVE  /\ Stretch(t, a, n) \in Seq(Tracks \X Nat)
         /\ Len(Stretch(t, a, n)) = n
         /\ \A i \in 1 .. n : Stretch(t, a, n)[i] = <<t, a + i>>
<1>1. \A i \in 1 .. n : <<t, a + i>> \in Tracks \X Nat
  OBVIOUS
<1>2. Stretch(t, a, n) \in [1 .. n -> Tracks \X Nat]
  BY <1>1 DEF Stretch
<1> QED BY <1>2 DEF Stretch

LEMMA EmptyStretch ==
  ASSUME NEW t \in Tracks, NEW a \in Nat
  PROVE  Stretch(t, a, 0) = <<>>
BY StretchIs, EmptySeq

(* As long as it does not reach past the longest track. *)
LEMMA StretchOfSamples ==
  ASSUME NEW t \in Tracks, NEW a \in Nat, NEW n \in Nat, a + n <= MaxLength
  PROVE  Stretch(t, a, n) \in Samples
<1>1. \A i \in 1 .. n : <<t, a + i>> \in Tracks \X (1 .. MaxLength)
  BY SizeAssumption
<1>2. Stretch(t, a, n) \in [1 .. n -> Tracks \X (1 .. MaxLength)]
  BY <1>1 DEF Stretch
<1> QED BY <1>2 DEF Samples

(* One after the other they are one stretch. *)
LEMMA JoinStretch ==
  ASSUME NEW t \in Tracks, NEW a \in Nat, NEW m \in Nat, NEW n \in Nat
  PROVE  Stretch(t, a, m) \o Stretch(t, a + m, n) = Stretch(t, a, m + n)
<1> DEFINE u == Stretch(t, a, m)
           v == Stretch(t, a + m, n)
           w == Stretch(t, a, m + n)
<1>1. /\ u \in Seq(Tracks \X Nat) /\ Len(u) = m /\ \A i \in 1 .. m : u[i] = <<t, a + i>>
  BY StretchIs
<1>2. /\ v \in Seq(Tracks \X Nat) /\ Len(v) = n /\ \A i \in 1 .. n : v[i] = <<t, a + m + i>>
  BY StretchIs, a + m \in Nat
<1>3. /\ w \in Seq(Tracks \X Nat) /\ Len(w) = m + n /\ \A i \in 1 .. m + n : w[i] = <<t, a + i>>
  BY StretchIs, m + n \in Nat
<1> HIDE DEF u, v, w
<1>4. /\ u \o v \in Seq(Tracks \X Nat) /\ Len(u \o v) = m + n
      /\ \A i \in 1 .. m + n : (u \o v)[i] = IF i <= m THEN u[i] ELSE v[i - m]
  BY <1>1, <1>2, ConcatProperties
<1> DEFINE c == u \o v
<1>5. /\ c \in Seq(Tracks \X Nat) /\ Len(c) = m + n
      /\ \A i \in 1 .. m + n : c[i] = IF i <= m THEN u[i] ELSE v[i - m]
  BY <1>4
<1> HIDE DEF c
<1>6. \A i \in 1 .. m + n : c[i] = w[i]
  <2>1. ASSUME NEW i \in 1 .. m + n, i <= m PROVE c[i] = w[i]
    <3>1. i \in 1 .. m /\ c[i] = u[i]
      BY <1>5, <2>1
    <3>2. u[i] = <<t, a + i>> /\ w[i] = <<t, a + i>>
      BY <1>1, <1>3, <3>1
    <3> QED BY <3>1, <3>2
  <2>2. ASSUME NEW i \in 1 .. m + n, i > m PROVE c[i] = w[i]
    <3>1. i - m \in 1 .. n /\ a + m + (i - m) = a + i
      BY <2>2
    <3>2. c[i] = v[i - m]
      BY <1>5, <2>2
    <3>3. v[i - m] = <<t, a + i>> /\ w[i] = <<t, a + i>>
      BY <1>2, <1>3, <3>1
    <3> QED BY <3>2, <3>3
  <2>3. \A i \in 1 .. m + n : i <= m \/ i > m
    OBVIOUS
  <2> QED BY <2>1, <2>2, <2>3, Zenon
<1>7. c = w
  BY <1>3, <1>5, <1>6, SeqEqual
<1> QED BY <1>7 DEF c, u, v, w

(* What is taken from the front is the beginning, what is left the rest. *)
LEMMA CutStretch ==
  ASSUME NEW t \in Tracks, NEW a \in Nat, NEW n \in Nat, NEW m \in 0 .. n
  PROVE  /\ Take(Stretch(t, a, n), m) = Stretch(t, a, m)
         /\ Drop(Stretch(t, a, n), m) = Stretch(t, a + m, n - m)
<1> DEFINE w == Stretch(t, a, n)
           u == Stretch(t, a, m)
           v == Stretch(t, a + m, n - m)
<1>1. /\ w \in Seq(Tracks \X Nat) /\ Len(w) = n /\ \A i \in 1 .. n : w[i] = <<t, a + i>>
  BY StretchIs
<1>2. /\ u \in Seq(Tracks \X Nat) /\ Len(u) = m /\ \A i \in 1 .. m : u[i] = <<t, a + i>>
  BY StretchIs, m \in Nat
<1>3. /\ v \in Seq(Tracks \X Nat) /\ Len(v) = n - m /\ \A i \in 1 .. n - m : v[i] = <<t, a + m + i>>
  BY StretchIs, a + m \in Nat, n - m \in Nat
<1> HIDE DEF u, v, w
<1>4. \A i \in 1 .. n : w[i] \in Tracks \X Nat
  BY <1>1
<1>5. /\ SubSeq(w, 1, m) \in Seq(Tracks \X Nat) /\ Len(SubSeq(w, 1, m)) = m
      /\ \A i \in 1 .. m : SubSeq(w, 1, m)[i] = w[i]
  <2>1. \A i \in 1 .. m : w[i] \in Tracks \X Nat
    BY <1>4
  <2>2. /\ SubSeq(w, 1, m) \in Seq(Tracks \X Nat)
        /\ Len(SubSeq(w, 1, m)) = IF 1 <= m THEN m - 1 + 1 ELSE 0
        /\ \A i \in 1 .. m - 1 + 1 : SubSeq(w, 1, m)[i] = w[1 + i - 1]
    BY <2>1, SubSeqProperties, 1 \in Int, m \in Int
  <2> QED BY <2>2
<1>6. /\ SubSeq(w, m + 1, n) \in Seq(Tracks \X Nat) /\ Len(SubSeq(w, m + 1, n)) = n - m
      /\ \A i \in 1 .. n - m : SubSeq(w, m + 1, n)[i] = w[m + i]
  <2>1. \A i \in m + 1 .. n : w[i] \in Tracks \X Nat
    BY <1>4
  <2>2. /\ SubSeq(w, m + 1, n) \in Seq(Tracks \X Nat)
        /\ Len(SubSeq(w, m + 1, n)) = IF m + 1 <= n THEN n - (m + 1) + 1 ELSE 0
        /\ \A i \in 1 .. n - (m + 1) + 1 : SubSeq(w, m + 1, n)[i] = w[m + 1 + i - 1]
    BY <2>1, SubSeqProperties, m + 1 \in Int, n \in Int
  <2> QED BY <2>2
<1>7. SubSeq(w, 1, m) = u
  <2>1. ASSUME NEW i \in 1 .. m PROVE w[i] = u[i]
    <3>1. u[i] = <<t, a + i>>
      BY <1>2
    <3>2. w[i] = <<t, a + i>>
      BY <1>1
    <3> QED BY <3>1, <3>2
  <2>2. \A i \in 1 .. m : SubSeq(w, 1, m)[i] = u[i]
    BY <1>5, <2>1, Zenon
  <2> QED BY <1>2, <1>5, <2>2, SeqEqual
<1>8. SubSeq(w, m + 1, n) = v
  <2>1. \A i \in 1 .. n - m : m + i \in 1 .. n /\ a + (m + i) = a + m + i
    OBVIOUS
  <2>2. \A i \in 1 .. n - m : SubSeq(w, m + 1, n)[i] = v[i]
    BY <1>1, <1>3, <1>6, <2>1
  <2> QED BY <1>3, <1>6, <2>2, SeqEqual
<1> QED BY <1>1, <1>7, <1>8 DEF Take, Drop, u, v, w

(* Taking and dropping, of any samples. *)
LEMMA CutSamples ==
  ASSUME NEW s \in Samples, NEW m \in 0 .. Len(s)
  PROVE  /\ Take(s, m) \in Samples /\ Len(Take(s, m)) = m
         /\ Drop(s, m) \in Samples /\ Len(Drop(s, m)) = Len(s) - m
<1> DEFINE S == Tracks \X (1 .. MaxLength)
<1>1. Len(s) \in Nat /\ \A i \in 1 .. Len(s) : s[i] \in S
  BY DEF Samples
<1> HIDE DEF S
<1>2. SubSeq(s, 1, m) \in Seq(S) /\ Len(SubSeq(s, 1, m)) = m
  <2>1. \A i \in 1 .. m : s[i] \in S
    BY <1>1
  <2>2. SubSeq(s, 1, m) \in Seq(S) /\ Len(SubSeq(s, 1, m)) = IF 1 <= m THEN m - 1 + 1 ELSE 0
    BY <2>1, SubSeqProperties, 1 \in Int, m \in Int
  <2> QED BY <2>2
<1>3. SubSeq(s, m + 1, Len(s)) \in Seq(S) /\ Len(SubSeq(s, m + 1, Len(s))) = Len(s) - m
  <2>1. \A i \in m + 1 .. Len(s) : s[i] \in S
    BY <1>1
  <2>2. /\ SubSeq(s, m + 1, Len(s)) \in Seq(S)
        /\ Len(SubSeq(s, m + 1, Len(s))) = IF m + 1 <= Len(s) THEN Len(s) - (m + 1) + 1 ELSE 0
    BY <1>1, <2>1, SubSeqProperties, m + 1 \in Int, Len(s) \in Int
  <2> QED BY <1>1, <2>2
<1> QED BY <1>2, <1>3 DEF Take, Drop, Samples, S

LEMMA JoinSamples ==
  ASSUME NEW s \in Samples, NEW u \in Samples
  PROVE  s \o u \in Samples /\ Len(s \o u) = Len(s) + Len(u)
BY ConcatProperties DEF Samples

LEMMA SamplesLen ==
  ASSUME NEW s \in Samples
  PROVE  Len(s) \in Nat /\ (s = <<>> <=> Len(s) = 0)
BY EmptySeq DEF Samples

-------------------------------------------------------------------------------
(* The data, action by action *)

LEMMA DataInit == Init => DataInv
<1> SUFFICES ASSUME Init PROVE DataInv
  OBVIOUS
<1>1. Main = NoSink
  BY DEF Init, Main
<1>2. LeftInv
  BY <1>1 DEF LeftInv
<1>3. RoomInv /\ CountInv
  BY SizeAssumption DEF Init, RoomInv, CountInv
<1>4. OrderInv
  BY DEF Init, OrderInv
<1> QED BY <1>2, <1>3, <1>4 DEF DataInv

(* What is on its way consists of samples, and is counted. *)
LEMMA SamplesHere ==
  ASSUME Types
  PROVE  /\ ring \in Samples /\ chunk \in Samples /\ Left \in Samples
         /\ Len(ring) \in Nat /\ Len(chunk) \in Nat /\ Len(Left) \in Nat
         /\ Main # NoSink => Main.left \in Samples /\ Left = Main.left
<1>1. ring \in Samples /\ chunk \in Samples
  BY DEF Types
<1>2. <<>> \in Samples
  BY EmptySeq DEF Samples
<1>3. Main # NoSink => Main.left \in Samples
  BY MainIsSink, SinkFields
<1>4. Left \in Samples
  BY <1>2, <1>3 DEF Left
<1> QED BY <1>1, <1>3, <1>4, SamplesLen DEF Left

(* The device in use keeps its converter and what is in it. *)
SameLeft ==
  /\ Main' # NoSink <=> Main # NoSink
  /\ Main # NoSink => Main'.left = Main.left /\ Main'.phase = Main.phase /\ Main'.conv = Main.conv

LEMMA DataKept ==
  ASSUME DataInv, SameLeft, wpc' = "prepare" <=> wpc = "prepare",
         UNCHANGED <<decoder, currentFile, decoded, heard, samplesPlayed, ring, chunk>>,
         dpc' = dpc \/ (dpc' \notin {"decode", "write"} /\ dpc # "write"),
         silent' \in 0 .. Threshold, target' \in 0 .. Capacity
  PROVE  DataInv'
<1>1. LeftInv'
  BY DEF DataInv, LeftInv, SameLeft
<1>2. RoomInv' /\ CountInv'
  BY DEF DataInv, RoomInv, CountInv
<1>3. Left' = Left
  BY DEF SameLeft, Left
<1>4. OrderInv'
  BY <1>3 DEF DataInv, OrderInv
<1> QED BY <1>1, <1>2, <1>4 DEF DataInv

(* A part of the room is no more than the room. *)
LEMMA PartOfRoom ==
  ASSUME NEW x \in 0 .. Capacity
  PROVE  x \div PrefillParts \in 0 .. Capacity
<1>1. PrefillParts \in Nat \ {0} /\ Capacity \in Nat
  BY SizeAssumption
<1>2. \A p \in Nat \ {0}, y \in Nat : y \div p \in 0 .. y
  OBVIOUS
<1> QED BY <1>1, <1>2

(* The steps that leave the data as they are. *)
LEMMA DataWorker ==
  ASSUME ControlInv, DataInv,
         \/ \E t \in Tracks \cup {NoTrack} : BeginStop(t)
         \/ JoinDecode
         \/ StartPlayback \/ PrefillTarget \/ PrefillEnd \/ Resume \/ MarkPlaying
         \/ BeginPause \/ MarkPaused \/ \E d \in Devices : ProbeDevice(d)
  PROVE  DataInv'
<1> USE DEF workVars, decodeVars, countVars, prefVars, Idle
<1>0. silent \in 0 .. Threshold /\ target \in 0 .. Capacity /\ Types
  BY DEF DataInv, CountInv, ControlInv
<1>1. SameLeft
  <2>1. UNCHANGED sinks
    BY DEF BeginStop, JoinDecode, StartPlayback, PrefillTarget, PrefillEnd, Resume,
           MarkPlaying, BeginPause, MarkPaused, ProbeDevice
  <2> QED BY <2>1 DEF SameLeft, Main
<1>2. UNCHANGED <<decoder, currentFile, decoded, heard, samplesPlayed, ring, chunk>>
  BY Zenon DEF BeginStop, JoinDecode, StartPlayback, PrefillTarget, PrefillEnd, Resume,
         MarkPlaying, BeginPause, MarkPaused, ProbeDevice
<1>3. wpc' # "prepare" /\ wpc # "prepare"
  BY DEF BeginStop, JoinDecode, StartPlayback, PrefillTarget, PrefillEnd, Resume,
         MarkPlaying, BeginPause, MarkPaused, ProbeDevice
<1>4. CASE JoinDecode
  <2>1. dpc # "write" /\ dpc' = "off" /\ UNCHANGED <<silent, target>>
    BY <1>4 DEF JoinDecode
  <2> QED BY <1>0, <1>1, <1>2, <1>3, <2>1, DataKept
<1>5. CASE StartPlayback
  <2>1. dpc = "off"
    BY <1>5 DEF StartPlayback, ControlInv, DecodeInv
  <2>2. dpc' = "check" /\ silent' = 0 /\ UNCHANGED target
    BY <1>5, Zenon DEF StartPlayback
  <2>3. silent' \in 0 .. Threshold
    BY <2>2, SizeAssumption
  <2> QED BY <1>0, <1>1, <1>2, <1>3, <2>1, <2>2, <2>3, DataKept
<1>6. CASE PrefillTarget
  <2>1. Space \in 0 .. Capacity
    BY <1>0, SamplesHere, SizeAssumption DEF Space, DataInv, RoomInv
  <2>2. target' \in 0 .. Capacity /\ UNCHANGED <<dpc, silent>>
    BY <1>6, <2>1, PartOfRoom DEF PrefillTarget
  <2> QED BY <1>0, <1>1, <1>2, <1>3, <2>2, DataKept
<1>7. ASSUME UNCHANGED <<dpc, silent, target>> PROVE DataInv'
  BY <1>0, <1>1, <1>2, <1>3, <1>7, DataKept
<1>8. CASE \/ \E t \in Tracks \cup {NoTrack} : BeginStop(t)
           \/ PrefillEnd \/ Resume \/ MarkPlaying
           \/ BeginPause \/ MarkPaused \/ \E d \in Devices : ProbeDevice(d)
  BY <1>7, <1>8, Zenon DEF BeginStop, PrefillEnd, Resume, MarkPlaying, BeginPause, MarkPaused, ProbeDevice
<1> QED BY <1>4, <1>5, <1>6, <1>8

LEMMA DataPausing ==
  ASSUME ControlInv, DataInv,
         \/ QuietSink \/ PauseDevice \/ StopOldSink \/ StartDevice \/ RestartSink
         \/ \E v \in VolumeInputs : SetVolume(v)
         \/ \E d \in Devices : OpenNewSink(d)
  PROVE  DataInv'
<1> USE DEF workVars, decodeVars, countVars, prefVars, Idle
<1>0. silent \in 0 .. Threshold /\ target \in 0 .. Capacity /\ Types /\ (HasSink <=> Main # NoSink)
  BY MainIsSink DEF DataInv, CountInv, ControlInv
<1>1. /\ UNCHANGED <<decoder, currentFile, decoded, heard, samplesPlayed, ring, chunk, dpc, silent, target>>
      /\ wpc' # "prepare" /\ wpc # "prepare"
  BY Zenon DEF QuietSink, PauseDevice, StopOldSink, StartDevice, RestartSink, SetVolume, OpenNewSink
<1>2. ASSUME SameLeft PROVE DataInv'
  BY <1>0, <1>1, <1>2, DataKept
<1>3. ASSUME NEW on \in BOOLEAN, sinks' = PausedSinks(on) PROVE SameLeft
  BY <1>0, <1>3, MainPaused DEF SameLeft
<1>4. CASE QuietSink \/ PauseDevice \/ StopOldSink
  <2>1. sinks' = PausedSinks(TRUE)
    BY <1>4 DEF QuietSink, PauseDevice, StopOldSink
  <2> QED BY <1>2, <1>3, <2>1
<1>5. CASE StartDevice \/ RestartSink
  <2>1. sinks' = PausedSinks(FALSE) \/ sinks' = sinks
    BY <1>5 DEF StartDevice, RestartSink
  <2>2. CASE sinks' = PausedSinks(FALSE)
    BY <1>2, <1>3, <2>2
  <2>3. CASE sinks' = sinks
    BY <1>2, <2>3 DEF SameLeft, Main
  <2> QED BY <2>1, <2>2, <2>3
<1>6. ASSUME NEW v \in VolumeInputs, SetVolume(v) PROVE DataInv'
  <2>1. CASE HasSink
    <3> DEFINE m == [Main EXCEPT !.vol = Clamp(v)]
    <3>1. Clamp(v) \in 0 .. 100 /\ Main \in Sink /\ Main # NoSink
      BY <1>0, <2>1, NameAssumption, MainIsSink DEF Clamp, Lesser
    <3>2. m \in Sink /\ m.left = Main.left /\ m.phase = Main.phase /\ m.conv = Main.conv
      BY <3>1, VolumeSink
    <3>3. sinks' = [sinks EXCEPT !["main"] = m]
      BY <1>6, <2>1 DEF SetVolume, Main
    <3> HIDE DEF m
    <3>4. Main' = m /\ m # NoSink
      BY <1>0, <3>2, <3>3, MainReplaced, SinkAssumption
    <3> QED BY <1>2, <3>1, <3>2, <3>4 DEF SameLeft
  <2>2. CASE ~HasSink
    BY <1>2, <1>6, <2>2 DEF SetVolume, SameLeft, Main
  <2> QED BY <2>1, <2>2
<1>7. ASSUME NEW d \in Devices, OpenNewSink(d) PROVE DataInv'
  <2>1. \E k : sinks' = [sinks EXCEPT !["new"] = k]
    BY <1>7, Zenon DEF OpenNewSink
  <2>2. Main' = Main
    BY <1>0, <2>1 DEF Main, Types
  <2> QED BY <1>2, <2>2 DEF SameLeft
<1> QED BY <1>4, <1>5, <1>6, <1>7

(* A track is forgotten, opened, given a device. *)
LEMMA DataLoading ==
  ASSUME ControlInv, DataInv, TearDown \/ OpenFile \/ PrepareSink
  PROVE  DataInv'
<1> USE DEF workVars, decodeVars, countVars, prefVars
<1>0. Types /\ DecodeInv /\ SinkInv /\ StateInv /\ LeftInv /\ RoomInv /\ CountInv /\ OrderInv
      /\ (HasSink <=> Main # NoSink)
  BY MainIsSink DEF ControlInv, DataInv
<1>1. dpc = "off" /\ chunk = <<>> /\ UNCHANGED <<dpc, chunk, silent, target>>
  BY <1>0, Zenon DEF TearDown, OpenFile, PrepareSink, DecodeInv, RoomInv
<1>2. CASE TearDown
  <2>1. /\ decoder' = NoTrack /\ decoded' = 0 /\ ring' = <<>> /\ samplesPlayed' = 0 /\ heard' = 0
        /\ UNCHANGED sinks
    BY <1>2, Zenon DEF TearDown
  <2>2. LeftInv'
    BY <1>0, <2>1 DEF LeftInv, Main
  <2>3. RoomInv' /\ CountInv'
    BY <1>0, <1>1, <2>1, SizeAssumption DEF RoomInv, CountInv
  <2>4. OrderInv'
    BY <1>1, <2>1 DEF OrderInv
  <2> QED BY <2>2, <2>3, <2>4 DEF DataInv
<1>3. CASE OpenFile
  <2>1. /\ wpc = "open" /\ UNCHANGED <<decoded, ring, samplesPlayed, heard, sinks>>
        /\ \/ decoder' = job /\ currentFile' = job /\ wpc' = "prepare"
           \/ UNCHANGED <<decoder, currentFile>> /\ wpc' = "idle"
    BY <1>3, Zenon DEF OpenFile
  <2>2. decoder = NoTrack
    BY <1>0, <2>1 DEF StateInv
  <2>3. LeftInv'
    BY <1>0, <2>1 DEF LeftInv, Main
  <2>4. RoomInv' /\ CountInv'
    BY <1>0, <1>1, <2>1 DEF RoomInv, CountInv
  <2>5. OrderInv'
    BY <1>0, <1>1, <2>1, <2>2 DEF OrderInv
  <2> QED BY <2>3, <2>4, <2>5 DEF DataInv
<1>4. CASE PrepareSink
  <2>1. wpc = "prepare" /\ wpc' = "idle" /\ UNCHANGED <<currentFile, decoded, ring, samplesPlayed, heard>>
    BY <1>4, Zenon DEF PrepareSink
  <2>2. /\ decoded = 0 /\ heard = 0 /\ samplesPlayed = 0 /\ ring = <<>>
        /\ Main # NoSink => Main.phase = "quiet"
    BY <1>0, <2>1 DEF OrderInv, SinkInv, Still
  <2>3. RoomInv' /\ CountInv'
    BY <1>0, <1>1, <2>1 DEF RoomInv, CountInv
  <2>4. Len(<<>>) = 0
    OBVIOUS
  (* The track begins with nothing on its way. *)
  <2>5. ASSUME Main' # NoSink, Main'.left = <<>>, Main'.phase = "quiet",
               Main'.conv = TRUE \/ Main'.conv = FALSE, decoder' = decoder
        PROVE  DataInv'
    <3>1. Left' = <<>>
      BY <2>5 DEF Left
    <3>2. LeftInv'
      BY <2>4, <2>5, SizeAssumption DEF LeftInv
    <3>3. OrderInv'
      <4>1. decoder' = NoTrack \/ decoder' \in Tracks
        BY <1>0, <2>5 DEF Types
      <4>2. decoder' # NoTrack => currentFile' = decoder'
        BY <1>0, <2>1, <2>5 DEF OrderInv
      <4>3. \A t \in Tracks : Stretch(t, 0, 0) = <<>>
        BY EmptyStretch
      <4>4. decoder' # NoTrack =>
              /\ Left' = Stretch(decoder', heard', Len(Left'))
              /\ ring' = Stretch(decoder', samplesPlayed', Len(ring'))
              /\ chunk' = Stretch(decoder', samplesPlayed' + Len(ring'), Len(chunk'))
              /\ samplesPlayed' = heard' + Len(Left')
              /\ decoded' = samplesPlayed' + Len(ring') + Len(chunk')
        BY <1>1, <2>1, <2>2, <2>4, <3>1, <4>1, <4>3
      <4> QED BY <1>1, <2>1, <2>2, <4>2, <4>4 DEF OrderInv
    <3> QED BY <2>3, <3>2, <3>3 DEF DataInv
  <2>6. ASSUME NEW conv \in BOOLEAN, HasSink, sinks' = [sinks EXCEPT !["main"] = Reformatted(conv)],
               decoder' = decoder
        PROVE  DataInv'
    <3> DEFINE m == Reset(Main, conv, volume)
    <3>1. Main \in Sink /\ volume \in 0 .. 100 /\ Main # NoSink
      BY <1>0, <2>6, MainIsSink DEF Types
    <3>2. m \in Sink /\ m.left = <<>> /\ m.phase = Main.phase
      BY <3>1, ReformattedSink, Zenon
    <3>3. sinks' = [sinks EXCEPT !["main"] = m]
      BY <2>6 DEF Reformatted, Reset, Main
    <3> HIDE DEF m
    <3>4. Main' = m /\ m # NoSink /\ (m.conv = TRUE \/ m.conv = FALSE)
      BY <1>0, <3>2, <3>3, MainReplaced, SinkFields
    <3> QED BY <2>2, <2>5, <2>6, <3>1, <3>2, <3>4
  <2>7. ASSUME NEW conv \in BOOLEAN, NEW d \in {outputDevice, Default},
               sinks' = [sinks EXCEPT !["main"] = Fresh(d, volume, conv)], decoder' = decoder
        PROVE  DataInv'
    <3> DEFINE m == Fresh(d, volume, conv)
    <3>1. d \in Devices /\ volume \in 0 .. 100
      BY <1>0, NameAssumption DEF Types
    <3>2. m \in Sink /\ m.left = <<>> /\ m.phase = "quiet"
      BY <3>1, FreshSink, Zenon
    <3>3. sinks' = [sinks EXCEPT !["main"] = m]
      BY <2>7
    <3> HIDE DEF m
    <3>4. Main' = m /\ m # NoSink /\ (m.conv = TRUE \/ m.conv = FALSE)
      BY <1>0, <3>2, <3>3, MainReplaced, SinkFields
    <3> QED BY <2>5, <2>7, <3>2, <3>4
  <2>8. ASSUME sinks' = [sinks EXCEPT !["main"] = NoSink], decoder' = NoTrack
        PROVE  DataInv'
    <3>1. Main' = NoSink
      BY <1>0, <2>8, MainReplaced
    <3>2. LeftInv'
      BY <3>1 DEF LeftInv
    <3>3. OrderInv'
      BY <1>1, <2>1, <2>2, <2>8 DEF OrderInv
    <3> QED BY <2>3, <3>2, <3>3 DEF DataInv
  <2> QED BY <1>4, <2>6, <2>7, <2>8 DEF PrepareSink
<1> QED BY <1>2, <1>3, <1>4

(* A loaded track: what is on its way, in lengths and stretches. *)
LEMMA TrackHere ==
  ASSUME ControlInv, DataInv, decoder # NoTrack, wpc # "prepare"
  PROVE  /\ decoder \in Tracks
         /\ decoded \in Nat /\ heard \in Nat /\ samplesPlayed \in Nat /\ decoded <= MaxLength
         /\ Len(ring) \in Nat /\ Len(chunk) \in Nat /\ Len(Left) \in Nat
         /\ Left  = Stretch(decoder, heard, Len(Left))
         /\ ring  = Stretch(decoder, samplesPlayed, Len(ring))
         /\ chunk = Stretch(decoder, samplesPlayed + Len(ring), Len(chunk))
         /\ samplesPlayed = heard + Len(Left)
         /\ decoded = samplesPlayed + Len(ring) + Len(chunk)
<1>1. Types /\ OrderInv /\ CountInv
  BY DEF ControlInv, DataInv
<1>2. decoder \in Tracks /\ decoded \in Nat /\ heard \in Nat /\ samplesPlayed \in Nat /\ decoded <= MaxLength
  BY <1>1 DEF Types, CountInv
<1>3. Len(ring) \in Nat /\ Len(chunk) \in Nat /\ Len(Left) \in Nat
  BY <1>1, SamplesHere
<1> QED BY <1>1, <1>2, <1>3 DEF OrderInv

(* The new device takes over empty; what the old one held is counted as gone. *)
LEMMA DataSwap ==
  ASSUME ControlInv, DataInv, SwapSink
  PROVE  DataInv'
<1>0. Types /\ SinkInv /\ LeftInv /\ RoomInv /\ CountInv /\ OrderInv
  BY DEF ControlInv, DataInv
<1>1. /\ wpc = "swap" /\ wpc' = "restart"
      /\ sinks' = [main |-> sinks["new"], new |-> NoSink]
      /\ heard' = (IF decoder = NoTrack THEN heard ELSE heard + Len(sinks["main"].left))
      /\ UNCHANGED <<target, decoder, currentFile, decoded, dpc, chunk, ring, silent, samplesPlayed>>
  BY Zenon DEF SwapSink, decodeVars
<1>2. Main' = New
  BY <1>1 DEF Main, New
<1>3. Main # NoSink /\ New # NoSink /\ New.phase = "quiet" /\ New.left = <<>> /\ New \in Sink
  BY <1>0, <1>1, MainIsSink DEF SinkInv, Still
<1>4. Main.left = Left /\ Len(Left) \in Nat
  BY <1>0, <1>3, SamplesHere
<1>5. Left' = <<>> /\ Len(<<>>) = 0
  BY <1>2, <1>3 DEF Left
<1>6. LeftInv'
  BY <1>2, <1>3, <1>5, SizeAssumption DEF LeftInv
<1>7. RoomInv'
  BY <1>0, <1>1 DEF RoomInv
<1>8. heard' = (IF decoder = NoTrack THEN heard ELSE heard + Len(Left))
  BY <1>1, <1>4 DEF Main
<1>9. CountInv'
  BY <1>0, <1>1, <1>4, <1>8 DEF CountInv
<1>10. CASE decoder = NoTrack
  <2>1. OrderInv'
    BY <1>0, <1>1, <1>8, <1>10 DEF OrderInv
  <2> QED BY <1>6, <1>7, <1>9, <2>1 DEF DataInv
<1>11. CASE decoder # NoTrack
  <2>1. /\ decoder \in Tracks /\ samplesPlayed \in Nat /\ heard' = samplesPlayed
        /\ ring  = Stretch(decoder, samplesPlayed, Len(ring))
        /\ chunk = Stretch(decoder, samplesPlayed + Len(ring), Len(chunk))
        /\ decoded = samplesPlayed + Len(ring) + Len(chunk)
    BY <1>1, <1>8, <1>11, TrackHere
  <2>2. <<>> = Stretch(decoder, samplesPlayed, 0)
    BY <2>1, EmptyStretch
  <2>3. Left' = Stretch(decoder', heard', Len(Left')) /\ samplesPlayed' = heard' + Len(Left')
    BY <1>1, <1>5, <2>1, <2>2
  <2>4. currentFile' = decoder'
    BY <1>0, <1>1, <1>11 DEF OrderInv
  <2>5. OrderInv'
    BY <1>1, <1>11, <2>1, <2>3, <2>4 DEF OrderInv
  <2> QED BY <1>6, <1>7, <1>9, <2>5 DEF DataInv
<1> QED BY <1>10, <1>11

(* The decode thread: a chunk is the next stretch of the track, and it fits. *)
LEMMA DataDecode ==
  ASSUME ControlInv, DataInv, DecodeLoop
  PROVE  DataInv' /\ chunk' \in Samples /\ ring' \in Samples
<1> USE DEF workVars, decodeVars, countVars, prefVars
<1>0. Types /\ DecodeInv /\ LeftInv /\ RoomInv /\ CountInv /\ OrderInv
  BY DEF ControlInv, DataInv
<1>1. /\ dpc \in {"check", "decode", "write"}
      /\ UNCHANGED <<wpc, target, decoder, currentFile, silent, samplesPlayed, heard, sinks>>
  BY Zenon DEF DecodeLoop, DecodeStop, DecodeAdmit, DecodeFrames, DecodeWrite
<1>2. decoder # NoTrack /\ wpc # "prepare" /\ currentFile = decoder
  BY <1>0, <1>1 DEF DecodeInv, OrderInv
<1>3. Main' = Main /\ Left' = Left /\ ring \in Samples /\ chunk \in Samples
  BY <1>0, <1>1 DEF Main, Left, Types
<1>4. LeftInv'
  BY <1>0, <1>3 DEF LeftInv
<1>5. /\ decoder \in Tracks
      /\ decoded \in Nat /\ heard \in Nat /\ samplesPlayed \in Nat /\ decoded <= MaxLength
      /\ Len(ring) \in Nat /\ Len(chunk) \in Nat /\ Len(Left) \in Nat
      /\ Left  = Stretch(decoder, heard, Len(Left))
      /\ ring  = Stretch(decoder, samplesPlayed, Len(ring))
      /\ chunk = Stretch(decoder, samplesPlayed + Len(ring), Len(chunk))
      /\ samplesPlayed = heard + Len(Left)
      /\ decoded = samplesPlayed + Len(ring) + Len(chunk)
  BY <1>2, TrackHere
<1>6. /\ Len(ring) <= Capacity /\ Len(chunk) <= Chunk /\ Capacity \in Nat /\ Chunk \in Nat /\ MaxLength \in Nat
      /\ dpc \in {"decode", "write"} => Len(ring) + Chunk <= Capacity
      /\ dpc # "write" => chunk = <<>>
  BY <1>0, SizeAssumption DEF RoomInv
<1>7. CASE DecodeStop \/ DecodeAdmit
  <2>1. /\ dpc = "check" /\ UNCHANGED <<decoded, chunk, ring>>
        /\ dpc' = "ended" \/ (dpc' = "decode" /\ RoomForChunk)
    BY <1>7, Zenon DEF DecodeStop, DecodeAdmit
  <2>2. RoomInv'
    BY <1>5, <1>6, <2>1 DEF RoomInv, RoomForChunk, Space
  <2>3. CountInv' /\ OrderInv'
    BY <1>0, <1>1, <1>3, <2>1 DEF CountInv, OrderInv
  <2> QED BY <1>3, <1>4, <2>1, <2>2, <2>3 DEF DataInv
<1>8. CASE DecodeFrames
  <2>1. PICK n \in 0 .. Lesser(Chunk, MaxLength - decoded) :
          /\ chunk' = Stretch(decoder, decoded, n)
          /\ decoded' = decoded + n
          /\ dpc' = (IF n = 0 THEN "ended" ELSE "write")
    BY <1>8, Zenon DEF DecodeFrames, Stretch
  <2>2. dpc = "decode" /\ ring' = ring
    BY <1>8, Zenon DEF DecodeFrames
  <2>3. n \in Nat /\ n <= Chunk /\ decoded + n <= MaxLength
    BY <1>5, <1>6 DEF Lesser
  <2>4. chunk' \in Samples /\ Len(chunk') = n
    BY <1>5, <2>1, <2>3, StretchIs, StretchOfSamples
  <2>5. n = 0 => chunk' = <<>>
    BY <2>4, SamplesLen
  <2>6. RoomInv'
    BY <1>6, <2>1, <2>2, <2>3, <2>4, <2>5 DEF RoomInv
  <2>7. CountInv'
    BY <1>0, <1>1, <1>5, <2>1, <2>3 DEF CountInv
  <2>8. Len(chunk) = 0 /\ decoded = samplesPlayed + Len(ring)
    BY <1>3, <1>5, <1>6, <2>2, SamplesLen
  <2>9. chunk' = Stretch(decoder', samplesPlayed' + Len(ring'), Len(chunk'))
    BY <1>1, <2>1, <2>2, <2>4, <2>8
  <2>10. decoded' = samplesPlayed' + Len(ring') + Len(chunk')
    BY <1>1, <1>5, <2>1, <2>2, <2>3, <2>4, <2>8
  <2>11. OrderInv'
    BY <1>1, <1>2, <1>3, <1>5, <2>2, <2>9, <2>10 DEF OrderInv
  <2> QED BY <1>3, <1>4, <2>2, <2>4, <2>6, <2>7, <2>11 DEF DataInv
<1>9. CASE DecodeWrite
  <2>1. /\ dpc = "write" /\ dpc' = "check" /\ chunk' = <<>> /\ decoded' = decoded
        /\ ring' = ring \o Take(chunk, Lesser(Len(chunk), Space))
    BY <1>9, Zenon DEF DecodeWrite
  <2>2. Lesser(Len(chunk), Space) = Len(chunk)
    BY <1>5, <1>6, <2>1 DEF Lesser, Space
  <2>3. Take(chunk, Len(chunk)) = chunk
    <3> DEFINE m == Len(chunk)
    <3>1. Take(Stretch(decoder, samplesPlayed + Len(ring), m), m) = Stretch(decoder, samplesPlayed + Len(ring), m)
      BY <1>5, CutStretch
    <3> QED BY <1>5, <3>1
  <2>4. ring' = ring \o chunk
    BY <2>1, <2>2, <2>3
  <2>5. ring' \in Samples /\ Len(ring') = Len(ring) + Len(chunk)
    BY <1>3, <2>4, JoinSamples
  <2>6. ring' = Stretch(decoder, samplesPlayed, Len(ring) + Len(chunk))
    <3> DEFINE m == Len(ring)
               n == Len(chunk)
    <3>1. decoder \in Tracks /\ samplesPlayed \in Nat /\ m \in Nat /\ n \in Nat
      BY <1>5
    <3>2. ring = Stretch(decoder, samplesPlayed, m) /\ chunk = Stretch(decoder, samplesPlayed + m, n)
      BY <1>5
    <3> HIDE DEF m, n
    <3>3. Stretch(decoder, samplesPlayed, m) \o Stretch(decoder, samplesPlayed + m, n) = Stretch(decoder, samplesPlayed, m + n)
      BY <3>1, JoinStretch
    <3> QED BY <2>4, <3>2, <3>3 DEF m, n
  <2>7. <<>> \in Samples /\ Len(<<>>) = 0
    BY EmptySeq DEF Samples
  <2>8. RoomInv'
    BY <1>5, <1>6, <2>1, <2>5, <2>7 DEF RoomInv
  <2>9. CountInv'
    BY <1>0, <1>1, <2>1 DEF CountInv
  <2>10. chunk' = Stretch(decoder', samplesPlayed' + Len(ring'), Len(chunk'))
    <3>1. samplesPlayed' + Len(ring') \in Nat
      BY <1>1, <1>5, <2>5
    <3> QED BY <1>1, <1>5, <2>1, <2>7, <3>1, EmptyStretch
  <2>11. decoded' = samplesPlayed' + Len(ring') + Len(chunk')
    BY <1>1, <1>5, <2>1, <2>5, <2>7
  <2>12. ring' = Stretch(decoder', samplesPlayed', Len(ring'))
    BY <1>1, <2>5, <2>6
  <2>13. OrderInv'
    BY <1>1, <1>2, <1>3, <1>5, <2>10, <2>11, <2>12 DEF OrderInv
  <2> QED BY <1>4, <2>1, <2>5, <2>7, <2>8, <2>9, <2>13 DEF DataInv
<1> QED BY <1>7, <1>8, <1>9 DEF DecodeLoop

(* The callback: a part of the ring goes into the converter, a part of the  *)
(* converter to the device.                                                 *)
LEMMA FillSteps ==
  ASSUME ControlInv, DataInv, NEW s \in {"main", "new"},
         FillBegin(s) \/ FillPull(s) \/ FillDeliver(s)
  PROVE  ControlInv' /\ DataInv'
<1> USE DEF workVars, decodeVars, countVars, prefVars
<1>0. Types /\ LeftInv /\ RoomInv /\ CountInv /\ OrderInv
  BY DEF ControlInv, DataInv
<1>1. /\ s = "main" /\ Main # NoSink /\ ~Still(Main) /\ decoder # NoTrack /\ wpc # "prepare"
      /\ Main = sinks[s]
  BY FillsMain DEF Main
<1>2. Main \in Sink /\ Main.left \in Samples /\ Left = Main.left /\ ring \in Samples
      /\ (Main.conv = TRUE \/ Main.conv = FALSE) /\ Len(Main.left) \in Nat
  BY <1>0, <1>1, MainIsSink, SamplesHere, SinkFields
<1>3. /\ decoder \in Tracks
      /\ decoded \in Nat /\ heard \in Nat /\ samplesPlayed \in Nat /\ decoded <= MaxLength
      /\ Len(ring) \in Nat /\ Len(chunk) \in Nat /\ Len(Left) \in Nat
      /\ Left  = Stretch(decoder, heard, Len(Left))
      /\ ring  = Stretch(decoder, samplesPlayed, Len(ring))
      /\ chunk = Stretch(decoder, samplesPlayed + Len(ring), Len(chunk))
      /\ samplesPlayed = heard + Len(Left)
      /\ decoded = samplesPlayed + Len(ring) + Len(chunk)
  BY <1>1, TrackHere
<1>4. /\ UNCHANGED <<wpc, job, target, state, decoder, currentFile, decoded, dpc, chunk, volume, outputDevice>>
      /\ UNCHANGED <<eos, stopReq>> /\ currentFile = decoder
  BY <1>0, <1>1, Zenon DEF FillBegin, FillPull, FillDeliver, OrderInv
<1>5. /\ Len(ring) <= Capacity /\ Len(chunk) <= Chunk /\ Capacity \in Nat /\ Chunk \in Nat
      /\ dpc \in {"decode", "write"} => Len(ring) + Chunk <= Capacity
      /\ dpc # "write" => chunk = <<>>
  BY <1>0, SizeAssumption DEF RoomInv
<1>6. DeviceFrames \in Nat \ {0} /\ Pull \in Nat \ {0} /\ Threshold \in Nat
  BY SizeAssumption
<1>7. CASE FillBegin(s)
  <2>1. /\ Main.paused = FALSE \/ Main.paused # TRUE
        /\ sinks' = [sinks EXCEPT !["main"].phase = IF Enough(Main, Main.left) THEN "deliver" ELSE "pull"]
        /\ Main.phase = "quiet" /\ UNCHANGED <<ring, silent, samplesPlayed, heard>>
    BY <1>1, <1>7 DEF FillBegin
  <2> DEFINE ph == IF Enough(Main, Main.left) THEN "deliver" ELSE "pull"
             m  == [Main EXCEPT !.phase = ph]
  <2>2. ph \in {"quiet", "pull", "deliver"}
    OBVIOUS
  <2>3. /\ (ph = "deliver" => Main.conv = TRUE) /\ (ph = "pull" => Main.conv = FALSE \/ Len(Main.left) < DeviceFrames)
    BY <1>2, <1>6 DEF Enough
  <2>4. sinks' = [sinks EXCEPT !["main"] = m]
    BY <1>0, <2>1 DEF Main, Types
  <2> HIDE DEF ph
  <2>5. /\ m \in Sink /\ m.left = Main.left /\ m.phase = ph
        /\ m.dev = Main.dev /\ m.paused = Main.paused /\ m.vol = Main.vol /\ m.conv = Main.conv
    BY <1>2, <2>2, PhaseSink
  <2> HIDE DEF m
  <2>6. Main' = m /\ m # NoSink
    BY <1>0, <2>4, <2>5, MainReplaced, SinkAssumption
  <2>7. ControlInv'
    BY <1>0, <1>1, <1>2, <1>4, <2>1, <2>4, <2>5, FillKeepsControl
  <2>8. LeftInv'
    BY <1>0, <1>1, <1>2, <2>1, <2>3, <2>5, <2>6 DEF LeftInv
  <2>9. Left' = Left
    BY <1>1, <2>5, <2>6 DEF Left
  <2>10. RoomInv' /\ CountInv' /\ OrderInv'
    BY <1>0, <1>4, <2>1, <2>9 DEF RoomInv, CountInv, OrderInv
  <2> QED BY <2>7, <2>8, <2>10 DEF DataInv
<1>8. CASE FillPull(s)
  <2> DEFINE want == IF Main.conv THEN Pull ELSE DeviceFrames
             n    == Lesser(want, Len(ring))
             got  == Main.left \o Take(ring, n)
             ph   == IF n = 0 \/ ~Main.conv \/ Enough(Main, got) THEN "deliver" ELSE "pull"
             m    == Filled(Main, got, ph)
  <2>1. /\ Main.phase = "pull" /\ ring' = Drop(ring, n) /\ silent' = SilentAfter(n)
        /\ samplesPlayed' = samplesPlayed + n /\ heard' = heard
        /\ sinks' = [sinks EXCEPT !["main"].left = got, !["main"].phase = ph]
    BY <1>1, <1>8 DEF FillPull
  <2>2. sinks' = [sinks EXCEPT !["main"] = m]
    BY <1>0, <2>1 DEF Main, Types, Filled
  <2>3. n \in 0 .. Len(ring) /\ n <= DeviceFrames + Pull /\ (Main.conv = FALSE => n <= DeviceFrames) /\ (Main.conv = TRUE => n <= Pull)
    BY <1>2, <1>3, <1>6 DEF Lesser
  <2>4. ph \in {"quiet", "pull", "deliver"} /\ (Main.conv = FALSE => ph = "deliver")
    OBVIOUS
  <2>5. ph = "pull" => ~(Main.conv /\ Len(got) >= DeviceFrames)
    BY DEF Enough
  <2> HIDE DEF want, n, ph
  <2>6. /\ Take(ring, n) \in Samples /\ Len(Take(ring, n)) = n
        /\ Drop(ring, n) \in Samples /\ Len(Drop(ring, n)) = Len(ring) - n
    BY <1>2, <2>3, CutSamples
  <2>7. got \in Samples /\ Len(got) = Len(Left) + n
    BY <1>2, <2>6, JoinSamples
  <2>8. got = Stretch(decoder, heard, Len(Left) + n)
    <3> DEFINE k == Len(Left)
               r == Len(ring)
    <3>1. Take(Stretch(decoder, samplesPlayed, r), n) = Stretch(decoder, samplesPlayed, n)
      BY <1>3, <2>3, CutStretch
    <3>2. decoder \in Tracks /\ heard \in Nat /\ k \in Nat /\ n \in Nat
      BY <1>3, <2>3
    <3>3. Take(ring, n) = Stretch(decoder, heard + k, n)
      BY <1>3, <3>1
    <3>4. Main.left = Stretch(decoder, heard, k)
      BY <1>2, <1>3
    <3> HIDE DEF k
    <3>5. Stretch(decoder, heard, k) \o Stretch(decoder, heard + k, n) = Stretch(decoder, heard, k + n)
      BY <3>2, JoinStretch
    <3> QED BY <3>3, <3>4, <3>5 DEF k
  <2>9. ring' = Stretch(decoder, samplesPlayed + n, Len(ring) - n)
    <3> DEFINE r == Len(ring)
    <3>1. Drop(Stretch(decoder, samplesPlayed, r), n) = Stretch(decoder, samplesPlayed + n, r - n)
      BY <1>3, <2>3, CutStretch
    <3> QED BY <1>3, <2>1, <3>1
  <2> HIDE DEF got
  <2>10. /\ m \in Sink /\ m.left = got /\ m.phase = ph
         /\ m.dev = Main.dev /\ m.paused = Main.paused /\ m.vol = Main.vol /\ m.conv = Main.conv
    <3>1. Main \in Sink /\ got \in Samples /\ ph \in {"quiet", "pull", "deliver"}
      BY <1>2, <2>4, <2>7
    <3>2. m = Filled(Main, got, ph)
      OBVIOUS
    <3> HIDE DEF m
    <3>3. /\ Filled(Main, got, ph) \in Sink /\ Filled(Main, got, ph).left = got
          /\ Filled(Main, got, ph).phase = ph
          /\ Filled(Main, got, ph).dev = Main.dev /\ Filled(Main, got, ph).paused = Main.paused
          /\ Filled(Main, got, ph).vol = Main.vol /\ Filled(Main, got, ph).conv = Main.conv
      BY <3>1, FilledSink
    <3> QED BY <3>2, <3>3
  <2> HIDE DEF m
  <2>11. Main' = m /\ m # NoSink
    BY <1>0, <2>2, <2>10, MainReplaced, SinkAssumption
  <2>12. Left' = got /\ Len(Left') = Len(Left) + n /\ ring' \in Samples /\ Len(ring') = Len(ring) - n
    BY <2>1, <2>6, <2>7, <2>10, <2>11 DEF Left
  <2>13. ControlInv'
    BY <1>0, <1>1, <1>2, <1>4, <2>2, <2>10, <2>12, FillKeepsControl
  <2>14. LeftInv'
    <3>1. Main.conv = FALSE => Len(Main.left) = 0
      BY <1>0, <1>1, <2>1, SamplesLen, <1>2 DEF LeftInv
    <3>2. Main.conv = TRUE => Len(Main.left) < DeviceFrames
      BY <1>0, <1>1, <2>1 DEF LeftInv
    <3>3. Len(Main'.left) = Len(Main.left) + n /\ Main'.phase = ph /\ Main'.conv = Main.conv /\ Len(got) = Len(Main.left) + n
      BY <1>2, <2>7, <2>10, <2>11
    <3>4. CASE Main.conv = FALSE
      BY <1>2, <1>6, <2>3, <2>4, <3>1, <3>3, <3>4 DEF LeftInv
    <3>5. CASE Main.conv = TRUE
      <4>1. Len(Main'.left) <= DeviceFrames + Pull
        BY <1>2, <1>6, <2>3, <3>2, <3>3, <3>5
      <4>2. ph = "pull" => Len(Main'.left) < DeviceFrames
        BY <1>2, <1>6, <2>3, <2>5, <3>3, <3>5
      <4> QED BY <3>3, <3>5, <4>1, <4>2 DEF LeftInv
    <3> QED BY <1>2, <3>4, <3>5
  <2>15. RoomInv'
    BY <1>3, <1>4, <1>5, <2>3, <2>12 DEF RoomInv
  <2>16. silent' \in 0 .. Threshold
    BY <1>0, <1>6, <2>1 DEF SilentAfter, Lesser, CountInv
  <2>17. CountInv'
    BY <1>0, <1>3, <1>4, <2>1, <2>3, <2>16 DEF CountInv
  <2>18. samplesPlayed + n + (Len(ring) - n) = samplesPlayed + Len(ring)
    BY <1>3, <2>3
  <2>19. /\ Left' = Stretch(decoder', heard', Len(Left')) /\ samplesPlayed' = heard' + Len(Left')
         /\ ring' = Stretch(decoder', samplesPlayed', Len(ring'))
    BY <1>3, <1>4, <2>1, <2>3, <2>8, <2>9, <2>12
  <2>20. samplesPlayed' + Len(ring') = samplesPlayed + Len(ring)
    BY <2>1, <2>12, <2>18
  <2>21. chunk' = Stretch(decoder', samplesPlayed' + Len(ring'), Len(chunk')) /\ decoded' = samplesPlayed' + Len(ring') + Len(chunk')
    BY <1>3, <1>4, <2>20
  <2>22. OrderInv'
    BY <1>1, <1>4, <2>19, <2>21 DEF OrderInv
  <2> QED BY <2>13, <2>14, <2>15, <2>17, <2>22 DEF DataInv
<1>9. CASE FillDeliver(s)
  <2> DEFINE n == Lesser(DeviceFrames, Len(Main.left))
             rest == Drop(Main.left, n)
             m == Filled(Main, rest, "quiet")
  <2>1. /\ Main.phase = "deliver" /\ heard' = heard + n
        /\ sinks' = [sinks EXCEPT !["main"].left = Drop(@, n), !["main"].phase = "quiet"]
        /\ UNCHANGED <<ring, silent, samplesPlayed>>
    BY <1>1, <1>9 DEF FillDeliver
  <2>2. sinks' = [sinks EXCEPT !["main"] = m]
    BY <1>0, <2>1 DEF Main, Types, Filled
  <2>3. n \in 0 .. Len(Main.left) /\ (Len(Main.left) <= DeviceFrames => n = Len(Main.left))
    BY <1>2, <1>6 DEF Lesser
  <2> HIDE DEF n
  <2>4. rest \in Samples /\ Len(rest) = Len(Main.left) - n
    BY <1>2, <2>3, CutSamples
  <2>5. rest = Stretch(decoder, heard + n, Len(Left) - n)
    <3> DEFINE k == Len(Left)
    <3>1. decoder \in Tracks /\ heard \in Nat /\ k \in Nat /\ n \in 0 .. k
      BY <1>2, <1>3, <2>3
    <3>2. Main.left = Stretch(decoder, heard, k)
      BY <1>2, <1>3
    <3> HIDE DEF k
    <3>3. Drop(Stretch(decoder, heard, k), n) = Stretch(decoder, heard + n, k - n)
      BY <3>1, CutStretch
    <3> QED BY <3>2, <3>3 DEF k
  <2> HIDE DEF rest
  <2>6. /\ m \in Sink /\ m.left = rest /\ m.phase = "quiet"
        /\ m.dev = Main.dev /\ m.paused = Main.paused /\ m.vol = Main.vol /\ m.conv = Main.conv
    BY <1>2, <2>4, FilledSink
  <2> HIDE DEF m
  <2>7. Main' = m /\ m # NoSink
    BY <1>0, <2>2, <2>6, MainReplaced, SinkAssumption
  <2>8. Left' = rest /\ Len(Left') = Len(Left) - n
    BY <1>2, <2>4, <2>6, <2>7 DEF Left
  <2>9. ControlInv'
    BY <1>0, <1>1, <1>2, <1>4, <2>1, <2>2, <2>6, FillKeepsControl
  <2>10. LeftInv'
    <3>1. Main.conv = FALSE => Len(Main.left) <= DeviceFrames
      BY <1>0, <1>1 DEF LeftInv
    <3>2. Main.conv = TRUE => Len(Main.left) <= DeviceFrames + Pull
      BY <1>0, <1>1 DEF LeftInv
    <3>3. Main'.left = rest /\ Main'.phase = "quiet" /\ Main'.conv = Main.conv /\ Len(rest) \in Nat /\ Len(rest) <= Len(Main.left)
      BY <1>2, <2>3, <2>4, <2>6, <2>7
    <3>4. Main.conv = FALSE => rest = <<>>
      BY <1>2, <2>3, <2>4, <3>1, SamplesLen
    <3> QED BY <1>2, <1>6, <3>1, <3>2, <3>3, <3>4 DEF LeftInv
  <2>11. RoomInv'
    BY <1>4, <1>5, <2>1 DEF RoomInv
  <2>12. CountInv'
    BY <1>0, <1>3, <1>4, <2>1, <2>3 DEF CountInv
  <2>13. Left' = Stretch(decoder', heard', Len(Left')) /\ samplesPlayed' = heard' + Len(Left')
    BY <1>2, <1>3, <1>4, <2>1, <2>3, <2>5, <2>8
  <2>14. OrderInv'
    BY <1>1, <1>3, <1>4, <2>1, <2>13 DEF OrderInv
  <2> QED BY <2>9, <2>10, <2>11, <2>12, <2>14 DEF DataInv
<1> QED BY <1>7, <1>8, <1>9

-------------------------------------------------------------------------------
(* The invariant, and what follows from it *)

IInv == ControlInv /\ DataInv /\ Flags

LEMMA FlagsKept == Flags /\ [Next]_vars => Flags'
<1> USE DEF workVars, decodeVars, countVars, prefVars, Flags
<1> SUFFICES ASSUME Flags, [Next]_vars PROVE Flags'
  OBVIOUS
<1>1. CASE DecodeFrames
  <2>1. \E n \in 0 .. Lesser(Chunk, MaxLength - decoded) : eos' = (n = 0)
    BY <1>1, Zenon DEF DecodeFrames
  <2>2. stopReq' = stopReq
    BY <1>1, Zenon DEF DecodeFrames
  <2> QED BY <2>1, <2>2, Zenon
<1>2. CASE QuietSink
  BY <1>2, Zenon DEF QuietSink
<1>3. CASE JoinDecode
  BY <1>3, Zenon DEF JoinDecode
<1>4. CASE StartPlayback
  BY <1>4, Zenon DEF StartPlayback
<1>5. CASE \/ \E t \in Tracks \cup {NoTrack} : BeginStop(t)
           \/ TearDown \/ OpenFile \/ PrepareSink \/ PrefillTarget \/ PrefillEnd
           \/ Resume \/ StartDevice \/ MarkPlaying \/ BeginPause \/ PauseDevice \/ MarkPaused
  BY <1>5, Zenon DEF BeginStop, TearDown, OpenFile, PrepareSink, PrefillTarget, PrefillEnd,
     Resume, StartDevice, MarkPlaying, BeginPause, PauseDevice, MarkPaused
<1>6. CASE \/ \E v \in VolumeInputs : SetVolume(v)
           \/ \E d \in Devices : ProbeDevice(d) \/ OpenNewSink(d)
           \/ StopOldSink \/ SwapSink \/ RestartSink \/ DecodeStop \/ DecodeAdmit \/ DecodeWrite
  BY <1>6, Zenon DEF SetVolume, ProbeDevice, OpenNewSink, StopOldSink, SwapSink, RestartSink,
     DecodeStop, DecodeAdmit, DecodeWrite
<1>7. CASE Fill
  BY <1>7, Zenon DEF Fill, FillBegin, FillPull, FillDeliver
<1>8. CASE UNCHANGED vars
  BY <1>8, Zenon DEF vars
<1> QED BY <1>1, <1>2, <1>3, <1>4, <1>5, <1>6, <1>7, <1>8, Zenon
        DEF Next, Command, Locked, Work, DecodeLoop

LEMMA Unchanged == IInv /\ UNCHANGED vars => ControlInv' /\ DataInv'
<1> SUFFICES ASSUME IInv, UNCHANGED vars PROVE ControlInv' /\ DataInv'
  OBVIOUS
<1>1. UNCHANGED <<wpc, job, target, state, decoder, currentFile, decoded, dpc, chunk, ring,
                  silent, samplesPlayed, heard, sinks, volume, outputDevice>>
  BY DEF vars, workVars, decodeVars, countVars, prefVars
<1>2. Main' = Main /\ New' = New /\ Left' = Left
  BY <1>1 DEF Main, New, Left
<1>3. ControlInv'
  BY <1>1, <1>2 DEF IInv, ControlInv, Types, JobInv, DecodeInv, SinkInv, StateInv, Still
<1>4. DataInv'
  BY <1>1, <1>2 DEF IInv, DataInv, LeftInv, RoomInv, CountInv, OrderInv
<1> QED BY <1>3, <1>4

LEMMA StepKeeps == IInv /\ [Next]_vars => IInv'
<1> SUFFICES ASSUME IInv, [Next]_vars PROVE IInv'
  OBVIOUS
<1>1. ControlInv /\ DataInv /\ Flags'
  BY FlagsKept DEF IInv
<1>2. SUFFICES ControlInv' /\ DataInv'
  BY <1>1 DEF IInv
<1>3. CASE \/ \E t \in Tracks \cup {NoTrack} : BeginStop(t)
           \/ JoinDecode
           \/ StartPlayback \/ PrefillTarget \/ PrefillEnd \/ Resume \/ MarkPlaying
           \/ BeginPause \/ MarkPaused \/ \E d \in Devices : ProbeDevice(d)
  BY <1>1, <1>3, WorkerSteps, DataWorker
<1>4. CASE TearDown \/ OpenFile
  BY <1>1, <1>4, WorkerSteps, DataLoading
<1>5. CASE PrepareSink
  BY <1>1, <1>5, SwapSteps, DataLoading
<1>6. CASE QuietSink \/ PauseDevice \/ StopOldSink \/ StartDevice \/ RestartSink
  BY <1>1, <1>6, PausingSteps, DataPausing
<1>7. CASE (\E v \in VolumeInputs : SetVolume(v)) \/ (\E d \in Devices : OpenNewSink(d))
  BY <1>1, <1>7, SwapSteps, DataPausing
<1>8. CASE SwapSink
  BY <1>1, <1>8, SwapSteps, DataSwap
<1>9. CASE DecodeLoop
  BY <1>1, <1>9, DecodeSteps, DataDecode
<1>10. CASE Fill
  BY <1>1, <1>10, FillSteps DEF Fill
<1>11. CASE UNCHANGED vars
  BY <1>11, Unchanged
<1> QED BY <1>3, <1>4, <1>5, <1>6, <1>7, <1>8, <1>9, <1>10, <1>11, Zenon
        DEF Next, Command, Locked, Work

(* The invariant holds throughout, whatever commands come and however the   *)
(* three threads interleave.                                                *)
THEOREM Inductive == Spec => []IInv
<1>1. Init => IInv
  BY ControlInit, DataInit DEF IInv, Init, Flags
<1> QED BY <1>1, StepKeeps, PTL DEF Spec

LEMMA InvTypes == IInv => TypeOK
<1> SUFFICES ASSUME IInv PROVE TypeOK
  OBVIOUS
<1>0. ControlInv /\ DataInv /\ Types /\ SinkInv /\ LeftInv /\ RoomInv /\ CountInv /\ OrderInv
  BY DEF IInv, ControlInv, DataInv
<1>1. /\ wpc \in Labels /\ job \in Tracks \cup Devices \cup {NoTrack}
      /\ state \in {"Stopped", "Playing", "Paused"}
      /\ {decoder, currentFile} \subseteq Tracks \cup {NoTrack}
      /\ dpc \in {"off", "check", "decode", "write", "ended"}
      /\ sinks \in [{"main", "new"} -> Sink \cup {NoSink}]
      /\ volume \in 0 .. 100 /\ outputDevice \in Devices
      /\ ring \in Samples /\ Len(ring) <= Capacity
      /\ chunk \in Samples /\ Len(chunk) <= Chunk
      /\ target \in 0 .. Capacity /\ silent \in 0 .. Threshold
  BY <1>0 DEF Types, RoomInv, CountInv
<1>2. stopReq \in BOOLEAN /\ eos \in BOOLEAN
  BY Zenon DEF IInv, Flags
<1>3. {decoded, samplesPlayed, heard} \subseteq 0 .. MaxLength
  <2>1. decoded \in Nat /\ samplesPlayed \in Nat /\ heard \in Nat /\ decoded <= MaxLength /\ MaxLength \in Nat
    BY <1>0, SizeAssumption DEF CountInv
  <2>2. samplesPlayed <= decoded /\ heard <= decoded
    <3>1. CASE decoder # NoTrack /\ wpc # "prepare"
      BY <1>0, <3>1, TrackHere
    <3>2. CASE ~(decoder # NoTrack /\ wpc # "prepare")
      BY <1>0, <3>2 DEF OrderInv
    <3> QED BY <3>1, <3>2
  <2> QED BY <2>1, <2>2
<1>4. \A s \in {"main", "new"} : sinks[s] # NoSink => Len(sinks[s].left) <= DeviceFrames + Pull
  <2>1. DeviceFrames \in Nat /\ Pull \in Nat /\ Len(<<>>) = 0
    BY SizeAssumption
  <2>2. ASSUME Main # NoSink PROVE Len(Main.left) <= DeviceFrames + Pull
    <3>1. Main.conv = TRUE \/ Main.conv = FALSE
      BY <1>0, <2>2, MainIsSink, SinkFields
    <3>2. Len(Main.left) \in Nat
      BY <1>0, <2>2, SamplesHere
    <3> QED BY <1>0, <2>1, <2>2, <3>1, <3>2 DEF LeftInv
  <2>3. ASSUME New # NoSink PROVE Len(New.left) <= DeviceFrames + Pull
    BY <1>0, <2>1, <2>3 DEF SinkInv
  <2> QED BY <2>2, <2>3 DEF Main, New
<1> QED BY <1>1, <1>2, <1>3, <1>4, Zenon DEF TypeOK, Labels

(* The bounds of the types are the real ones: the ring never holds more     *)
(* than its capacity, a converter never more than a callback and a pull,    *)
(* and no count passes the length of the track.                             *)
THEOREM TypeCorrect == Spec => []TypeOK
BY Inductive, InvTypes, PTL

LEMMA InvOrder == IInv => AudioInOrder
<1> SUFFICES ASSUME IInv, decoder # NoTrack, wpc # "prepare"
             PROVE  /\ currentFile = decoder
                    /\ Pipeline = [k \in 1 .. decoded - heard |-> <<decoder, heard + k>>]
                    /\ samplesPlayed = decoded - Len(ring \o chunk)
  BY DEF AudioInOrder
<1>0. ControlInv /\ DataInv /\ Types /\ OrderInv
  BY DEF IInv, ControlInv, DataInv
<1> DEFINE a == Len(Left)
           b == Len(ring)
           c == Len(chunk)
<1>1. /\ decoder \in Tracks /\ decoded \in Nat /\ heard \in Nat /\ samplesPlayed \in Nat
      /\ a \in Nat /\ b \in Nat /\ c \in Nat
      /\ Left  = Stretch(decoder, heard, a)
      /\ ring  = Stretch(decoder, heard + a, b)
      /\ chunk = Stretch(decoder, heard + (a + b), c)
      /\ samplesPlayed = heard + a
      /\ decoded = samplesPlayed + b + c
  <2>1. samplesPlayed + b = heard + (a + b)
    BY <1>0, TrackHere
  <2> QED BY <1>0, <2>1, TrackHere
<1>2. Pipeline = Left \o ring \o chunk
  BY <1>0, MainIsSink DEF Pipeline, Left, Main
<1>3. Len(ring \o chunk) = b + c
  BY <1>0, JoinSamples DEF Types
<1> HIDE DEF a, b, c
<1>4. Left \o ring = Stretch(decoder, heard, a + b)
  <2>1. decoder \in Tracks /\ heard \in Nat /\ a \in Nat /\ b \in Nat
    BY <1>1
  <2>2. Stretch(decoder, heard, a) \o Stretch(decoder, heard + a, b) = Stretch(decoder, heard, a + b)
    BY <2>1, JoinStretch
  <2> QED BY <1>1, <2>2
<1>5. Stretch(decoder, heard, a + b) \o Stretch(decoder, heard + (a + b), c) = Stretch(decoder, heard, a + b + c)
  <2> DEFINE d == a + b
  <2>1. decoder \in Tracks /\ heard \in Nat /\ d \in Nat /\ c \in Nat
    BY <1>1
  <2> HIDE DEF d
  <2>2. Stretch(decoder, heard, d) \o Stretch(decoder, heard + d, c) = Stretch(decoder, heard, d + c)
    BY <2>1, JoinStretch
  <2> QED BY <2>2 DEF d
<1>6. a + b + c = decoded - heard
  BY <1>1
<1>7. Pipeline = Stretch(decoder, heard, decoded - heard)
  BY <1>1, <1>2, <1>4, <1>5, <1>6
<1>8. samplesPlayed = decoded - (b + c)
  BY <1>1
<1> QED BY <1>0, <1>3, <1>7, <1>8 DEF Stretch, OrderInv

(* Whatever is on its way to the device is the loaded track's audio, whole  *)
(* and in order, through converters, pauses, device and track changes.      *)
THEOREM AudioInOrderHolds == Spec => []AudioInOrder
BY Inductive, InvOrder, PTL

LEMMA InvSafe == IInv => TearDownIsSafe /\ OneConsumer /\ StateMatchesDevice /\ SinkAsChosen
<1> SUFFICES ASSUME IInv PROVE TearDownIsSafe /\ OneConsumer /\ StateMatchesDevice /\ SinkAsChosen
  OBVIOUS
<1>0. /\ Types /\ DecodeInv /\ SinkInv /\ StateInv
      /\ HasSink <=> Main # NoSink
      /\ Main # NoSink => Main.paused = TRUE \/ Main.paused = FALSE
  BY MainIsSink, SinkFields DEF IInv, ControlInv
<1>1. TearDownIsSafe
  <2>1. wpc \in {"teardown", "open", "prepare"} => dpc = "off" /\ Still(Main)
    BY <1>0 DEF DecodeInv, SinkInv
  <2> QED BY <1>0, <2>1 DEF TearDownIsSafe, Still, DecodeInv, Main
<1>2. OneConsumer
  <2>1. New # NoSink => New.paused = TRUE
    BY <1>0 DEF SinkInv, Still
  <2> QED BY <2>1 DEF OneConsumer, New
<1>3. StateMatchesDevice
  BY <1>0 DEF StateMatchesDevice, Idle, StateInv, Main
<1>4. SinkAsChosen
  BY <1>0 DEF SinkAsChosen, Idle, SinkInv, Main
<1> QED BY <1>1, <1>2, <1>3, <1>4

(* The ring and the decoder are torn down only when the decode thread has   *)
(* ended and the device is paused with no callback in flight.               *)
THEOREM TearDownIsSafeHolds == Spec => []TearDownIsSafe
BY Inductive, InvSafe, PTL

(* Two devices never read from the ring at once. *)
THEOREM OneConsumerHolds == Spec => []OneConsumer
BY Inductive, InvSafe, PTL

(* Between commands a device runs exactly when the state says Playing. *)
THEOREM StateMatchesDeviceHolds == Spec => []StateMatchesDevice
BY Inductive, InvSafe, PTL

(* Between commands the device in use is the one chosen, at the volume set. *)
THEOREM SinkAsChosenHolds == Spec => []SinkAsChosen
BY Inductive, InvSafe, PTL

-------------------------------------------------------------------------------
(* The three threads are one player *)

LEMMA OverIsBoolean == ShouldAutoAdvance \in BOOLEAN /\ ShouldAutoAdvance' \in BOOLEAN
BY DEF ShouldAutoAdvance

(* What does not touch the state, the track or the silence is not seen. *)
LEMMA Unseen ==
  ASSUME UNCHANGED <<state, decoder, silent>>
  PROVE  UNCHANGED ThePlayer!vars
BY DEF ThePlayer!vars, ShouldAutoAdvance

LEMMA StepOfPlayer == IInv /\ [Next]_vars => [ThePlayer!Next]_(ThePlayer!vars)
<1> USE DEF workVars, decodeVars, countVars, prefVars
<1> SUFFICES ASSUME IInv, [Next]_vars PROVE [ThePlayer!Next]_(ThePlayer!vars)
  OBVIOUS
<1>0. Types /\ JobInv /\ StateInv
  BY DEF IInv, ControlInv
<1>1. CASE \/ \E t \in Tracks \cup {NoTrack} : BeginStop(t)
           \/ QuietSink \/ JoinDecode \/ PrefillTarget \/ PrefillEnd \/ Resume
           \/ StartDevice \/ BeginPause \/ PauseDevice
  <2>1. UNCHANGED <<state, decoder, silent>>
    BY <1>1, Zenon DEF BeginStop, QuietSink, JoinDecode, PrefillTarget, PrefillEnd, Resume,
       StartDevice, BeginPause, PauseDevice
  <2> QED BY <2>1, Unseen
<1>2. CASE \/ \E v \in VolumeInputs : SetVolume(v)
           \/ \E d \in Devices : ProbeDevice(d) \/ OpenNewSink(d)
           \/ StopOldSink \/ SwapSink \/ RestartSink \/ DecodeLoop
  <2>1. UNCHANGED <<state, decoder, silent>>
    BY <1>2, Zenon DEF SetVolume, ProbeDevice, OpenNewSink, StopOldSink, SwapSink, RestartSink,
       DecodeLoop, DecodeStop, DecodeAdmit, DecodeFrames, DecodeWrite
  <2> QED BY <2>1, Unseen
<1>3. CASE StartPlayback
  <2>1. state = "Stopped" /\ UNCHANGED <<state, decoder>>
    BY <1>3, Zenon DEF StartPlayback
  <2>2. UNCHANGED ThePlayer!vars
    BY <2>1 DEF ThePlayer!vars, ShouldAutoAdvance
  <2> QED BY <2>2
<1>4. CASE TearDown
  <2>1. decoder' = NoTrack /\ state' = "Stopped"
    BY <1>4, Zenon DEF TearDown
  <2>2. ThePlayer!Stop
    BY <2>1 DEF ThePlayer!Stop, ShouldAutoAdvance
  <2> QED BY <2>2 DEF ThePlayer!Next
<1>5. CASE OpenFile
  <2>1. wpc = "open" /\ UNCHANGED <<state, silent>> /\ (decoder' = job \/ decoder' = decoder)
    BY <1>5, Zenon DEF OpenFile
  <2>2. state = "Stopped" /\ decoder = NoTrack /\ job \in Tracks
    BY <1>0, <2>1 DEF StateInv, JobInv
  <2>3. CASE decoder' = job
    <3>1. ThePlayer!Load(job)
      BY <2>1, <2>2, <2>3 DEF ThePlayer!Load, ShouldAutoAdvance
    <3> QED BY <2>2, <3>1 DEF ThePlayer!Next
  <2>4. CASE decoder' = decoder
    BY <2>1, <2>4, Unseen
  <2> QED BY <2>1, <2>3, <2>4
<1>6. CASE PrepareSink
  <2>1. /\ wpc = "prepare" /\ silent' = silent
        /\ \/ state' = "Stopped" /\ decoder' = decoder
           \/ state' = state /\ decoder' = NoTrack
    BY <1>6, Zenon DEF PrepareSink
  <2>2. state = "Stopped" /\ state' = "Stopped"
    BY <1>0, <2>1 DEF StateInv
  <2>3. CASE decoder' = decoder
    BY <2>1, <2>2, <2>3, Unseen
  <2>4. CASE decoder' = NoTrack
    <3>1. ThePlayer!Stop
      BY <2>2, <2>4 DEF ThePlayer!Stop, ShouldAutoAdvance
    <3> QED BY <3>1 DEF ThePlayer!Next
  <2> QED BY <2>1, <2>3, <2>4
<1>7. CASE MarkPlaying
  <2>1. wpc = "playing" /\ state' = "Playing" /\ decoder' = decoder
    BY <1>7, Zenon DEF MarkPlaying
  <2>2. state # "Playing" /\ decoder # NoTrack
    BY <1>0, <2>1 DEF StateInv
  <2>3. ThePlayer!Start
    BY <2>1, <2>2, OverIsBoolean, Zenon DEF ThePlayer!Start
  <2> QED BY <2>3 DEF ThePlayer!Next
<1>8. CASE MarkPaused
  <2>1. wpc = "paused" /\ state' = "Paused" /\ decoder' = decoder
    BY <1>8, Zenon DEF MarkPaused
  <2>2. state = "Playing"
    BY <1>0, <2>1 DEF StateInv
  <2>3. ThePlayer!Pause
    BY <2>1, <2>2 DEF ThePlayer!Pause, ShouldAutoAdvance
  <2> QED BY <2>3 DEF ThePlayer!Next
<1>9. CASE Fill
  <2>1. UNCHANGED <<state, decoder>>
    BY <1>9, Zenon DEF Fill, FillBegin, FillPull, FillDeliver
  <2>2. CASE state = "Playing" /\ ShouldAutoAdvance' # ShouldAutoAdvance
    <3>1. ShouldAutoAdvance' = ~ShouldAutoAdvance
      BY <2>2, OverIsBoolean
    <3>2. ThePlayer!Turn
      BY <2>1, <2>2, <3>1, Zenon DEF ThePlayer!Turn
    <3> QED BY <3>2 DEF ThePlayer!Next
  <2>3. CASE state = "Playing" /\ ShouldAutoAdvance' = ShouldAutoAdvance
    BY <2>1, <2>3 DEF ThePlayer!vars
  <2>4. CASE state # "Playing"
    <3>1. ShouldAutoAdvance' = ShouldAutoAdvance
      BY <2>1, <2>4 DEF ShouldAutoAdvance
    <3> QED BY <2>1, <3>1 DEF ThePlayer!vars
  <2> QED BY <2>2, <2>3, <2>4
<1>10. CASE UNCHANGED vars
  <2>1. UNCHANGED <<state, decoder, silent>>
    BY <1>10 DEF vars
  <2> QED BY <2>1, Unseen
<1> QED BY <1>1, <1>2, <1>3, <1>4, <1>5, <1>6, <1>7, <1>8, <1>9, <1>10, Zenon
        DEF Next, Command, Locked, Work

(* Seen from the controller, the worker, the decode thread and the callback *)
(* together are the player of module Player.                                *)
THEOREM ImplementsPlayerHolds == Spec => ImplementsPlayer
<1>1. Init => ThePlayer!Init
  BY DEF Init, ThePlayer!Init, ShouldAutoAdvance
<1> QED BY <1>1, StepOfPlayer, Inductive, PTL DEF Spec, ImplementsPlayer, ThePlayer!Spec

===============================================================================
