------------------------------- MODULE Terminal -------------------------------
(***************************************************************************)
(* What the player is told and what it makes of it: the command line of    *)
(* the terminal with its guided prompts (UserInputs), requests of          *)
(* `musiTui ctl` (ControlClient), the dispatcher both go through           *)
(* (CommandDispatcher, one call at a time on the thread it belongs to) and *)
(* the commands it queues for the worker (AsyncLibraryService), down to    *)
(* the call of the service.                                                *)
(*                                                                         *)
(* What is left out: the chat log, and what queries say beside what they   *)
(* are asked.  An answer is the text it repeats; its wording is not here.  *)
(***************************************************************************)
EXTENDS PathCheck

CONSTANTS
  Keys,        \* texts that one key press types
  MaxKeys,     \* bound: length of what is typed
  Bytes,       \* bytes of a path given to ctl
  MaxBytes,    \* bound: length of what is given to ctl
  Albums,      \* titles in the library
  Loaded,      \* those whose songs are loaded
  Tracks,      \* how many songs these have
  kThemes, kVisuals,
  Outputs,     \* device lists that listOutputDevices() may return
  Lines,       \* other commands: [verb, args]
  KeyStep,     \* the step of the arrow keys: 5
  IntMax,      \* 2^31 - 1
  MaxQueue     \* bound: commands in the worker's queue

ASSUME TerminalAssumption ==
  /\ Keys \subseteq Seq(0..255) /\ Bytes \subseteq 0..255
  /\ MaxKeys \in Nat /\ MaxBytes \in Nat /\ MaxQueue \in Nat
  /\ Albums \in Seq(Seq(0..255)) /\ Loaded \subseteq 1..Len(Albums) /\ Tracks \in Nat \ {0}
  /\ kThemes \in Seq(Seq(0..255)) /\ kVisuals \in Seq(Seq(0..255)) /\ Outputs \subseteq Seq(Seq(0..255))
  /\ \A l \in Lines : l.args \in Seq(0..255)
  /\ KeyStep \in Nat /\ IntMax \in Nat

VARIABLES
  mode,        \* of the prompt
  text,        \* what is typed, or given to ctl
  composing,   \* the verb it is the argument of, "" at a prompt
  queue,       \* setVolume() and what else the worker has to run
  volume,      \* of the engine
  promised,    \* history: the volume last answered
  last,        \* history: what was asked, called and answered, by the last step
  quitting

vars == <<mode, text, composing, queue, volume, promised, last, quitting>>

Prompts == {"RootConfig", "ThemeConfig", "OutputDevice", "VisualsConfig"}

NoCall == [op |-> "none"]
Nobody == [meant |-> <<>>, call |-> NoCall, scanned |-> <<>>, message |-> <<>>, wire |-> <<>>]

Init ==
  /\ mode = "Command" /\ text = <<>> /\ composing = ""
  /\ queue = <<>> /\ volume = 100 /\ promised = 100
  /\ last = Nobody /\ quitting = FALSE

-------------------------------------------------------------------------------
(* CommandDispatcher: what a verb does, and its answer.                     *)

(* CommandResult as it goes over the wire; `meant` is what was asked.       *)
Answer(meant, call, scanned, ok, message) ==
  last' = [meant |-> meant, call |-> call, scanned |-> scanned, message |-> message,
           wire |-> ToJson(ok, message)]

Enqueue(command) == queue' = Append(queue, command)

Say(meant, ok, message) ==
  /\ Answer(meant, NoCall, <<>>, ok, message)
  /\ UNCHANGED <<queue, promised, quitting>>

(* help, status: queries of what is shown elsewhere. *)
Query(meant) == Say(meant, TRUE, <<>>)

(* albums, output list: one name a line. *)
OnePerLine(names) ==
  LET lines[i \in 0..Len(names)] ==
        IF i = 0 THEN <<>> ELSE lines[i - 1] \o (IF i = 1 THEN <<>> ELSE <<Newline>>) \o names[i]
  IN  lines[Len(names)]
List(meant, names) == Say(meant, TRUE, OnePerLine(names))

ResolveAlbum(name) ==
  LET like == {i \in 1..Len(Albums) : IEquals(Albums[i], name)}
  IN  CASE \E i \in like : Albums[i] = name -> CHOOSE i \in like : Albums[i] = name
        [] (\A i \in like : Albums[i] # name) /\ (\E i \in like : like = {i}) -> CHOOSE i \in like : TRUE
        [] OTHER -> 0

Songs(meant, args) ==
  LET requested == SingleArg(args)
  IN  IF requested = <<>> \/ ResolveAlbum(requested) = 0
      THEN Say(meant, FALSE, requested)
      ELSE Say(meant, TRUE, Albums[ResolveAlbum(requested)])

(* The album and the track that the arguments of play name: [album, track], *)
(* album 0 if there is none, track 0 if it is no number.                    *)
Number(s) == LET n == ParseInt(s, IntMax) IN IF n.some THEN n.value ELSE 0
LastBlank(s) ==
  LET at == {i \in 1..Len(s) : s[i] \in {Blank, Tab}}
  IN  IF at = {} THEN 0 ELSE CHOOSE i \in at : \A j \in at : j <= i

Named(args) ==
  IF args[1] = Quote
  THEN LET tokens == Tokenize(args)
       IN  IF Len(tokens) \notin 1..2 THEN [album |-> 0, track |-> 0]
           ELSE [album |-> ResolveAlbum(tokens[1]),
                 track |-> IF Len(tokens) = 2 THEN Number(tokens[2]) ELSE 1]
  ELSE LET cut == LastBlank(args)
           track == Number(SubSeq(args, cut + 1, Len(args)))
       IN  IF ResolveAlbum(args) # 0 \/ cut = 0 \/ track = 0
           THEN [album |-> ResolveAlbum(args), track |-> 1]
           ELSE [album |-> ResolveAlbum(Trim(SubSeq(args, 1, cut - 1))), track |-> track]

Play(meant, args) ==
  IF args = <<>>
  THEN /\ Enqueue([op |-> "resumePlayback"])
       /\ Answer(meant, NoCall, <<>>, TRUE, <<>>)
       /\ UNCHANGED <<promised, quitting>>
  ELSE LET n == Named(args)
       IN  IF n.album \in Loaded /\ n.track \in 1..Tracks
           THEN LET call == [op |-> "playSong", album |-> Albums[n.album], song |-> n.track - 1]
                IN  /\ Enqueue(call)
                    /\ Answer(meant, call, <<>>, TRUE, Albums[n.album])
                    /\ UNCHANGED <<promised, quitting>>
           ELSE Say(meant, FALSE, args)

Control(meant, op) ==
  /\ Enqueue([op |-> op])
  /\ Answer(meant, NoCall, <<>>, TRUE, <<>>)
  /\ UNCHANGED <<promised, quitting>>

Clamped(n) == IF n < 0 THEN 0 ELSE IF n > 100 THEN 100 ELSE n

(* A sum beyond the width of an int is undefined: it wraps and is clamped   *)
(* below, or is taken for what it should be and clamped above.              *)
Targets(relative, value) ==
  IF ~relative THEN {Clamped(value)}
  ELSE IF volume + value > IntMax THEN {0, 100} ELSE {Clamped(volume + value)}

Volume(meant, args) ==
  LET sign == args # <<>> /\ args[1] \in {43, 45}
      n == ParseInt(IF sign /\ args[1] = 43 THEN Tail(args) ELSE args, IntMax)
  IN  IF args = <<>> \/ ~n.some
      THEN Say(meant, args = <<>>, <<>>)
      ELSE \E target \in Targets(sign, n.value) :
             /\ Enqueue([op |-> "setVolume", percent |-> target])
             /\ promised' = target
             /\ Answer(meant, NoCall, <<>>, TRUE, <<>>)
             /\ UNCHANGED quitting

ListWord == <<108, 105, 115, 116>>

(* The devices are listed when the command comes, *)
Output(meant, args) ==
  \E devices \in Outputs :
    LET n == ParseInt(args, IntMax)
    IN  IF args # <<>> /\ n.some /\ n.value \in 1..Len(devices)
        THEN /\ Enqueue([op |-> "setOutputDevice", index |-> n.value - 1])
             /\ Answer(meant, NoCall, <<>>, TRUE, devices[n.value])
             /\ UNCHANGED <<promised, quitting>>
        ELSE IF args \in {<<>>, ListWord} THEN List(meant, devices) ELSE Say(meant, FALSE, <<>>)

(* A theme goes to the screen and to the settings, as a visual does. *)
Theme(meant, args) ==
  LET index == PickIndex(args, kThemes, IntMax)
  IN  IF args = <<>> \/ index = 0 THEN Say(meant, args = <<>>, <<>>)
      ELSE /\ Answer(meant, [op |-> "setTheme", index |-> index - 1], <<>>, TRUE, kThemes[index])
           /\ UNCHANGED <<queue, promised, quitting>>

Visual(meant, args) ==
  LET index == PickIndex(args, kVisuals, IntMax)
  IN  IF args = <<>> \/ index = 0 THEN Say(meant, args = <<>>, <<>>)
      ELSE /\ Answer(meant, [op |-> "setVisual", index |-> index - 1], <<>>, TRUE, kVisuals[index])
           /\ UNCHANGED <<queue, promised, quitting>>

(* setRootPath() validates and scans; the settings get the path as given.   *)
Root(meant, args) ==
  LET path == SingleArg(args)
  IN  IF path = <<>> THEN Query(meant)
      ELSE \E there \in Kinds :
             LET checked == Validate(path, there)
             IN  /\ Answer(meant, [op |-> "setRootPath", path |-> path], checked.path,
                           checked.error = "None", IF checked.error = "None" THEN path ELSE <<>>)
                 /\ UNCHANGED <<queue, promised, quitting>>

Quit(meant) ==
  /\ quitting' = TRUE
  /\ Answer(meant, NoCall, <<>>, TRUE, <<>>)
  /\ UNCHANGED <<queue, promised>>

(* execute(): the line is split at its first blank, the rest trimmed; an    *)
(* empty line is no command, as an unknown verb is none.                    *)
Execute(meant, verb, line) ==
  LET args == Trim(line)
  IN  CASE verb \in {"help", "status"}             -> Query(meant)
        [] verb = "albums"                         -> List(meant, Albums)
        [] verb = "songs"                          -> Songs(meant, args)
        [] verb = "play"                           -> Play(meant, args)
        [] verb \in {"stop", "pause"}              -> Control(meant, "stopPlayback")
        [] verb = "next"                           -> Control(meant, "nextSong")
        [] verb = "prev"                           -> Control(meant, "prevSong")
        [] verb = "volume"                         -> Volume(meant, args)
        [] verb = "output"                         -> Output(meant, args)
        [] verb \in {"theme", "themes"}            -> Theme(meant, args)
        [] verb \in {"visual", "visuals"}          -> Visual(meant, args)
        [] verb \in {"root", "RootConfig"}         -> Root(meant, args)
        [] verb \in {"quit", "q"}                  -> Quit(meant)
        [] OTHER                                   -> Say(meant, FALSE, args)

-------------------------------------------------------------------------------
(* UserInputs                                                               *)

Room == Len(queue) < MaxQueue

(* Bare words open a guided prompt; that for outputs, if there is one. *)
Guide ==
  /\ mode = "Command" /\ composing = "" /\ ~quitting
  /\ \/ mode' \in {"RootConfig", "ThemeConfig", "VisualsConfig", "Volume"}
     \/ \E devices \in Outputs : mode' = IF devices = <<>> THEN "Command" ELSE "OutputDevice"
  /\ last' = Nobody
  /\ UNCHANGED <<text, composing, queue, volume, promised, quitting>>

(* Bound: text is typed, or given to ctl, while the worker has nothing to   *)
(* do; what it does has nothing to do with the text.                        *)
Type ==
  /\ mode \in Prompts /\ queue = <<>> /\ ~quitting
  /\ \E key \in Keys : /\ Len(text) + Len(key) <= MaxKeys
                       /\ text' = text \o key
  /\ last' = Nobody
  /\ UNCHANGED <<mode, composing, queue, volume, promised, quitting>>

PromptVerb ==
  CASE mode = "RootConfig" -> "root" [] mode = "ThemeConfig" -> "theme"
    [] mode = "OutputDevice" -> "output" [] mode = "VisualsConfig" -> "visual"

Enter ==
  /\ mode \in Prompts /\ text # <<>> /\ Room /\ ~quitting
  /\ Execute(<<text>>, PromptVerb, QuoteArg(text))
  /\ mode' = "Command" /\ text' = <<>>
  /\ UNCHANGED <<composing, volume>>

Escape ==
  /\ mode # "Command" /\ ~quitting
  /\ mode' = "Command" /\ text' = <<>>
  /\ last' = Nobody
  /\ UNCHANGED <<composing, queue, volume, promised, quitting>>

(* Volume mode executes "volume +5" and "volume -5", whatever is answered.  *)
Arrow ==
  /\ mode = "Volume" /\ Room /\ ~quitting
  /\ \E up \in BOOLEAN, target \in 0..100 :
       /\ target \in Targets(TRUE, IF up THEN KeyStep ELSE -KeyStep)
       /\ Enqueue([op |-> "setVolume", percent |-> target])
       /\ promised' = target
  /\ last' = Nobody
  /\ UNCHANGED <<mode, text, composing, volume, quitting>>

(* A title typed after play, as it is, but for blanks around it; a quote in *)
(* front makes it an argument.                                              *)
TypedPlay ==
  /\ composing = "play" /\ Room /\ ~quitting
  /\ LET title == Trim(text)
     IN  Execute(IF title = <<>> \/ title[1] = Quote THEN <<>> ELSE <<title>>, "play", text)
  /\ text' = <<>> /\ composing' = ""
  /\ UNCHANGED <<mode, volume>>

(* A whole line: typed, or a request of ctl, which comes in any mode. *)
Line ==
  /\ composing = "" /\ text = <<>> /\ Room /\ ~quitting
  /\ \E l \in Lines : Execute(<<>>, l.verb, l.args)
  /\ UNCHANGED <<mode, text, composing, volume>>

-------------------------------------------------------------------------------
(* runControlClient(): arguments are quoted, joined, and sent as one line.  *)
(* A root given to ctl starts with a slash here; what is typed may not.     *)

Compose ==
  /\ mode = "Command" /\ queue = <<>> /\ ~quitting
  /\ \/ \E b \in Bytes : /\ composing \in {"", "root"} /\ Len(text) < MaxBytes
                         /\ text' = (IF text = <<>> THEN <<Slash>> ELSE text) \o <<b>>
                         /\ composing' = "root"
     \/ \E key \in Keys : /\ composing \in {"", "play"} /\ Len(text) + Len(key) <= MaxKeys
                          /\ text' = text \o key /\ composing' = "play"
  /\ last' = Nobody
  /\ UNCHANGED <<mode, queue, volume, promised, quitting>>

(* The server reads up to the end of the line. *)
UpToNewline(s) ==
  LET at == {i \in 1..Len(s) : s[i] = Newline}
  IN  IF at = {} THEN s ELSE SubSeq(s, 1, (CHOOSE i \in at : \A j \in at : i <= j) - 1)

Request ==
  /\ composing # "" /\ Room /\ ~quitting
  /\ \/ Execute(<<text>>, composing, UpToNewline(QuoteArg(text)))
     \/ /\ composing = "play"
        /\ \E n \in {<<49>>, <<50>>} :
             Execute(<<text, n>>, "play", UpToNewline(QuoteArg(text) \o <<Blank>> \o QuoteArg(n)))
  /\ text' = <<>> /\ composing' = ""
  /\ UNCHANGED <<mode, volume>>

-------------------------------------------------------------------------------
(* CommandQueue's worker runs what LibraryService has for the command; what *)
(* playback and outputs make of it is in other modules.                     *)

(* Mutant: the newest command first. *)
WorkNewest ==
  /\ queue # <<>>
  /\ LET command == queue[Len(queue)]
     IN  volume' = IF command.op = "setVolume" THEN Clamped(command.percent) ELSE volume
  /\ queue' = SubSeq(queue, 1, Len(queue) - 1)
  /\ last' = Nobody
  /\ UNCHANGED <<mode, text, composing, promised, quitting>>

Work ==
  /\ queue # <<>>
  /\ LET command == Head(queue)
     IN  volume' = IF command.op = "setVolume" THEN Clamped(command.percent) ELSE volume
  /\ queue' = Tail(queue)
  /\ last' = Nobody
  /\ UNCHANGED <<mode, text, composing, promised, quitting>>

Next == Guide \/ Type \/ Enter \/ Escape \/ Arrow \/ TypedPlay \/ Line \/ Compose \/ Request \/ Work

Spec == Init /\ [][Next]_vars

-------------------------------------------------------------------------------
(* What is typed at a prompt, or given to ctl, is what the service is given *)
(* (quoteArg: "Inverse of tokenize for a single argument"): a root as it    *)
(* stands, a title of the library as that album, whatever quotes, blanks,   *)
(* backslashes or digits are in it, as is a title typed as it stands        *)
(* ("names ending in a number still resolve"); with a track it is that one, *)
(* unless there is an album of that whole name.  A line ends at a newline.  *)
WholeName(meant) == Len(meant) = 2 /\ ResolveAlbum(meant[1] \o <<Blank>> \o meant[2]) # 0
TextArrives ==
  LET asked == last.meant
  IN  asked # <<>> /\ ~Holds(asked[1], {Newline}) =>
        /\ last.call.op = "setRootPath" => last.call.path = asked[1]
        /\ last.call.op = "playSong" /\ asked[1] \in {Albums[i] : i \in Loaded}
             => \/ /\ last.call.album = asked[1]
                   /\ last.call.song = IF Len(asked) = 2 THEN Number(asked[2]) - 1 ELSE 0
                \/ WholeName(asked)

(* The path that is scanned is absolute, does not end in a slash, and is    *)
(* well-formed UTF-8, whatever bytes ctl was given (isValidUtf8).           *)
PathIsSound ==
  LET path == last.scanned
  IN  path # <<>> => /\ path[1] = Slash /\ WellFormed(path)
                     /\ Len(path) > 1 => path[Len(path)] # Slash

(* "One-line wire form" (toJson): an answer is one line, and ctl reads from *)
(* it the message that was answered, whatever is in it.                     *)
AnswerReadsBack ==
  last.wire # <<>> => /\ ~Holds(last.wire, {Newline})
                      /\ FindMessage(last.wire) = [some |-> TRUE, value |-> last.message]

(* Once the worker has caught up, the volume is the one last answered,      *)
(* whoever asked: the terminal's arrow keys and ctl in any order, each with *)
(* a volume read while others were still in the queue.                      *)
VolumeSettles ==
  (\A i \in 1..Len(queue) : queue[i].op # "setVolume") => volume = promised
===============================================================================
