# musiTui: specifications

TLA+ models of musiTui (a terminal music player and headless daemon), the TLC
runs that check them and the TLAPS proofs about them. Paths are relative to the
repository root; code lives under `src/`.

## The system

| Part | State | Operations | Runs on |
|---|---|---|---|
| `util/RingBuffer.h` | `buffer_`, `writePos_`, `readPos_` | `write`, `read`, `availableToWrite/Read`, `clear` | decode thread (producer), audio callback (consumer), worker (`clear`, prefill level) |
| `player/DecodeThread` | `running_`, `endOfStream_`, the thread | `start`, `stop`, `decodeLoop` | its own thread; started and stopped by the worker |
| `audio/SdlAudioSink` | device, converter, volume | `open`, `close`, `start`, `stop`, `setSourceFormat`, `setVolume`, `fill` | worker; `fill` on SDL's device thread |
| `player/PlaybackEngine` | `state_`, `decoder_`, `sink_`, `silentCallbacks_`, `samplesPlayed_`, `outputDeviceName_`, `volume_` | `load`, `play`, `pause`, `stop`, `setVolume`, `setOutputDevice`, the frame provider | worker; provider on the device thread; flags read by monitor and UI |
| `player/SongQueue` | `playlist_`, `currentIndex_`, `preWarmedUpTo_` | `loadPlaylist`, `next`, `previous`, `skipTo`, `clear`, the pre-warm loop | worker; pre-warm thread |
| `player/AutoAdvanceManager` | two callbacks, the thread | `start`, `stop`, `monitorLoop` | its own thread |
| `player/PlaybackController` | the three above | `loadAlbum`, `play`, `pause`, `next`, `previous`, `playSongAtIndex`, `handleAutoAdvance` | worker |
| `commands/CommandQueue` | a queue of functions | `enqueue`, `workerLoop` | any thread enqueues, one worker executes |
| `service/LibraryService` (and the Async wrapper) | `library_`, loaders, `dataVersion_` | `playSong` and the other playback commands, `setRootPath`, background load | worker for playback; UI, control and watcher threads for the root; 2–4 loaders |
| `commands/CommandDispatcher` | none | one line of text to one service call | UI thread, or control thread of the daemon |
| `ipc/ControlServer`, `ControlClient` | a Unix socket | bind, accept, serve; request with time limits | control thread; other processes |
| `util/DirectoryWatcher` | last listing | poll, report | its own thread |
| `service/ConfigService` | a text file | `getValue`, `setValue` | all of the above, and other processes |
| `decode/SpectrumAnalyzer` | two staging buffers | `feed`, `updateFromStaging` | audio callback, UI |
| `tui/UserInputs`, `tui/FileManager` | the command line and its prompt; the three lists shown | keys, submit; refresh | UI thread |
| `util/PathValidator`, `util/Json.h` | none | `validate`; quoting and reading of one-line answers | whoever calls |
| `App`, `Daemon`, `PlayerCore` | own everything | construction and destruction | main thread |

A playback command travels: dispatcher or key press → `AsyncLibraryService`
enqueues → the worker runs `LibraryService` → `PlaybackController` → queue and
engine. Audio travels: decoder → decode thread → ring buffer → frame provider →
converter → device, with a copy staged for the spectrum. The end of a song travels
back: callbacks without audio are counted, the monitor polls the count, and enqueues
an advance for the worker. A remote command travels: `ctl` → socket → control thread
→ dispatcher, in `App` by way of the UI thread, and the answer back as one line.

What is hard here: three threads on one buffer without locks; starting, stopping
and replacing devices and decoders while the other threads run; commands that
take a long time while the monitor goes on asking; threads that are joined by a
thread they may be waiting for; a library replaced while others load it and read
it; settings that commands, the watcher and a crash meet in; processes that find
what another left behind; text that is quoted, joined, trimmed and parsed on the
way. `PROJECT.json` lists each hazard at its line, with the properties that cover
it, or why none does.

Correct means, part by part:

* ring buffer: a first-in first-out queue, no slot touched from both sides;
* engine: the device gets the right track's samples in order; nothing is torn
  down under a running thread; no command hangs; sound and state agree;
* controller: queue and engine agree; every song is followed by the next, once;
* library: the albums of one root, none loaded twice, all loaded in the end;
* settings and watcher: no setting lost between commands, the library follows the
  root that is set, as far as names of directories tell;
* socket: clients reach whoever listens, get their own answer, and cannot keep
  anybody waiting for ever;
* text: what is typed arrives as it was meant, and what is answered is read back.

## Modules

| Module | Models | Checked by |
|---|---|---|
| `AudioFifo` | what the ring buffer promises: an atomic bounded FIFO | refined by `RingBuffer` |
| `RingBuffer` | `util/RingBuffer.h` | `ring_buffer`, `RingBufferProofs` |
| `Player` | what the engine promises: load, start, pause, stop, and being over | refined by `PlaybackEngine`, used by `PlaybackControl` |
| `PlaybackEngine` | engine, decode thread and sink together | `playback_engine`, `late_audio_ends_track`, `PlaybackEngineProofs` |
| `PlaybackControl` | controller, song queue with its pre-warm thread, monitor, command queue; the engine is a `Player` | `playback_control`, `advance_twice`, `status_track`, `PlaybackControlProofs` |
| `LibraryLoad` | `setRootPath`, the loaders, `MusicLibrary` | `library_load`, `LibraryProofs` |
| `LibraryView` | `LibraryLoad` and the file manager's refresh | `library_view`, `LibraryProofs` |
| `SpectrumStaging` | the staging buffers of `SpectrumAnalyzer` | `spectrum_staging`, `SpectrumStagingProofs` |
| `RemoteControl` | `ControlServer`, `ControlClient`, the handlers of `App` and `Daemon` | `remote_control`, `RemoteControlProofs` |
| `RootWatch` | `ConfigService`, `DirectoryWatcher`, and how `App` and `Daemon` change the root | `root_watch`, `RootWatchProofs` |
| `CommandText`, `PathCheck` | `CommandDispatcher`'s parsing and quoting and `Json.h`; `PathValidator` | operators used by `Terminal`, `TerminalProofs` |
| `Terminal` | the command line, `ctl`'s line, the dispatcher's verbs, the volume's way through the queue | `terminal`, `TerminalProofs` |

The chain is: `RingBuffer` implements the FIFO that `PlaybackEngine` has as its
`ring`; `PlaybackEngine` implements the `Player` whose actions `PlaybackControl`
uses for `engine_`. Each level is checked, and proved, against the one above, so the
levels can be small.

### RingBuffer

One action per atomic access: the loads at the start of `write` and `read`, each
element of a `memcpy`, the publishing store. A load of the other side's position
(`memory_order_acquire`) may return any value between the last one this side
saw and the current one. Positions are counters that wrap at `Laps * Capacity`,
standing for 2^64 and a power of two. `clear` is allowed only while neither side
is inside; that its callers keep to this is `TearDownIsSafe` of `PlaybackEngine`.

### PlaybackEngine

`wpc` is where the worker is between two calls: `quiet`, `join`, `teardown`
are `stopPlayback`; `open`, `prepare` the rest of `load`; `target`, `prefill`,
`start`, `playing` are `play`; `stopold`, `swap`, `restart` are
`setOutputDevice`. `dpc` is the decode thread, `sinks[s].phase` a callback of sink
`s` in flight. A sink's `left` is what its converter holds. A command whose early
return changes nothing (`play` while playing, `pause` while stopped, choosing the
device in use, a device that does not open) is a stuttering step and has no
action. `heard` is a history variable: how many samples of the track went to a
device, or were lost in the converter of one that was closed.

SDL is outside the repository. The model relies on what the code relies on:
callbacks run under the device lock and not while the device is paused, and
`SDL_PauseAudioDevice` takes that lock. Leaving that out would make
`sink_->stop()` return with a callback in flight. An allocation failure inside
SDL's stream, and hot-unplugging under a running device, are left out. A
converter in the model pulls more than a device buffer and keeps the rest, but
does not change the number of samples. The decoder may return fewer frames than
asked, and none at any point: `decodeFrames` does so at the end and on errors.

### PlaybackControl

The worker's `wpc` names its next step; `loadAlbum`, `loadAndPlaySong`, `next` and
`handleAutoAdvance` take several, and the monitor, the pre-warm thread and the
engine's own turns run between them. `next` and `handleAutoAdvance` differ only in
the event they publish and share their actions. `EngineTurn` is the device thread's
count of silence reaching the threshold, or starting over because audio came after
all. `SwapDevice` has no effect here except to keep the worker busy. Index 0 stands
for `currentIndex_ == -1`.

The position is atomic and `SongQueue::next` moves it past the end and back (`NextSong`,
`StepBack`), which other threads may see in between: its mutex keeps none of them from
reading it. The pre-warm thread (`ppc`) looks at the position and at its mark without the queue's
mutex, and takes the songs ahead one by one; the worker asks it to stop (`pstop`) and
joins it before it replaces the playlist, without holding that mutex.
`PreWarmInPlaylist` says that the songs it is about to open are songs of the
playlist there is, and `CommandsEnd` that the join ends.

### LibraryLoad and LibraryView

`pc` is where a thread is in `setRootPath`, `lpc` where a loader is; each stretch
under `mutex_` is one step, and so is each access to an atomic the others use. The
result of a scan is an input; a loaded album differs from an unloaded one by a
flag. `nextAlbum_` stops at one past the albums, above which nobody tells its
values apart. `LibraryView` adds the file manager: every `dataVersion_.fetch_add`
of `LibraryLoad` becomes a joint step with it, and its refresh takes one step for
the flag, for the version, for each of its three lists, for the version it keeps and
for lowering the flag. Of a version only equality is asked, so two flags stand for
the counter.

`ViewOfVersionCurrent` is about refreshes for a version only. A refresh for the
flag reads the version after the lists and lowers the flag last, so what happens in
between is not shown: the model reaches states where the view stays behind. No
document of the repository says what the view must show, so this is a hazard and
not a finding.

### SpectrumStaging

The audio thread fills the buffer that is not published sample by sample, stores its
length, publishes it and counts it up, each a step; the UI thread loads the count,
the published buffer and its length, each a step, and copies sample by sample. A
sample is the number of the block it came with, so a copy that mixes two blocks
shows. Nothing stops the writer from coming round to the buffer a slow reader is
in; `TornOnlyWhenLapped` says that this takes two new blocks during one read, and
`ShownIsLatest` that a reader that is done has the newest block whole, whichever
way the two met before.

### RemoteControl

Each call on the socket path is a step: the probing `connect`, `unlink`, `bind`,
`listen`, and `close` and `unlink` at the end. An instance may be killed at any
step and leaves its path behind. The control thread's loop, the hand-over to the UI
thread in `App::handleRemote` (a task and a promise) with its time limit, the
client's and the server's time limits, and clients that stop at any step are there;
a time limit may pass whenever what it limits has not happened. A line that comes
in pieces is read in one step; a line beyond the limit is its own kind of request.

Before it touches the socket path a server may fail for want of a wake pipe, of a private
directory or of a path that fits (`Start`): the instance then runs deaf, or not at all.

Two instances that are at the socket at one time may both take it away from the
other: both probe a leftover, both remove it. So `ListenerIsReached` is stated for
histories in which that did not happen (`overlap` is false), and a client connects
only in those. A client that gave up reports that the player did not answer although
the request may still be executed; what it never gets is somebody else's answer
(`OwnAnswer`).

### RootWatch

The root in its three places: the file, the library, and the watcher's last listing.
`setValue` reads the whole file, truncates it and writes it again, each a step, and
the process may die between any two: a crash after the truncation loses the
settings, as the code has it (a hazard; `SettingsKept` is about everything else,
`RootFollowed` about histories in which the setting stays). `Daemon` holds
`dispatchMutex_` over a command and over a rescan, `App` does not.

`disk` has for each root whether it is there, the names of the directories in it
and which of these have music. A scan takes in the directories with music, the
watcher lists the names, music or not, and compares nothing else. `Change` makes
any of this into any other, so names come, go and come back. What the comparison
cannot see is then in the model: music put into a directory that is there already,
a directory that comes and goes around a scan, and two roots whose directories
have the same names. The songs within an album are left to `LibraryLoad`.
A scan of a root that has gone is refused and leaves the library as it is.

`strayed` is a history variable: since the start-up scan, or the last poll that found
other names, something in the saved root has changed, or another root has been saved.
`StaleAfterListing` says that the library is wrong only then: `run()` lists before it
rescans, so whatever changes in between is still ahead of the next poll (as far as it
changes the names), where a listing taken after the rescan would lose it for good. For
`App` it promises the root only: of two overlapping scans there, the older may be
installed last.

`RootFollowed` says that once a root stays saved and its names come to rest, the library
comes to be of that root and stays so, also when a rescan puts back the root it read
before the command. It takes for granted that no other root has the names this one comes
to have. `ContentFollowed` says that in `Daemon` the library comes to show what is there,
or what it lacks has `strayed` and the names are those last listed. The provisos
are not idle, for the code does not keep up without them. The watcher reads and lists the
root before it takes `dispatchMutex_` and rescans that root after it, so a `root` command
in between is undone; the next poll sees the new root, but if both roots have directories
of the same names (a collection and its copy) it finds nothing new and the daemon goes on
showing the old one. No document speaks of this case. Take the second line of
`RootFollowed`'s antecedent down to `[](disk[r].there)`, and TLC finds a history in which
the other root stays.

The root is stored as it was given while the scan trims it. A second process on the
same file is not modelled.

### Terminal, CommandText, PathCheck

Texts are sequences of bytes, because quoting, trimming and UTF-8 are the point
here. `CommandText` has `tokenize`, `quoteArg`, number parsing, the resolution of
albums with a trailing track number, JSON escaping and the reading of `"message"`
from an answer; `PathCheck` has `PathValidator::validate` with the options the
scanner uses, check by check. `Terminal` puts them in order: keys at a prompt or the
words after `ctl` become a line, the dispatcher turns the line into a call of the
service, the call becomes a command for the worker, the answer a line of JSON.
A title typed after `play` is trimmed by the dispatcher before it is looked up, so it
is the trimmed title that was meant; a request with a newline in it is excluded, as a
line ends there. `TextArrives` compares the call with what was meant, `PathIsSound` the path that is
scanned with a definition of well-formed UTF-8 of its own, `AnswerReadsBack` the
message read with the message written (the `data` that queries append behind it are left
out, and lines come to `Execute` with their verb split off), and `VolumeSettles` the engine's volume with
the last answer.

What the models show beside that, listed as hazards: a newline in an argument of
`ctl` cuts the line; two quick `volume +5` count once, but settle at the last answer;
surrogates pass `isValidUtf8`; `volume +2147483647` overflows a signed sum.

## Runs

| Run | Bounds | Shows |
|---|---|---|
| `ring_buffer` | 4 slots, positions wrap after 2 laps, blocks up to 3 | `DataIntact`, `NoDataRace`, `CheckedBlockFits`, and that the buffer is an `AudioFifo` |
| `playback_engine` | 2 tracks of up to 5 samples, ring of 3, chunks of 2, callbacks of 2, pulls of 3, threshold 2, 2 devices, 2 volumes, one out of range (296,632 states) | order of the audio across pauses, device and track changes; safe tear-down; one consumer; sound, volume and device name as the state says; the engine is a `Player`; every command ends; the end of a track is noticed |
| `playback_control` | album of 3, pre-warming 1 ahead, at most 2 commands waiting (90,750 states) | queue and engine agree; the album stays watched; the pre-warm thread stays in the playlist; no deadlock between worker, monitor and pre-warm thread; each song that is over is followed |
| `library_load` | UI thread and watcher, 3 loaders, roots of 3, 1 and 0 albums | one root at a time; loaders belong to the library there is; no album twice; changes of the root end; all albums get loaded |
| `library_view` | the same two threads, 2 loaders, roots of 2 and 1 albums | a refresh for a new version misses nothing |
| `spectrum_staging` | buffers of 2, blocks of 1 or 2, 4 blocks | torn only when lapped twice; the newest block is shown |
| `remote_control` | an `App` and a `Daemon`, 2 clients, 1 place in the backlog (98,959 states) | the listener is reached; own answers; quitting ends; the backlog moves |
| `root_watch` | 2 roots with 1 name, a setting beside them, changes without end, crashes, `App` and `Daemon` (80,944 states) | what is wrong in the library changed after the last listing acted on; settings are kept; the library follows the root, and in `Daemon` the contents, as far as names tell |
| `terminal` | 3 keys of 7 kinds, 5 bytes of 13 kinds, 4 titles, 2 commands queued, `int` scaled to 400 (about 212,000 states) | text, paths, answers and the volume arrive |
| `late_audio_ends_track` | 1 track of up to 3, ring of 3, one device | **violated**: a late decoder ends a track in its middle |
| `advance_twice` | as `playback_control`, 3 commands waiting | **violated**: one finished song, several advances |
| `status_track` | as `playback_control`, 3 commands waiting | **violated**: the track number shown is not the album's |

The bounds are chosen so that sizes do not line up: blocks split at the end of
the ring and exceed it, the last chunk is short, a converter is left with a rest,
the ring is full and empty with every thread waiting on it. Two tracks are enough
to confuse one with another, two devices to swap and to fall back. Places in the
command queue hold the user's and the monitor's commands in either order; one is
kept for the monitor, whose enqueue never waits in the code. Nothing in the code
depends on the number of tracks or devices beyond that. Three loaders and an album
fewer than loaders, or as many, cover both sides of the minimum in
`startBackgroundLoad`. Four blocks bring the writer round to the buffer a reader
holds, and once more. Two clients are one that is served and one that waits or was
given up. Two roots are enough to go from one to the other and back; one name, which comes,
goes and is filled, makes them list alike or not. Two instances are one that finds what
the other left. The bytes of `terminal` are those at the borders of UTF-8's ranges and those that must be escaped.

Deadlock is checked wherever the system may not stop. It may in three runs:
`remote_control` (every process has quit), `spectrum_staging` (the last block was
staged) and `terminal` (it has quit).

The three violated runs are findings, listed with quotes in `PROJECT.json`:

1. `hasReachedEndOfStream` counts silent callbacks and does not ask the decode
   thread. Five callbacks without audio, for whatever reason, end the track.
2. The monitor asks for an advance at every poll until the worker has stopped the
   engine. The handler does not check again. If the worker is busy (opening a
   bluetooth output takes seconds) when a song ends, each poll skips one song.
3. `getCurrentTrackIndex` is a position in the playlist, which starts at the song
   that was chosen; `status` shows it as the track of the album.

## Fairness

* `playback_engine`: the worker, the decode thread and the device thread keep running
  (weak fairness of each), and the worker eventually gets the device lock (strong
  fairness of the three steps that take it): the device thread gives it up while the
  hardware plays a buffer. Nothing is assumed of the user: no command need ever come.
  `EndNoticed` is stated up to the next command, as the code makes no promise against
  a user who changes devices faster than a device asks for audio.
* `playback_control`: worker, monitor and pre-warm thread keep running; nothing of the
  user or of the song.
* `library_load`: the threads in `setRootPath` and the loaders keep running, and a
  thread that waits for `loadControlMutex_` gets it in the end (strong fairness);
  nobody need ever change the root.
* `remote_control`: the threads of an instance keep running, and one that was asked to
  quit does; nothing of the user or of the clients, which may stop anywhere.
* `root_watch`: the threads keep running as long as the process does. In `Daemon` commands may always come first, so what the watcher does is claimed for histories
  in which commands stop.

## Proofs

Eight modules hold proofs, each of one component, for every value of the constants
that satisfies the module's assumptions. Each has an inductive invariant (mostly
`IInv`; several where a property needs more), checked with TLC on the bounds above
before it was proved, and lemmas for the steps. Every safety property and refinement
that a passing run checks is a theorem in one of them.

* **`RingBufferProofs`**, for every capacity, wrap and block size: type correctness,
  `DataIntact`, `NoDataRace`, `CheckedBlockFits`, and `Spec => ImplementsFifo`.
  `DataIntact` is not inductive: a step of a copy needs to know that the copy stays
  within the free slots. `IInv` adds that what each side saw of the other's position
  is between the other's past and present (`Sight`), that the elements copied so far
  by a write are in their slots (`CopiedIn`), and that those copied out by a read are
  the oldest unread ones (`CopiedOut`). Under it are lemmas on positions modulo the
  wrap, which use that the wrap is a multiple of the capacity.
* **`PlaybackEngineProofs`**, for any tracks, devices and sizes of ring, chunk, pull and
  callback: type correctness, `AudioInOrder`, `TearDownIsSafe`, `OneConsumer`,
  `StateMatchesDevice`, `SinkAsChosen`, and `Spec => ImplementsPlayer`. `ControlInv` says
  what each place of the worker means for the others: where the decode thread has been
  joined, where the device is paused with no callback in flight (`Still`), where there
  is a second device. `DataInv` says that the converter, the ring and the decode
  thread's hands hold three adjoining stretches of the loaded track (`Stretch`), and
  that the room for a chunk that was found is still there when it is written. The
  second half rests on the first: nobody touches ring or decoder at a tear-down.
  Stretches are joined and cut by four lemmas on sequences.
* **`PlaybackControlProofs`**, for any album and any distance of pre-warming: type
  correctness, `EngineMatchesQueue`, `AlbumWatched`, `CallbacksHeld`, `PreWarmInPlaylist`.
  `EngineMatchesQueue` holds between commands; `QueueInv` and `EngineInv` say what holds
  in their middle, at each place of the worker. That the pre-warm thread stays in the
  playlist needs `WarmInv`: where the playlist is replaced, that thread has been joined.
* **`LibraryProofs`**, for any number of threads that change the root, any number of
  loaders and any scans: type correctness, `OneRoot`, `LoadersCurrent`, `NoAlbumTwice`.
  That a loader stores an album under the name that is already at its place needs
  `OwnPaths`, the loaders that run were given the paths of the library there is; that
  this survives the replacement of the library needs `Alone`, no loader runs from the
  join to the launch; and that nobody launches any meanwhile needs `Exclusion`, the mutex
  is held by the thread in its critical section. `NumberInv`, on top, says that no two
  loaders at work have the same number, and that an album whose number is not given yet
  is not loaded.
  `LibraryView` is proved beside it: every step with the file manager in the process is a
  step of `LibraryLoad` or leaves it alone (`Spec => LibSpec`), so all this holds there
  too, and `ViewOfVersionCurrent` follows from `ViewInv`: at each place of a refresh for
  a version, what it has read so far is the library's, unless the version has moved or
  somebody is between a change and its announcement (`ReadSoFar`). That a launch of
  loaders changes nothing unannounced rests on `Alone` of the invariant below it.
* **`SpectrumStagingProofs`**, for any size of buffer and number of blocks: type
  correctness, `TornOnlyWhenLapped`, `ShownIsLatest`. The invariant says which block each
  buffer has at each step of the writer (`Staged`), how far the writer may have come
  since the reader looked (`Met`), and that what the reader copied is of the buffer it
  took (`InHand`).
* **`RootWatchProofs`**, for any roots, themes and names, and any changes on disk:
  `SettingsKept`, for which what `setValue` holds in its hand between reading and writing
  is the file with one line changed (`InHand`), and `StaleAfterListing`. The latter
  needs `ListingInv`: what is shown while nobody is at work is as it was listed
  unless something has strayed (`ShownAsListed`), the callback's root and what it has
  found are right under the same proviso (`InCallback`), so is the scan of a command under
  `Daemon`'s mutex (`CommandScan`), and under that mutex a command and a rescan are not
  both between scan and installation (`OneAtATime`).
* **`RemoteControlProofs`**, for any number of instances and clients: `ListenerIsReached`,
  from `SocketInv` (while no two instances have been at the socket at one time, the path
  leads to the instance that has bound it, and one that is about to remove or to bind
  finds no other), and `OwnAnswer`, from `RequestInv` (from `accept` to the answer the
  control thread has one client, and the response it sends is that client's).
* **`TerminalProofs`**, for any keys, titles, themes, devices and requests, of any
  length: `VolumeSettles`, `TextArrives`, `PathIsSound`, `AnswerReadsBack`, and two facts
  about the code's parsers. `MessageReadsBack`: `toJson` makes one line of whatever
  message, and `findString` reads that message from it. `QuotedIsOneToken`: what
  `CommandDispatcher.h` says of `quoteArg`, "Inverse of tokenize for a single argument".
  The state machine adds little to them: `VolumeInv` (the last volume request in the
  queue, or the engine's volume if there is none, is the one last answered) and
  `AnswerInv` (every text is of bytes, every answer the JSON of its message).

  The work is in the recursive functions: the tokenizer, the JSON reader, the UTF-8 check
  and the folds of the community modules. The library's induction theorems take an
  operator and cannot be used, so the module starts from the well-founded order of the
  naturals, as a set of pairs: a non-empty set of naturals has a least element
  (`LeastNatural`), from which come induction over a set (`UpTo`, `DownFrom`) and that
  a recursion forward or to a later place has a solution (`ForwardRecursion`,
  `BackwardRecursion`). With these, the tokenizer is a run of states (`TokensRead`): in
  the quotes, behind a backslash, behind the closing quote, and so on; a quoted text and
  an escaped message are laid out in the line piece by piece (`LaidOut`, `FlattenAt`);
  and the places `isValidUtf8` goes through divide a text into characters (`Divides`),
  none of which goes on with a slash, so that a path is well-formed also when the
  slashes at its end are cut off.

The proofs changed the models in four places. Two arms of `TokenStep` overlapped, where
`CASE` has no defined choice; the code tests for an escape first, and the arms now say so.
`TextArrives` took a typed title with the blanks around it, and excluded newlines in one of
its two parts only. `TerminalAssumption` said nothing of `kThemes`, `kVisuals`, `Outputs` and
`Lines`. The bounds in `IsCharacter` are inequalities, as the prover enumerates intervals.

Only model-checked: all liveness (`CommandsEnd`, `EndNoticed`, `OverIsFollowed`,
`RootChangesEnd`, `AlbumsGetLoaded`, `QuitEnds`, `BacklogMoves`, `RootFollowed`,
`ContentFollowed`: fairness and ENABLED are out of the prover's reach). `Album` titles
with a trailing number that `TextArrives` excepts (`WholeName`) are excepted in the
theorem as well.

## Not modelled, and why

* The decoders are wrappers of vendored libraries; FFT, tempo detection and volume
  mixing are floating-point arithmetic; drawing, scanning and tag reading are input
  and output; the notification bus and the event publisher are a locked vector each.
* Data races on plain strings read by the status command (`outputDeviceName_`,
  `currentAlbumName_`) are listed as a hazard.
* The destruction of `PlayerCore`, where the controller goes while the worker may run
  its last command, and commands still queued at shutdown.
* A second process on the settings file, and a crash inside the write of its lines.
* `SongQueue::isNextSongReady` and `AutoAdvanceManager::setEnabled` have no caller.
* Playing a song of an album that is not loaded (`playSong` decodes it first), and an
  output chosen by its number in a list that has changed since.

## What could come next

1. Shutdown: the destruction order of `PlayerCore` against the worker and the monitor.
2. Two processes on one settings file.
