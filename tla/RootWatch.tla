------------------------------- MODULE RootWatch -------------------------------
(***************************************************************************)
(* The root directory in its three places: the settings file               *)
(* (ConfigService), the library (LibraryService, here the albums that a    *)
(* scan takes in), and the watcher's last listing (DirectoryWatcher), of   *)
(* which it only knows the names.  Commands change settings and library on *)
(* the dispatcher's thread, the watcher polls and rescans on its own, the  *)
(* directories change, and the process may die and be started again.       *)
(* Daemon keeps commands and rescans apart with dispatchMutex_, App does   *)
(* not.  Bringing a scanned library in is one step here: LibraryLoad has   *)
(* its locks and loaders, which read the songs of each album.              *)
(***************************************************************************)
EXTENDS Naturals

CONSTANTS
  Roots,       \* directories with music in directories below them
  Names,       \* names of such directories, which two roots may share
  Themes,      \* a setting beside the root; the visual is one more
  NoRoot       \* the empty path

ASSUME RootAssumption == NoRoot \notin Roots /\ 0 \notin Themes

VARIABLES
  headless,    \* Daemon, not App
  up,          \* the process runs
  disk,        \* each root: if it is there, what is in it, and what of it has music
  file,        \* the settings file; no line of a key reads as NoRoot or 0
  library,     \* albums shown: root and name
  dpc,         \* dispatcher: idle, scanned, set, truncate, write
  cmd,         \* the setting it changes
  scanned,     \* what its scan found
  entries,     \* entries of setValue()
  wpc,         \* watcher: off, start, sleep, call, scanned
  root,        \* root of run()
  last,        \* last of run(), names
  found,       \* what the scan of its callback found
  settings,    \* history: what the settings were set to
  strayed      \* history: the saved root, or something in it, has changed since
               \* the start-up scan and since the last poll that found other names

commandVars == <<dpc, cmd, scanned, entries, settings>>
watchVars == <<wpc, root, last, found>>
vars == <<headless, up, disk, file, library, commandVars, watchVars, strayed>>

Empty == [root |-> NoRoot, theme |-> 0]
NoCommand == [key |-> "theme", value |-> 0]
Commands == [key : {"root"}, value : Roots] \cup [key : {"theme"}, value : Themes]

(* What a root may be; only of a directory that is there is anything in it. *)
Directories ==
  {d \in [there : BOOLEAN, names : SUBSET Names, music : SUBSET Names] :
     d.music \subseteq d.names /\ (~d.there => d.names = {})}

(* LibraryScanner::scanFromUserInput() of a directory that is there: the    *)
(* directories in it that have music, and no directories, in them.          *)
Scan(r) == {r} \X disk[r].music

(* DirectoryWatcher::snapshot(): the names of the directories in it, music  *)
(* or not; none on an error and none of the empty path.                     *)
Snapshot(r) == IF r = NoRoot THEN {} ELSE disk[r].names

-------------------------------------------------------------------------------
Init ==
  /\ headless \in BOOLEAN
  /\ up = FALSE
  /\ disk \in [Roots -> Directories]
  /\ file \in [root : Roots \cup {NoRoot}, theme : {0}]
  /\ library = {}
  /\ dpc = "idle" /\ cmd = NoCommand /\ scanned = {} /\ entries = Empty
  /\ wpc = "off" /\ root = NoRoot /\ last = {} /\ found = {}
  /\ settings = file /\ strayed = FALSE

-------------------------------------------------------------------------------
(* PlayerCore(): the saved root is scanned before any thread is started.    *)
StartUp ==
  /\ ~up /\ up' = TRUE
  /\ library' = IF file.root = NoRoot THEN {} ELSE Scan(file.root)
  /\ strayed' = FALSE
  /\ wpc' = "start"
  /\ UNCHANGED <<headless, disk, file, commandVars, root, last, found>>

(* What the threads had in hand is gone, and the file is as it is. *)
Crash ==
  /\ up /\ up' = FALSE
  /\ library' = {}
  /\ dpc' = "idle" /\ cmd' = NoCommand /\ scanned' = {} /\ entries' = Empty
  /\ wpc' = "off" /\ root' = NoRoot /\ last' = {} /\ found' = {}
  /\ settings' = file /\ strayed' = FALSE
  /\ UNCHANGED <<headless, disk, file>>

(* Directories come, go and are filled, and any change may be undone. *)
Change(r) ==
  /\ \E d \in Directories \ {disk[r]} : disk' = [disk EXCEPT ![r] = d]
  /\ strayed' = (strayed \/ r = settings.root)
  /\ UNCHANGED <<headless, up, file, library, commandVars, watchVars>>

-------------------------------------------------------------------------------
(* CommandDispatcher::root() and theme(), ConfigService::setValue()         *)

DispatchFree == ~headless \/ (dpc = "idle" /\ wpc # "scanned")

(* A directory that is not there is refused, and nothing is set. *)
Command ==
  /\ up /\ dpc = "idle" /\ DispatchFree
  /\ \E c \in Commands :
       /\ cmd' = c
       /\ IF c.key = "root"
          THEN /\ disk[c.value].there
               /\ scanned' = Scan(c.value)
               /\ dpc' = "scanned"
          ELSE dpc' = "set" /\ UNCHANGED scanned
  /\ UNCHANGED <<headless, up, disk, file, library, entries, settings, watchVars, strayed>>

InstallRoot ==
  /\ dpc = "scanned"
  /\ library' = scanned
  /\ dpc' = "set"
  /\ UNCHANGED <<headless, up, disk, file, cmd, scanned, entries, settings, watchVars, strayed>>

(* Mutant: the file is opened for writing before it is read. *)
SetReadTruncated ==
  /\ dpc = "set"
  /\ entries' = [Empty EXCEPT ![cmd.key] = cmd.value]
  /\ dpc' = "truncate"
  /\ UNCHANGED <<headless, up, disk, file, library, cmd, scanned, settings, watchVars, strayed>>

SetRead ==
  /\ dpc = "set"
  /\ entries' = [file EXCEPT ![cmd.key] = cmd.value]
  /\ dpc' = "truncate"
  /\ UNCHANGED <<headless, up, disk, file, library, cmd, scanned, settings, watchVars, strayed>>

SetTruncate ==
  /\ dpc = "truncate"
  /\ file' = Empty
  /\ dpc' = "write"
  /\ UNCHANGED <<headless, up, disk, library, cmd, scanned, entries, settings, watchVars, strayed>>

(* A file this small is written at once, when it is closed. *)
SetWrite ==
  /\ dpc = "write"
  /\ file' = entries
  /\ settings' = [settings EXCEPT ![cmd.key] = cmd.value]
  /\ strayed' = (strayed \/ settings'.root # settings.root)
  /\ dpc' = "idle" /\ cmd' = NoCommand /\ scanned' = {} /\ entries' = Empty
  /\ UNCHANGED <<headless, up, disk, library, watchVars>>

-------------------------------------------------------------------------------
(* DirectoryWatcher::run() *)

FirstSnapshot ==
  /\ wpc = "start"
  /\ last' = Snapshot(file.root)
  /\ wpc' = "sleep"
  /\ UNCHANGED <<headless, up, disk, file, library, commandVars, root, found, strayed>>

(* Mutant: only a new name is news. *)
PollAdded ==
  /\ wpc = "sleep"
  /\ LET r == file.root
     IN  /\ r # NoRoot
         /\ ~(Snapshot(r) \subseteq last)
         /\ last' = Snapshot(r) /\ root' = r
         /\ strayed' = FALSE
         /\ wpc' = "call"
  /\ UNCHANGED <<headless, up, disk, file, library, commandVars, found>>

(* A poll that finds no root, or the same names, changes nothing. *)
Poll ==
  /\ wpc = "sleep"
  /\ LET r == file.root
     IN  /\ r # NoRoot
         /\ Snapshot(r) # last
         /\ last' = Snapshot(r) /\ root' = r
         /\ strayed' = FALSE
         /\ wpc' = "call"
  /\ UNCHANGED <<headless, up, disk, file, library, commandVars, found>>

(* Mutant: the callback of Daemon takes no lock. *)
RescanUnlocked ==
  /\ wpc = "call"
  /\ IF disk[root].there
     THEN found' = Scan(root) /\ wpc' = "scanned" /\ UNCHANGED root
     ELSE wpc' = "sleep" /\ root' = NoRoot /\ UNCHANGED found
  /\ UNCHANGED <<headless, up, disk, file, library, commandVars, last, strayed>>

(* The callback, under the mutex in Daemon: setRootPath() scans, and leaves *)
(* the library as it is if the directory has gone,                          *)
Rescan ==
  /\ wpc = "call" /\ DispatchFree
  /\ IF disk[root].there
     THEN found' = Scan(root) /\ wpc' = "scanned" /\ UNCHANGED root
     ELSE wpc' = "sleep" /\ root' = NoRoot /\ UNCHANGED found
  /\ UNCHANGED <<headless, up, disk, file, library, commandVars, last, strayed>>

(* Mutant: what is listed last is listed after the rescan. *)
InstallRescanRelisted ==
  /\ wpc = "scanned"
  /\ library' = found
  /\ last' = Snapshot(root) /\ strayed' = (root # settings.root)
  /\ wpc' = "sleep" /\ root' = NoRoot /\ found' = {}
  /\ UNCHANGED <<headless, up, disk, file, commandVars>>

(* and installs. *)
InstallRescan ==
  /\ wpc = "scanned"
  /\ library' = found
  /\ wpc' = "sleep" /\ root' = NoRoot /\ found' = {}
  /\ UNCHANGED <<headless, up, disk, file, commandVars, last, strayed>>

-------------------------------------------------------------------------------
Finish == InstallRoot \/ SetRead \/ SetTruncate \/ SetWrite
Watch == FirstSnapshot \/ Poll \/ Rescan \/ InstallRescan
Next == StartUp \/ Crash \/ (\E r \in Roots : Change(r)) \/ Command \/ Finish \/ Watch

Spec == Init /\ [][Next]_vars

(* Threads keep running as long as the process does.  In Daemon commands    *)
(* may always be there first; that the watcher gets its turn is only        *)
(* claimed once they stop.                                                  *)
FairSpec == Spec /\ WF_vars(Finish) /\ WF_vars(Watch)

-------------------------------------------------------------------------------
Settings == [root : Roots \cup {NoRoot}, theme : Themes \cup {0}]
TypeOK ==
  /\ headless \in BOOLEAN /\ up \in BOOLEAN /\ strayed \in BOOLEAN
  /\ disk \in [Roots -> Directories]
  /\ {file, entries, settings} \subseteq Settings
  /\ {library, scanned, found} \subseteq SUBSET (Roots \X Names)
  /\ last \in SUBSET Names
  /\ dpc \in {"idle", "scanned", "set", "truncate", "write"}
  /\ cmd \in Commands \cup {NoCommand}
  /\ wpc \in {"off", "start", "sleep", "call", "scanned"}
  /\ root \in Roots \cup {NoRoot}

(* Changing one setting keeps the others (setValue: "Read all existing      *)
(* key-value pairs", "Write everything back"): between two commands the     *)
(* file says what was last set, or what it said when the process started.   *)
SettingsKept == dpc # "write" => file = settings

(* What is shown is of r. *)
Of(r) == library \subseteq {r} \X Names

(* run() lists, then rescans: so whatever of the library is wrong while it  *)
(* sleeps changed after the last listing it acted on (or the start-up scan) *)
(* was made, and never between that listing and the rescan only.  What it   *)
(* shows is then of the saved root, and in Daemon, where no command that    *)
(* scanned earlier is installed later, all that is there.                   *)
StaleAfterListing ==
  LET r == file.root
  IN  wpc = "sleep" /\ dpc = "idle" /\ ~strayed /\ r # NoRoot /\ disk[r].there
        => Of(r) /\ (headless => library = Scan(r))

-------------------------------------------------------------------------------
(* Commands stop, the process stays, and what is on disk comes to rest.     *)
Rests(r) == up /\ dpc = "idle" /\ file.root = r
AtRest(r) == <>[]Rests(r) /\ <>[][FALSE]_disk

(* However a command and a rescan overlap, and though a rescan may bring    *)
(* back the root it read before the command: once a root stays set, what is *)
(* shown comes to be of that root, and stays so; if its directory is always *)
(* there and no other has ever the names in it that it comes to have.       *)
RootFollowed ==
  \A r \in Roots, S \in SUBSET Names :
    /\ AtRest(r) /\ <>[](Snapshot(r) = S)
    /\ [](disk[r].there /\ \A q \in Roots \ {r} : Snapshot(q) # S)
    => <>[]Of(r)

(* In Daemon the library also comes to show what is there, but for what the *)
(* comparison of names cannot see: something changed after the last listing *)
(* and the names are again, or still, what they were.                       *)
ContentFollowed ==
  \A r \in Roots :
    AtRest(r) /\ <>[](headless /\ disk[r].there)
      => <>[](library = Scan(r)) \/ <>[](strayed /\ Snapshot(r) = last)
===============================================================================
