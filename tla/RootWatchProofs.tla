----------------------------- MODULE RootWatchProofs -----------------------------
(***************************************************************************)
(* What RootWatch promises of the settings and of the watcher's listings,  *)
(* for any roots, names and themes, any changes on disk, and a crash at    *)
(* any step.                                                               *)
(*                                                                         *)
(* IInv says what setValue() has in hand: from the read to the write,      *)
(* every setting but the one that is changed.                              *)
(***************************************************************************)
EXTENDS RootWatch, TLAPS

(* The settings as they are to be written. *)
Changed == [settings EXCEPT ![cmd.key] = cmd.value]

InHand ==
  /\ dpc \in {"set", "scanned", "truncate", "write"} => cmd \in Commands
  /\ dpc \in {"truncate", "write"} => entries = Changed
  /\ dpc = "write" => file = Empty
  /\ wpc \in {"call", "scanned"} => root \in Roots

IInv == TypeOK /\ InHand /\ SettingsKept

LEMMA EmptyIsSettings == Empty \in Settings
BY DEF Empty, Settings

(* A command changes one setting to a value it may have. *)
LEMMA ChangeSetting ==
  ASSUME NEW s \in Settings, NEW c \in Commands
  PROVE  [s EXCEPT ![c.key] = c.value] \in Settings
<1>1. CASE c.key = "root"
  <2>1. c.value \in Roots
    BY <1>1 DEF Commands
  <2> QED BY <1>1, <2>1 DEF Settings
<1>2. CASE c.key = "theme"
  <2>1. c.value \in Themes
    BY <1>2 DEF Commands
  <2> QED BY <1>2, <2>1 DEF Settings
<1> QED BY <1>1, <1>2 DEF Commands

LEMMA Scans ==
  ASSUME TypeOK
  PROVE  /\ \A r \in Roots : Scan(r) \in SUBSET (Roots \X Names) /\ Scan(r) \subseteq {r} \X Names
         /\ \A r \in Roots \cup {NoRoot} : Snapshot(r) \in SUBSET Names
<1>1. \A r \in Roots : disk[r].music \subseteq Names /\ disk[r].names \subseteq Names
  BY DEF TypeOK, Directories
<1> QED BY <1>1 DEF Scan, Snapshot

LEMMA RootOfSettings ==
  ASSUME NEW s \in Settings
  PROVE  s.root \in Roots \cup {NoRoot}
BY DEF Settings

LEMMA InitInv == Init => IInv
<1> SUFFICES ASSUME Init PROVE IInv
  OBVIOUS
<1>1. file \in Settings
  BY DEF Init, Settings
<1>3. up \in BOOLEAN /\ strayed \in BOOLEAN /\ headless \in BOOLEAN
  BY DEF Init
<1>4. TypeOK
  BY <1>1, <1>3, EmptyIsSettings DEF Init, TypeOK
<1> QED BY <1>4 DEF Init, IInv, InHand, SettingsKept

LEMMA StartUpInv ==
  ASSUME IInv, StartUp
  PROVE  IInv'
<1> USE DEF IInv, StartUp, commandVars
<1>1. library' \in SUBSET (Roots \X Names)
  BY Scans, RootOfSettings DEF TypeOK
<1> QED BY <1>1 DEF TypeOK, InHand, SettingsKept, Changed

LEMMA CrashInv ==
  ASSUME IInv, Crash
  PROVE  IInv'
<1>1. TypeOK'
  BY EmptyIsSettings DEF IInv, Crash, TypeOK
<1> QED BY <1>1 DEF IInv, Crash, InHand, SettingsKept

LEMMA ChangeInv ==
  ASSUME IInv, NEW r \in Roots, Change(r)
  PROVE  IInv'
<1> USE DEF IInv, Change, commandVars, watchVars
<1>1. disk' \in [Roots -> Directories] /\ strayed' \in BOOLEAN
  BY DEF TypeOK
<1> QED BY <1>1 DEF TypeOK, InHand, SettingsKept, Changed

LEMMA CommandInv ==
  ASSUME IInv, Command
  PROVE  IInv'
<1> USE DEF IInv, Command, watchVars
<1>1. cmd' \in Commands /\ dpc' \in {"scanned", "set"} /\ up
  OBVIOUS
<1>2. scanned' \in SUBSET (Roots \X Names)
  <2>1. PICK c \in Commands : IF c.key = "root" THEN scanned' = Scan(c.value) ELSE scanned' = scanned
    OBVIOUS
  <2>2. c.key = "root" => c.value \in Roots
    BY DEF Commands
  <2> QED BY <2>1, <2>2, Scans DEF TypeOK
<1> QED BY <1>1, <1>2 DEF TypeOK, InHand, SettingsKept

LEMMA InstallRootInv ==
  ASSUME IInv, InstallRoot
  PROVE  IInv'
BY DEF IInv, InstallRoot, watchVars, TypeOK, InHand, SettingsKept

(* setValue(): what is read is what was set, so what is written is too. *)
LEMMA SetReadInv ==
  ASSUME IInv, SetRead
  PROVE  IInv'
<1> USE DEF IInv, SetRead, watchVars
<1>1. cmd \in Commands /\ file = settings
  BY DEF InHand, SettingsKept
<1>2. entries' \in Settings
  BY <1>1, ChangeSetting DEF TypeOK
<1> QED BY <1>1, <1>2 DEF TypeOK, InHand, SettingsKept, Changed

LEMMA SetTruncateInv ==
  ASSUME IInv, SetTruncate
  PROVE  IInv'
BY EmptyIsSettings DEF IInv, SetTruncate, watchVars, TypeOK, InHand, SettingsKept, Changed

LEMMA SetWriteInv ==
  ASSUME IInv, SetWrite
  PROVE  IInv'
<1> USE DEF IInv, SetWrite, watchVars
<1>1. file' = settings' /\ settings' \in Settings
  BY DEF InHand, Changed, TypeOK
<1>2. strayed' \in BOOLEAN
  BY DEF TypeOK
<1> QED BY <1>1, <1>2, EmptyIsSettings DEF TypeOK, InHand, SettingsKept

LEMMA WatchInv ==
  ASSUME IInv, Watch
  PROVE  IInv'
<1> USE DEF IInv, commandVars
<1>1. CASE FirstSnapshot
  <2>1. last' \in SUBSET Names
    BY <1>1, Scans, RootOfSettings DEF FirstSnapshot, TypeOK
  <2> QED BY <1>1, <2>1 DEF FirstSnapshot, TypeOK, InHand, SettingsKept, Changed
<1>2. CASE Poll
  <2>1. last' \in SUBSET Names /\ root' \in Roots
    BY <1>2, Scans, RootOfSettings DEF Poll, TypeOK
  <2> QED BY <1>2, <2>1 DEF Poll, TypeOK, InHand, SettingsKept, Changed
<1>3. CASE Rescan
  <2>1. found' \in SUBSET (Roots \X Names) /\ wpc' \in {"scanned", "sleep"}
        /\ root' \in Roots \cup {NoRoot} /\ (wpc' = "scanned" => root' \in Roots)
    BY <1>3, Scans DEF Rescan, TypeOK, InHand
  <2> QED BY <1>3, <2>1 DEF Rescan, TypeOK, InHand, SettingsKept, Changed
<1>4. CASE InstallRescan
  BY <1>4 DEF InstallRescan, TypeOK, InHand, SettingsKept, Changed
<1> QED BY <1>1, <1>2, <1>3, <1>4 DEF Watch

(* What setValue() has in hand is right at every step. *)
THEOREM Inductive == Spec => []IInv
<1>1. IInv /\ [Next]_vars => IInv'
  <2> SUFFICES ASSUME IInv, [Next]_vars PROVE IInv'
    OBVIOUS
  <2>1. CASE Finish
    BY <2>1, InstallRootInv, SetReadInv, SetTruncateInv, SetWriteInv DEF Finish
  <2>2. CASE UNCHANGED vars
    BY <2>2 DEF IInv, TypeOK, InHand, SettingsKept, Changed, vars, commandVars, watchVars
  <2> QED BY <2>1, <2>2, StartUpInv, CrashInv, ChangeInv, CommandInv, WatchInv DEF Next
<1> QED BY InitInv, <1>1, PTL DEF Spec

(* Changing one setting keeps the others, whatever crashes and rescans come *)
(* between, for any set of settings values.                                 *)
THEOREM SettingsKeptHolds == Spec => []SettingsKept
BY Inductive, PTL DEF IInv
-------------------------------------------------------------------------------
(* What the watcher's listings are worth: as long as the saved root and its *)
(* directory are as they were when they were listed last, what is in hand   *)
(* of that listing is right.                                                *)

(* No command is about to set another root, whose scan is installed. *)
RootStands ==
  dpc \in {"set", "truncate", "write"} /\ cmd.key = "root" => cmd.value = settings.root

(* The library while the watcher has nothing in hand *)
ShownAsListed ==
  LET r == settings.root
  IN  wpc \in {"start", "sleep"} /\ ~strayed /\ RootStands /\ r \in Roots /\ disk[r].there
        => Of(r) /\ (headless => library = Scan(r))

(* The callback: what it was called for, and what its scan found. *)
InCallback ==
  /\ wpc \in {"call", "scanned"} /\ ~strayed => root = settings.root
  /\ wpc = "scanned" /\ ~strayed => found = Scan(root)

(* A command's scan is that of its root; in Daemon, unless the watcher has  *)
(* listed since, it is that of the directory as it is.                      *)
CommandScan ==
  dpc = "scanned" =>
    /\ cmd.key = "root" /\ scanned \subseteq {cmd.value} \X Names
    /\ headless /\ wpc \in {"start", "sleep"} /\ ~strayed /\ cmd.value = settings.root
         => scanned = Scan(cmd.value)

(* dispatchMutex_ *)
OneAtATime == headless /\ wpc = "scanned" => dpc = "idle"

NoneWhenDown == ~up => dpc = "idle" /\ wpc = "off"

ListingInv == ShownAsListed /\ InCallback /\ CommandScan /\ OneAtATime /\ NoneWhenDown

LEMMA StartUpListing ==
  ASSUME IInv, ListingInv, StartUp
  PROVE  ListingInv'
<1>1. dpc = "idle" /\ file = settings
  BY DEF StartUp, ListingInv, NoneWhenDown, IInv, SettingsKept
<1>2. settings.root \in Roots => library' = Scan(settings.root)
  BY <1>1, RootAssumption DEF StartUp
<1>3. ShownAsListed'
  BY <1>2, Scans DEF StartUp, commandVars, ShownAsListed, Of, Scan, IInv
<1> QED BY <1>1, <1>3 DEF StartUp, commandVars, ListingInv, InCallback, CommandScan, OneAtATime, NoneWhenDown

LEMMA CrashListing ==
  ASSUME IInv, Crash
  PROVE  ListingInv'
BY DEF Crash, ListingInv, ShownAsListed, InCallback, CommandScan, OneAtATime, NoneWhenDown

(* A change of the saved root's directory is what strayed is about.         *)
LEMMA ChangeListing ==
  ASSUME IInv, ListingInv, NEW r \in Roots, Change(r)
  PROVE  ListingInv'
<1>1. UNCHANGED <<headless, up, file, library, commandVars, watchVars>>
  BY DEF Change
<1>2. ~strayed' => ~strayed /\ \A q \in Roots : q = settings.root => disk'[q] = disk[q]
  BY DEF Change, IInv, TypeOK
<1>3. ShownAsListed'
  BY <1>1, <1>2 DEF ListingInv, ShownAsListed, RootStands, Of, Scan, commandVars, watchVars
<1>4. InCallback'
  <2>1. wpc \in {"call", "scanned"} => root \in Roots
    BY DEF IInv, InHand
  <2> QED BY <1>1, <1>2, <2>1 DEF ListingInv, InCallback, Scan, commandVars, watchVars
<1>5. CommandScan'
  <2>1. dpc = "scanned" => cmd.value \in Roots
    BY DEF IInv, InHand, Commands, ListingInv, CommandScan
  <2> QED BY <1>1, <1>2, <2>1 DEF ListingInv, CommandScan, Scan, commandVars, watchVars
<1> QED BY <1>1, <1>3, <1>4, <1>5 DEF ListingInv, OneAtATime, NoneWhenDown, commandVars, watchVars

LEMMA CommandListing ==
  ASSUME IInv, ListingInv, Command
  PROVE  ListingInv'
<1> USE DEF watchVars
<1>1. PICK c \in Commands :
        /\ cmd' = c
        /\ IF c.key = "root"
           THEN disk[c.value].there /\ scanned' = Scan(c.value) /\ dpc' = "scanned"
           ELSE dpc' = "set" /\ UNCHANGED scanned
  BY DEF Command
<1>2. /\ up /\ dpc = "idle" /\ (headless => wpc # "scanned")
      /\ UNCHANGED <<headless, up, disk, file, library, entries, settings, watchVars, strayed>>
  BY DEF Command, DispatchFree
<1>3. RootStands /\ Scan(c.value)' = Scan(c.value)
  BY <1>1, <1>2 DEF RootStands, Scan
<1>4. ShownAsListed'
  BY <1>2, <1>3 DEF ListingInv, ShownAsListed, Of, Scan
<1>5. CommandScan'
  <2>1. CASE c.key = "root"
    <3>1. c.value \in Roots
      BY <2>1 DEF Commands
    <3> QED BY <1>1, <1>3, <2>1, <3>1, Scans DEF CommandScan, IInv
  <2>2. CASE c.key # "root"
    BY <1>1, <2>2 DEF CommandScan
  <2> QED BY <2>1, <2>2
<1> QED BY <1>2, <1>4, <1>5 DEF ListingInv, InCallback, OneAtATime, NoneWhenDown, Scan

(* Installed is the root that is going to be set. *)
LEMMA InstallRootListing ==
  ASSUME IInv, ListingInv, InstallRoot
  PROVE  ListingInv'
<1> USE DEF watchVars
<1>1. /\ dpc = "scanned" /\ library' = scanned /\ dpc' = "set"
      /\ UNCHANGED <<headless, up, disk, file, cmd, scanned, entries, settings, watchVars, strayed>>
  BY DEF InstallRoot
<1>2. cmd.key = "root" /\ scanned \subseteq {cmd.value} \X Names
  BY <1>1 DEF ListingInv, CommandScan
<1>3. ShownAsListed'
  BY <1>1, <1>2 DEF ListingInv, ShownAsListed, CommandScan, RootStands, Of, Scan
<1> QED BY <1>1, <1>3 DEF ListingInv, InCallback, CommandScan, OneAtATime, NoneWhenDown, Scan

(* Writing the settings leaves library and listings; a root that is written *)
(* is the old one, or a change.                                             *)
LEMMA SetListing ==
  ASSUME IInv, ListingInv, SetRead \/ SetTruncate \/ SetWrite
  PROVE  ListingInv'
<1> USE DEF watchVars
<1>1. /\ UNCHANGED <<headless, up, disk, library, watchVars>>
      /\ dpc \in {"set", "truncate", "write"} /\ dpc' \in {"truncate", "write", "idle"}
      /\ ~strayed' => ~strayed /\ settings'.root = settings.root
  <2>1. CASE SetRead
    BY <2>1 DEF SetRead
  <2>2. CASE SetTruncate
    BY <2>2 DEF SetTruncate
  <2>3. CASE SetWrite
    BY <2>3 DEF SetWrite
  <2> QED BY <2>1, <2>2, <2>3
<1>2. ~strayed' /\ RootStands' => RootStands
  <2>1. CASE SetRead \/ SetTruncate
    BY <2>1 DEF SetRead, SetTruncate, RootStands
  <2>2. CASE SetWrite
    <3>1. /\ cmd \in Commands /\ dpc = "write" /\ settings \in Settings
          /\ settings' = [settings EXCEPT ![cmd.key] = cmd.value]
      BY <2>2 DEF IInv, InHand, TypeOK, SetWrite
    <3>2. cmd.key = "root" => settings'.root = cmd.value
      BY <3>1 DEF Settings
    <3> QED BY <1>1, <3>2 DEF RootStands
  <2> QED BY <2>1, <2>2
<1>3. ShownAsListed'
  BY <1>1, <1>2 DEF ListingInv, ShownAsListed, Of, Scan
<1>4. InCallback'
  BY <1>1 DEF ListingInv, InCallback, Scan
<1>5. up
  BY <1>1 DEF ListingInv, NoneWhenDown
<1> QED BY <1>1, <1>3, <1>4, <1>5 DEF ListingInv, CommandScan, OneAtATime, NoneWhenDown

(* A poll that finds other names lists the saved root as it is. *)
LEMMA ListingListing ==
  ASSUME IInv, ListingInv, FirstSnapshot \/ Poll
  PROVE  ListingInv'
<1> USE DEF commandVars
<1>1. CASE FirstSnapshot
  BY <1>1 DEF FirstSnapshot, ListingInv, ShownAsListed, RootStands, Of, Scan, InCallback, CommandScan,
     OneAtATime, NoneWhenDown
<1>2. CASE Poll
  <2>1. /\ wpc = "sleep" /\ wpc' = "call" /\ root' = file.root /\ file.root # NoRoot
        /\ UNCHANGED <<headless, up, disk, file, library, commandVars, found>>
    BY <1>2 DEF Poll
  <2>2. dpc # "write" => file = settings
    BY DEF IInv, SettingsKept
  <2>3. dpc # "write"
    BY <2>1 DEF IInv, InHand, Empty
  <2> QED BY <2>1, <2>2, <2>3 DEF ListingInv, ShownAsListed, InCallback, CommandScan, OneAtATime, NoneWhenDown
<1> QED BY <1>1, <1>2

(* A directory that is gone when it is to be scanned was gone when it was   *)
(* listed, or has changed since.                                            *)
LEMMA RescanListing ==
  ASSUME IInv, ListingInv, Rescan
  PROVE  ListingInv'
<1> USE DEF commandVars
<1>1. /\ wpc = "call" /\ root \in Roots /\ (headless => dpc = "idle")
      /\ UNCHANGED <<headless, up, disk, file, library, commandVars, last, strayed>>
  BY DEF Rescan, DispatchFree, IInv, InHand
<1>2. ~strayed => root = settings.root
  BY <1>1 DEF ListingInv, InCallback
<1>3. CASE disk[root].there
  <2>1. found' = Scan(root) /\ wpc' = "scanned" /\ root' = root
    BY <1>3 DEF Rescan
  <2> QED BY <1>1, <1>2, <2>1 DEF ListingInv, ShownAsListed, InCallback, CommandScan, OneAtATime,
       NoneWhenDown, Scan
<1>4. CASE ~disk[root].there
  <2>1. wpc' = "sleep"
    BY <1>4 DEF Rescan
  <2>2. ShownAsListed'
    BY <1>1, <1>2, <1>4 DEF ShownAsListed
  <2>3. CommandScan'
    BY <1>1, <2>1 DEF ListingInv, CommandScan
  <2> QED BY <1>1, <2>1, <2>2, <2>3 DEF ListingInv, InCallback, OneAtATime, NoneWhenDown
<1> QED BY <1>3, <1>4

LEMMA InstallRescanListing ==
  ASSUME IInv, ListingInv, InstallRescan
  PROVE  ListingInv'
<1> USE DEF commandVars
<1>1. /\ wpc = "scanned" /\ wpc' = "sleep" /\ library' = found
      /\ UNCHANGED <<headless, up, disk, file, commandVars, last, strayed>>
  BY DEF InstallRescan
<1>2. root \in Roots /\ (headless => dpc = "idle")
  BY <1>1 DEF IInv, InHand, ListingInv, OneAtATime
<1>3. ~strayed => found = Scan(settings.root) /\ root = settings.root
  BY <1>1 DEF ListingInv, InCallback
<1>4. ShownAsListed'
  BY <1>1, <1>2, <1>3, Scans DEF ShownAsListed, Of, Scan, IInv
<1>5. CommandScan'
  BY <1>1, <1>2 DEF ListingInv, CommandScan
<1> QED BY <1>1, <1>2, <1>4, <1>5 DEF ListingInv, InCallback, OneAtATime, NoneWhenDown

(* Last listing, library and settings fit together at every step of a       *)
(* command, of a rescan and of the disk.                                    *)
THEOREM ListingInductive == Spec => [](IInv /\ ListingInv)
<1>1. Init => ListingInv
  BY DEF Init, ListingInv, ShownAsListed, InCallback, CommandScan, OneAtATime, NoneWhenDown
<1>2. IInv /\ ListingInv /\ [Next]_vars => ListingInv'
  <2> SUFFICES ASSUME IInv, ListingInv, [Next]_vars PROVE ListingInv'
    OBVIOUS
  <2>1. CASE Finish
    BY <2>1, InstallRootListing, SetListing DEF Finish
  <2>2. CASE Watch
    BY <2>2, ListingListing, RescanListing, InstallRescanListing DEF Watch
  <2>3. CASE UNCHANGED vars
    BY <2>3 DEF vars, commandVars, watchVars, ListingInv, ShownAsListed, RootStands, Of, Scan, InCallback,
       CommandScan, OneAtATime, NoneWhenDown
  <2> QED BY <2>1, <2>2, <2>3, StartUpListing, CrashListing, ChangeListing, CommandListing DEF Next
<1> QED BY Inductive, <1>1, <1>2, PTL DEF Spec

(* Whatever the library lacks or has too much while the watcher sleeps has  *)
(* changed since the last listing it acted on: for any roots and names, and *)
(* for changes, commands and crashes at any step.                           *)
THEOREM StaleAfterListingHolds == Spec => []StaleAfterListing
<1>1. IInv /\ ListingInv => StaleAfterListing
  <2> SUFFICES ASSUME IInv, ListingInv, wpc = "sleep", dpc = "idle", ~strayed,
                      file.root # NoRoot, disk[file.root].there
               PROVE  Of(file.root) /\ (headless => library = Scan(file.root))
    BY DEF StaleAfterListing
  <2>1. file = settings /\ file.root \in Roots /\ RootStands
    BY RootOfSettings DEF IInv, TypeOK, SettingsKept, RootStands
  <2> QED BY <2>1 DEF ListingInv, ShownAsListed
<1> QED BY <1>1, ListingInductive, PTL
===============================================================================
