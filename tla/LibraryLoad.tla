------------------------------ MODULE LibraryLoad ------------------------------
(***************************************************************************)
(* The music library under its writers.  setRootPath() of LibraryService,  *)
(* called by the UI thread (the root command) and by the directory         *)
(* watcher, replaces the whole library by unloaded albums and starts       *)
(* loaders, which replace one album at a time by a loaded one.             *)
(*                                                                         *)
(* Each stretch of code that holds mutex_ is one step.  The atomics        *)
(* cancelLoad_ and nextAlbum_ are sequentially consistent in the code.     *)
(***************************************************************************)
EXTENDS Integers, Sequences

CONSTANTS Setters,      \* the threads that change the root
          LoaderLimit,  \* hardware_concurrency(), clamped to 2..4
          Scans,        \* what a scan may find: albums by path, in order
          NoOne

ASSUME SetterAssumption == NoOne \notin Setters
ASSUME LoaderAssumption == LoaderLimit \in Nat \ {0}

Loaders == 1..LoaderLimit
Albums  == UNION {{s[i] : i \in DOMAIN s} : s \in Scans}
Entry   == [path : Albums, loaded : BOOLEAN]

ASSUME ScansAssumption == Scans \subseteq Seq(Albums)

VARIABLES
  library,     \* library_: albums, each with its path and whether it is loaded
  control,     \* holder of loadControlMutex_
  pc, found,   \* of each setter: where it is, and newLibrary
  cancel,      \* cancelLoad_
  next,        \* nextAlbum_, from 1
  paths,       \* sharedPaths
  lpc, item    \* of each loader: where it is, and i

setterVars == <<control, pc, found>>
loaderVars == <<cancel, next, paths, lpc, item>>
libVars    == <<library, setterVars, loaderVars>>

-------------------------------------------------------------------------------
Skeleton(scan) == [i \in DOMAIN scan |-> [path |-> scan[i], loaded |-> FALSE]]
Names(lib)     == [i \in DOMAIN lib |-> lib[i].path]
States(lib)    == [i \in DOMAIN lib |-> lib[i].loaded]

LibInit ==
  /\ library = <<>>
  /\ control = NoOne
  /\ pc = [t \in Setters |-> "idle"] /\ found = [t \in Setters |-> <<>>]
  /\ cancel = FALSE /\ next = 1 /\ paths = <<>>
  /\ lpc = [w \in Loaders |-> "off"] /\ item = [w \in Loaders |-> 0]

-------------------------------------------------------------------------------
(* setRootPath() on thread t.                                               *)

Goto(t, label) == pc' = [pc EXCEPT ![t] = label]

(* The scan, before any lock.  A path that is not valid changes nothing.    *)
Scan(t, scan) ==
  /\ pc[t] = "idle"
  /\ found' = [found EXCEPT ![t] = scan]
  /\ Goto(t, "lock")
  /\ UNCHANGED <<library, control, loaderVars>>

(* Mutant: loadControlMutex_ is not taken. *)
LockUnheld(t) ==
  /\ pc[t] = "lock"
  /\ cancel' = TRUE
  /\ Goto(t, "join")
  /\ UNCHANGED <<library, control, found, next, paths, lpc, item>>

(* loadControlMutex_, and cancelLoad_ for the loaders of the last root. *)
Lock(t) ==
  /\ pc[t] = "lock" /\ control = NoOne
  /\ control' = t /\ cancel' = TRUE
  /\ Goto(t, "join")
  /\ UNCHANGED <<library, found, next, paths, lpc, item>>

(* Mutant: the loaders are cancelled and not waited for. *)
JoinLoadersDetached(t) ==
  /\ pc[t] = "join"
  /\ Goto(t, "install")
  /\ UNCHANGED <<library, control, found, loaderVars>>

JoinLoaders(t) ==
  /\ pc[t] = "join" /\ \A w \in Loaders : lpc[w] = "off"
  /\ Goto(t, "install")
  /\ UNCHANGED <<library, control, found, loaderVars>>

(* newLibrary is moved from. *)
Install(t) ==
  /\ pc[t] = "install"
  /\ library' = Skeleton(found[t])
  /\ found' = [found EXCEPT ![t] = <<>>]
  /\ Goto(t, "bump")
  /\ UNCHANGED <<control, loaderVars>>

(* dataVersion_ moves, see LibraryView. *)
Announce(t) ==
  /\ pc[t] = "bump"
  /\ Goto(t, "launch")
  /\ UNCHANGED <<library, control, found, loaderVars>>

(* Mutant: the loaders start with the cancellation of the last ones. *)
CancelKept == cancel

CancelAfter == IF library = <<>> THEN cancel ELSE FALSE

(* startBackgroundLoad(): nothing for an empty library, else at most as     *)
(* many loaders as there are albums; and the mutex is released.             *)
Launch(t) ==
  /\ pc[t] = "launch"
  /\ lpc' = [w \in Loaders |-> IF w <= Len(library) THEN "take" ELSE lpc[w]]
  /\ cancel' = CancelAfter
  /\ next' = (IF library = <<>> THEN next ELSE 1)
  /\ paths' = (IF library = <<>> THEN paths ELSE Names(library))
  /\ control' = NoOne
  /\ Goto(t, "flag")
  /\ UNCHANGED <<library, found, item>>

(* The caller goes on: libraryChanged(), or the watcher's callback. *)
Flag(t) ==
  /\ pc[t] = "flag"
  /\ Goto(t, "idle")
  /\ UNCHANGED <<library, control, found, loaderVars>>

-------------------------------------------------------------------------------
(* A loader: take the next number, decode the album, store it, announce it. *)

GotoL(w, label) == lpc' = [lpc EXCEPT ![w] = label]

(* Mutant: the end of the albums is not noticed. *)
NoneLeftLate == FALSE

NoneLeft == next > Len(paths)

(* Mutant: the number is read and not counted up. *)
FetchedKept == next

(* The numbers past the last album are told apart by nobody. *)
Fetched == IF next > Len(paths) THEN next ELSE next + 1

Take(w) ==
  /\ lpc[w] = "take"
  /\ next' = Fetched
  /\ IF NoneLeft \/ cancel
       THEN GotoL(w, "off") /\ UNCHANGED item
       ELSE GotoL(w, "load") /\ item' = [item EXCEPT ![w] = next]
  /\ UNCHANGED <<library, setterVars, cancel, paths>>

Decode(w) ==
  /\ lpc[w] = "load"
  /\ IF cancel THEN GotoL(w, "off") /\ item' = [item EXCEPT ![w] = 0]
               ELSE GotoL(w, "store") /\ UNCHANGED item
  /\ UNCHANGED <<library, setterVars, cancel, next, paths>>

(* Mutants: the album is not announced; the store takes the setters' mutex. *)
AfterStoreSilent == "take"
MayStoreLocked == control = NoOne

AfterStore == "bump"
MayStore   == TRUE

(* library_.replaceAlbum(), which ignores a number out of range. *)
Store(w) ==
  /\ lpc[w] = "store" /\ MayStore
  /\ library' = [i \in DOMAIN library |->
                   IF i = item[w] THEN [path |-> paths[i], loaded |-> TRUE]
                                  ELSE library[i]]
  /\ item' = [item EXCEPT ![w] = 0]
  /\ GotoL(w, AfterStore)
  /\ UNCHANGED <<setterVars, cancel, next, paths>>

AnnounceAlbum(w) ==
  /\ lpc[w] = "bump"
  /\ GotoL(w, "take")
  /\ UNCHANGED <<library, setterVars, cancel, next, paths, item>>

-------------------------------------------------------------------------------
(* The steps by what a reader of the library can notice: none, a new data   *)
(* version, the caller's flag.                                              *)
SetRoot(t) == JoinLoaders(t) \/ Install(t) \/ Launch(t)
Loader(w)  == Take(w) \/ Decode(w) \/ Store(w)

LibNext ==
  \/ \E t \in Setters :
       SetRoot(t) \/ Lock(t) \/ Announce(t) \/ Flag(t) \/ \E scan \in Scans : Scan(t, scan)
  \/ \E w \in Loaders : Loader(w) \/ AnnounceAlbum(w)

LibSpec == LibInit /\ [][LibNext]_libVars

(* Every thread keeps running, and one that waits for loadControlMutex_     *)
(* gets it in the end.                                                      *)
FairLibSpec ==
  /\ LibSpec
  /\ \A t \in Setters :
       WF_libVars(SetRoot(t) \/ Announce(t) \/ Flag(t)) /\ SF_libVars(Lock(t))
  /\ \A w \in Loaders : WF_libVars(Loader(w) \/ AnnounceAlbum(w))

-------------------------------------------------------------------------------
(* Every variable holds a value of its kind, and a loader's number is that  *)
(* of an album.                                                             *)
LibTypeOK ==
  /\ library \in Seq(Entry)
  /\ control \in Setters \cup {NoOne}
  /\ pc \in [Setters -> {"idle", "lock", "join", "install", "bump", "launch", "flag"}]
  /\ found \in [Setters -> Scans \cup {<<>>}]
  /\ cancel \in BOOLEAN
  /\ next \in Nat \ {0}
  /\ paths \in Scans \cup {<<>>}
  /\ lpc \in [Loaders -> {"off", "take", "load", "store", "bump"}]
  /\ item \in [Loaders -> Nat]
  /\ \A w \in Loaders : lpc[w] \in {"load", "store"} => item[w] \in DOMAIN paths

(* The library is one root's, all of it: no loader of an earlier root, and  *)
(* no second change of the root at the same time, puts an album of one root *)
(* among those of another.                                                  *)
OneRoot == Names(library) \in Scans \cup {<<>>}

(* One change of the root at a time (setRootPath): the loaders that run     *)
(* while nobody changes the root were started for the library there is.     *)
LoadersCurrent ==
  \A w \in Loaders :
    (\A t \in Setters : pc[t] \in {"idle", "lock", "flag"}) /\ lpc[w] # "off" =>
      paths = Names(library)

(* No album is decoded twice for one root, whatever order the loaders run   *)
(* in: no two loaders have one number, none has that of a loaded album.     *)
NoAlbumTwice ==
  \A v \in Loaders : lpc[v] \in {"load", "store"} =>
    /\ \A w \in Loaders \ {v} : lpc[w] \in {"load", "store"} => item[v] # item[w]
    /\ ~library[item[v]].loaded

(* A change of the root comes to its end (setRootPath returns), though it   *)
(* waits for the loaders and for the mutex another change may hold.         *)
RootChangesEnd == \A t \in Setters : pc[t] # "idle" ~> pc[t] = "idle"

(* Every album is loaded in the end, unless the root is changed again.      *)
Loaded == \A i \in DOMAIN library : library[i].loaded

AlbumsGetLoaded == ~Loaded ~> Loaded \/ \E t \in Setters : pc[t] # "idle"
================================================================================
