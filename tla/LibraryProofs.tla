----------------------------- MODULE LibraryProofs -----------------------------
(***************************************************************************)
(* What LibraryLoad promises for any number of threads that change the     *)
(* root, any number of loaders and any results of the scans.               *)
(*                                                                         *)
(* The invariant is the mutex's: its holder is the thread between taking   *)
(* and releasing it, no loader runs from the join to the launch, and a     *)
(* loader that runs was given the paths of the library there is.           *)
(***************************************************************************)
EXTENDS LibraryView, TLAPS

Holding == {"join", "install", "bump", "launch"}

(* loadControlMutex_ is held by the thread that is in its critical section. *)
Exclusion == \A t \in Setters : pc[t] \in Holding <=> control = t

(* From the join to the launch, no loader runs. *)
Alone ==
  \A t \in Setters : pc[t] \in {"install", "bump", "launch"} =>
    \A w \in Loaders : lpc[w] = "off"

(* The loaders that run were started for the library there is. *)
OwnPaths == \A w \in Loaders : lpc[w] # "off" => paths = Names(library)

IInv == LibTypeOK /\ Exclusion /\ Alone /\ OwnPaths /\ OneRoot

(* A function on 1..n is a sequence. *)
LEMMA FunctionIsSequence ==
  ASSUME NEW S, NEW n \in Nat, NEW f \in [1..n -> S]
  PROVE  f \in Seq(S) /\ DOMAIN f = 1..n /\ Len(f) = n
OBVIOUS

LEMMA SequenceIsFunction ==
  ASSUME NEW S, NEW s \in Seq(S)
  PROVE  /\ Len(s) \in Nat
         /\ DOMAIN s = 1..Len(s)
         /\ \A i \in 1..Len(s) : s[i] \in S
OBVIOUS

(* Skeleton() gives one unloaded album for each path, in order. *)
LEMMA NamesOfSkeleton ==
  ASSUME NEW s \in Seq(Albums)
  PROVE  /\ Skeleton(s) \in Seq(Entry)
         /\ Names(Skeleton(s)) = s
<1> DEFINE n == Len(s)
           e(i) == [path |-> s[i], loaded |-> FALSE]
<1>1. n \in Nat /\ DOMAIN s = 1..n /\ \A i \in 1..n : s[i] \in Albums
  BY SequenceIsFunction
<1>2. Skeleton(s) = [i \in 1..n |-> e(i)]
  BY <1>1 DEF Skeleton
<1>3. \A i \in 1..n : e(i) \in Entry /\ e(i).path = s[i]
  BY <1>1 DEF Entry
<1>4. Skeleton(s) \in [1..n -> Entry]
  <2> HIDE DEF e
  <2> QED BY <1>2, <1>3
<1>5. Names(Skeleton(s)) = [i \in 1..n |-> s[i]]
  <2> HIDE DEF e
  <2> QED BY <1>2, <1>3 DEF Names
<1>6. s = [i \in 1..n |-> s[i]]
  BY <1>1
<1>7. Skeleton(s) \in Seq(Entry)
  <2> HIDE DEF n
  <2> QED BY <1>1, <1>4, FunctionIsSequence
<1> QED BY <1>5, <1>6, <1>7

(* What Store() makes of a library whose loaders have its own paths. *)
Stored(lib, k) ==
  [i \in DOMAIN lib |->
     IF i = k THEN [path |-> Names(lib)[i], loaded |-> TRUE] ELSE lib[i]]

(* Storing an album under its own path leaves the names as they are. *)
LEMMA NamesAfterStore ==
  ASSUME NEW lib \in Seq(Entry), NEW k
  PROVE  /\ Stored(lib, k) \in Seq(Entry)
         /\ Names(Stored(lib, k)) = Names(lib)
<1> DEFINE n == Len(lib)
           new == Stored(lib, k)
<1>1. n \in Nat /\ DOMAIN lib = 1..n /\ \A i \in 1..n : lib[i] \in Entry
  BY SequenceIsFunction
<1>2. \A i \in 1..n : Names(lib)[i] = lib[i].path /\ lib[i].path \in Albums
  BY <1>1 DEF Names, Entry
<1>3. DOMAIN new = 1..n /\ \A i \in 1..n : new[i] \in Entry /\ new[i].path = lib[i].path
  BY <1>1, <1>2 DEF Stored, Entry
<1>4. new \in [1..n -> Entry]
  BY <1>1, <1>3 DEF Stored
<1>5. new \in Seq(Entry)
  <2> HIDE DEF n, new
  <2> QED BY <1>1, <1>4, FunctionIsSequence
<1>6. Names(new) = Names(lib)
  <2> HIDE DEF new
  <2> QED BY <1>1, <1>3 DEF Names
<1> QED BY <1>5, <1>6

LEMMA NamesInSeq ==
  ASSUME NEW lib \in Seq(Entry)
  PROVE  Names(lib) \in Seq(Albums) /\ Len(Names(lib)) = Len(lib)
<1> DEFINE n == Len(lib)
<1>1. n \in Nat /\ DOMAIN lib = 1..n /\ \A i \in 1..n : lib[i] \in Entry
  BY SequenceIsFunction
<1>2. Names(lib) \in [1..n -> Albums]
  BY <1>1 DEF Names, Entry
<1> HIDE DEF n
<1>3. Names(lib) \in Seq(Albums) /\ Len(Names(lib)) = n
  BY <1>1, <1>2, FunctionIsSequence
<1> QED BY <1>3 DEF n

(* Every scan, and the empty one, is a sequence of albums. *)
LEMMA ScansAreSequences ==
  ASSUME NEW s \in Scans \cup {<<>>}
  PROVE  s \in Seq(Albums)
<1>1. CASE s \in Scans
  BY <1>1, ScansAssumption
<1>2. CASE s = <<>>
  BY <1>2
<1> QED BY <1>1, <1>2

LEMMA InitInv == LibInit => IInv
<1> SUFFICES ASSUME LibInit PROVE IInv
  OBVIOUS
<1>1. LibTypeOK
  <2>1. library \in Seq(Entry)
    BY DEF LibInit
  <2>2. next \in Nat \ {0}
    BY DEF LibInit
  <2>3. cancel \in BOOLEAN
    BY Zenon DEF LibInit
  <2> QED BY <2>1, <2>2, <2>3 DEF LibInit, LibTypeOK
<1>2. OneRoot
  BY DEF LibInit, OneRoot, Names
<1> QED BY <1>1, <1>2, SetterAssumption DEF LibInit, IInv, Exclusion, Alone, OwnPaths, Holding

LEMMA StepInv == IInv /\ [LibNext]_libVars => IInv'
<1> SUFFICES ASSUME IInv, [LibNext]_libVars PROVE IInv'
  OBVIOUS
<1> USE SetterAssumption, LoaderAssumption
<1>a. LibTypeOK /\ Exclusion /\ Alone /\ OwnPaths /\ OneRoot
  BY DEF IInv
<1>1. ASSUME NEW t \in Setters, NEW scan \in Scans, Scan(t, scan) PROVE IInv'
  BY <1>a, <1>1 DEF IInv, LibTypeOK, Exclusion, Alone, OwnPaths, OneRoot, Holding,
     Scan, Goto, loaderVars
<1>2. ASSUME NEW t \in Setters, Lock(t) PROVE IInv'
  BY <1>a, <1>2 DEF IInv, LibTypeOK, Exclusion, Alone, OwnPaths, OneRoot, Holding, Lock, Goto
<1>3. ASSUME NEW t \in Setters, JoinLoaders(t) PROVE IInv'
  BY <1>a, <1>3 DEF IInv, LibTypeOK, Exclusion, Alone, OwnPaths, OneRoot, Holding,
     JoinLoaders, Goto, loaderVars
<1>4. ASSUME NEW t \in Setters, Install(t) PROVE IInv'
  <2>1. found[t] \in Seq(Albums) /\ found[t] \in Scans \cup {<<>>}
    BY <1>a, ScansAreSequences DEF LibTypeOK
  <2>2. library' \in Seq(Entry) /\ Names(library') = found[t]
    BY <1>4, <2>1, NamesOfSkeleton DEF Install
  <2>3. \A w \in Loaders : lpc[w] = "off"
    BY <1>a, <1>4 DEF Alone, Install
  <2>4. (LibTypeOK /\ OneRoot)'
    BY <1>a, <1>4, <2>1, <2>2, <2>3 DEF LibTypeOK, OneRoot, Install, Goto, loaderVars
  <2>5. (Exclusion /\ Alone /\ OwnPaths)'
    BY <1>a, <1>4, <2>3 DEF LibTypeOK, Exclusion, Alone, OwnPaths, Holding, Install, Goto, loaderVars
  <2> QED BY <2>4, <2>5 DEF IInv
<1>5. ASSUME NEW t \in Setters, Announce(t) PROVE IInv'
  BY <1>a, <1>5 DEF IInv, LibTypeOK, Exclusion, Alone, OwnPaths, OneRoot, Holding,
     Announce, Goto, loaderVars
<1>6. ASSUME NEW t \in Setters, Launch(t) PROVE IInv'
  <2>1. \A w \in Loaders : lpc[w] = "off"
    BY <1>a, <1>6 DEF Alone, Launch
  <2>2. paths' \in Scans \cup {<<>>}
    BY <1>a, <1>6 DEF LibTypeOK, OneRoot, Launch
  <2>3. \A w \in Loaders : lpc'[w] # "off" => library # <<>>
    BY <1>a, <1>6, <2>1 DEF Launch, Loaders, LibTypeOK
  <2>7. cancel' \in BOOLEAN
    <3>1. cancel \in BOOLEAN /\ (cancel' = cancel \/ cancel' = FALSE)
      BY <1>a, <1>6 DEF LibTypeOK, Launch, CancelAfter
    <3> QED BY <3>1, Zenon
  <2>4. LibTypeOK'
    BY <1>a, <1>6, <2>1, <2>2, <2>7 DEF LibTypeOK, Launch, Goto
  <2>5. (Exclusion /\ Alone)'
    BY <1>a, <1>6 DEF LibTypeOK, Exclusion, Alone, Holding, Launch, Goto
  <2>6. (OwnPaths /\ OneRoot)'
    BY <1>a, <1>6, <2>3 DEF OwnPaths, OneRoot, Launch
  <2> QED BY <2>4, <2>5, <2>6 DEF IInv
<1>7. ASSUME NEW t \in Setters, Flag(t) PROVE IInv'
  BY <1>a, <1>7 DEF IInv, LibTypeOK, Exclusion, Alone, OwnPaths, OneRoot, Holding,
     Flag, Goto, loaderVars
<1>8. ASSUME NEW w \in Loaders, Take(w) PROVE IInv'
  <2>1. paths \in Seq(Albums)
    BY <1>a, ScansAreSequences DEF LibTypeOK
  <2>2. /\ lpc[w] = "take" /\ UNCHANGED <<library, setterVars, cancel, paths>>
        /\ \/ GotoL(w, "off") /\ UNCHANGED item
           \/ ~NoneLeft /\ GotoL(w, "load") /\ item' = [item EXCEPT ![w] = next]
    BY <1>8, Zenon DEF Take
  <2>3. next \in DOMAIN paths \/ NoneLeft
    BY <1>a, <2>1 DEF LibTypeOK, NoneLeft
  <2>4. /\ \A v \in Loaders : v # w => lpc'[v] = lpc[v] /\ item'[v] = item[v]
        /\ lpc'[w] = "off" \/ (lpc'[w] = "load" /\ item'[w] \in DOMAIN paths)
        /\ lpc' \in [Loaders -> {"off", "take", "load", "store", "bump"}]
        /\ item' \in [Loaders -> Nat]
    BY <1>a, <2>2, <2>3 DEF LibTypeOK, GotoL
  <2>5. next' \in Nat \ {0}
    BY <1>a, <1>8 DEF LibTypeOK, Take, Fetched
  <2>6. LibTypeOK'
    BY <1>a, <2>2, <2>4, <2>5 DEF LibTypeOK, setterVars
  <2>7. (Exclusion /\ Alone /\ OwnPaths /\ OneRoot)'
    BY <1>a, <2>2, <2>4 DEF Exclusion, Alone, OwnPaths, OneRoot, setterVars
  <2> QED BY <2>6, <2>7 DEF IInv
<1>9. ASSUME NEW w \in Loaders, Decode(w) PROVE IInv'
  <2>1. \/ GotoL(w, "off") /\ item' = [item EXCEPT ![w] = 0]
        \/ GotoL(w, "store") /\ UNCHANGED item
    BY <1>9, Zenon DEF Decode
  <2>2. lpc[w] = "load" /\ UNCHANGED <<library, setterVars, cancel, next, paths>>
    BY <1>9, Zenon DEF Decode
  <2>3. /\ \A v \in Loaders : v # w => lpc'[v] = lpc[v] /\ item'[v] = item[v]
        /\ lpc'[w] = "off" \/ (lpc'[w] = "store" /\ item'[w] = item[w])
        /\ lpc' \in [Loaders -> {"off", "take", "load", "store", "bump"}]
        /\ item' \in [Loaders -> Nat]
    <3>1. /\ lpc \in [Loaders -> {"off", "take", "load", "store", "bump"}]
          /\ item \in [Loaders -> Nat]
      BY <1>a DEF LibTypeOK
    <3>2. CASE GotoL(w, "off") /\ item' = [item EXCEPT ![w] = 0]
      BY <3>1, <3>2 DEF GotoL
    <3>3. CASE GotoL(w, "store") /\ UNCHANGED item
      BY <3>1, <3>3 DEF GotoL
    <3> QED BY <2>1, <3>2, <3>3
  <2>4. LibTypeOK'
    BY <1>a, <2>2, <2>3 DEF LibTypeOK, setterVars
  <2>5. (Exclusion /\ Alone /\ OwnPaths /\ OneRoot)'
    BY <1>a, <2>2, <2>3 DEF Exclusion, Alone, OwnPaths, OneRoot, setterVars
  <2> QED BY <2>4, <2>5 DEF IInv
<1>10. ASSUME NEW w \in Loaders, Store(w) PROVE IInv'
  <2>1. paths = Names(library) /\ library \in Seq(Entry)
    BY <1>a, <1>10 DEF LibTypeOK, OwnPaths, Store
  <2>2. library' \in Seq(Entry) /\ Names(library') = Names(library)
    <3>1. library' = Stored(library, item[w])
      BY <1>10, <2>1, Zenon DEF Store, Stored
    <3> QED BY <2>1, <3>1, NamesAfterStore
  <2>3. LibTypeOK'
    BY <1>a, <1>10, <2>2 DEF LibTypeOK, Store, GotoL, AfterStore, setterVars
  <2>4. (Exclusion /\ Alone)'
    BY <1>a, <1>10 DEF LibTypeOK, Exclusion, Alone, Store, GotoL, setterVars
  <2>5. (OwnPaths /\ OneRoot)'
    BY <1>a, <1>10, <2>1, <2>2 DEF LibTypeOK, OwnPaths, OneRoot, Store, GotoL
  <2> QED BY <2>3, <2>4, <2>5 DEF IInv
<1>11. ASSUME NEW w \in Loaders, AnnounceAlbum(w) PROVE IInv'
  BY <1>a, <1>11 DEF IInv, LibTypeOK, Exclusion, Alone, OwnPaths, OneRoot,
     AnnounceAlbum, GotoL, setterVars
<1>12. CASE UNCHANGED libVars
  BY <1>a, <1>12 DEF IInv, LibTypeOK, Exclusion, Alone, OwnPaths, OneRoot,
     libVars, setterVars, loaderVars
<1>13. CASE LibNext
  BY <1>13, <1>1, <1>2, <1>3, <1>4, <1>5, <1>6, <1>7, <1>8, <1>9, <1>10, <1>11
     DEF LibNext, SetRoot, Loader
<1> QED BY <1>12, <1>13

(* In every state, the mutex excludes, no loader runs while the library is  *)
(* replaced, and loaders have the paths of the library there is.            *)
THEOREM Inductive == LibSpec => []IInv
BY InitInv, StepInv, PTL DEF LibSpec

(* Every variable holds a value of its kind, a loader's number that of an   *)
(* album of sharedPaths.                                                    *)
THEOREM LibTypeCorrect == LibSpec => []LibTypeOK
<1>1. IInv => LibTypeOK
  BY DEF IInv
<1> QED BY <1>1, Inductive, PTL

(* The albums are those of one scan: setRootPath() and the loaders of an    *)
(* earlier root never mix.                                                  *)
THEOREM OneRootHolds == LibSpec => []OneRoot
<1>1. IInv => OneRoot
  BY DEF IInv
<1> QED BY <1>1, Inductive, PTL

(* Loaders at work outside a change of the root have the library's paths.   *)
THEOREM LoadersCurrentHolds == LibSpec => []LoadersCurrent
<1>1. IInv => LoadersCurrent
  BY DEF IInv, OwnPaths, LoadersCurrent
<1> QED BY <1>1, Inductive, PTL
-------------------------------------------------------------------------------
(* The numbers the loaders take.  What is told of the loaders while they    *)
(* run rests on what is told of the library while there are none: from the  *)
(* installation to the launch, nothing of it is loaded.                     *)

Unloaded(i) == library[i].loaded = FALSE

Busy(w) == lpc[w] \in {"load", "store"}

NumbersApart ==
  \A v \in Loaders : Busy(v) =>
    /\ item[v] < next
    /\ Unloaded(item[v])
    /\ \A w \in Loaders : w # v /\ Busy(w) => item[v] # item[w]

AheadUnloaded ==
  \A w \in Loaders : lpc[w] # "off" =>
    \A i \in DOMAIN library : i >= next => Unloaded(i)

NewUnloaded ==
  \A t \in Setters : pc[t] \in {"bump", "launch"} =>
    \A i \in DOMAIN library : Unloaded(i)

NumberInv == NumbersApart /\ AheadUnloaded /\ NewUnloaded

(* While a loader runs, no setter is between the installation and the launch. *)
LEMMA StoreStep ==
  ASSUME IInv, NumberInv, NEW w \in Loaders, Store(w)
  PROVE  NumberInv'
<1> DEFINE k == item[w]
<1>1. /\ library \in Seq(Entry) /\ lpc \in [Loaders -> {"off", "take", "load", "store", "bump"}]
      /\ item \in [Loaders -> Nat] /\ next \in Nat
  BY DEF IInv, LibTypeOK
<1>2. /\ lpc[w] = "store" /\ lpc' = [lpc EXCEPT ![w] = "bump"] /\ item' = [item EXCEPT ![w] = 0]
      /\ UNCHANGED <<pc, next>>
  BY DEF Store, GotoL, AfterStore, setterVars
<1>3. /\ DOMAIN library' = DOMAIN library
      /\ \A i \in DOMAIN library : i # k => library'[i] = library[i]
  BY DEF Store
<1>4. k < next
  BY <1>2 DEF NumberInv, NumbersApart, Busy
<1>5. \A v \in Loaders : Busy(v)' => v # w /\ Busy(v) /\ item'[v] = item[v]
  BY <1>1, <1>2 DEF Busy
<1>6. \A v \in Loaders : Busy(v) => item[v] \in DOMAIN library
  BY <1>1 DEF IInv, LibTypeOK, OwnPaths, Names, Busy
<1>7. NumbersApart'
  <2>1. \A v \in Loaders : Busy(v)' => item[v] # k /\ item[v] \in DOMAIN library /\ Unloaded(item[v])
    BY <1>2, <1>5, <1>6 DEF NumberInv, NumbersApart, Busy
  <2>2. \A v \in Loaders : Busy(v)' => item'[v] < next' /\ Unloaded(item[v])'
    BY <1>2, <1>3, <1>5, <2>1 DEF NumberInv, NumbersApart, Unloaded
  <2>3. \A v, u \in Loaders : Busy(v)' /\ Busy(u)' /\ u # v => item'[v] # item'[u]
    BY <1>5 DEF NumberInv, NumbersApart
  <2> QED BY <1>5, <2>2, <2>3 DEF NumbersApart, Unloaded
<1>8. AheadUnloaded'
  <2>1. \A i \in DOMAIN library : i >= next => Unloaded(i) /\ i # k
    BY <1>1, <1>2, <1>4 DEF NumberInv, AheadUnloaded
  <2> QED BY <1>2, <1>3, <2>1 DEF AheadUnloaded, Unloaded
<1>9. NewUnloaded'
  BY <1>2 DEF IInv, Alone, NewUnloaded
<1> QED BY <1>7, <1>8, <1>9 DEF NumberInv

LEMMA TakeStep ==
  ASSUME IInv, NumberInv, NEW w \in Loaders, Take(w)
  PROVE  NumberInv'
<1>1. /\ library \in Seq(Entry) /\ lpc \in [Loaders -> {"off", "take", "load", "store", "bump"}]
      /\ item \in [Loaders -> Nat] /\ next \in Nat
  BY DEF IInv, LibTypeOK
<1>2. lpc[w] = "take" /\ UNCHANGED <<library, pc, paths>>
  BY Zenon DEF Take, setterVars
<1>3. \/ ~NoneLeft /\ lpc' = [lpc EXCEPT ![w] = "load"] /\ item' = [item EXCEPT ![w] = next]
      \/ lpc' = [lpc EXCEPT ![w] = "off"] /\ item' = item
  BY Zenon DEF Take, GotoL
<1>4. next' = Fetched
  BY DEF Take
<1>5. paths \in Seq(Albums) /\ paths = Names(library) /\ DOMAIN paths = DOMAIN library
  BY <1>2, ScansAreSequences DEF IInv, LibTypeOK, OwnPaths, Names
<1>6. next' \in Nat /\ next <= next' /\ (~NoneLeft => next < next' /\ next \in DOMAIN library)
  BY <1>1, <1>4, <1>5 DEF Fetched, NoneLeft, IInv, LibTypeOK
<1>7. \A i \in DOMAIN library : i >= next => Unloaded(i)
  BY <1>2 DEF NumberInv, AheadUnloaded
<1>8. \A v \in Loaders : v # w => (Busy(v)' <=> Busy(v)) /\ item'[v] = item[v]
  BY <1>1, <1>3 DEF Busy
<1>9. Busy(w)' => ~NoneLeft /\ item'[w] = next
  BY <1>1, <1>3 DEF Busy
<1>10. NumbersApart'
  <2>1. \A v \in Loaders : v # w /\ Busy(v)' => item'[v] < next /\ Unloaded(item'[v])
    BY <1>8 DEF NumberInv, NumbersApart
  <2>2. Busy(w)' => item'[w] < next' /\ Unloaded(item'[w])
    BY <1>1, <1>6, <1>7, <1>9
  <2>3. \A v \in Loaders : item'[v] \in Nat
    BY <1>1, <1>3
  <2>4. \A v, u \in Loaders : Busy(v)' /\ Busy(u)' /\ u # v => item'[v] # item'[u]
    BY <1>1, <1>8, <1>9, <2>1 DEF NumberInv, NumbersApart
  <2>5. \A v \in Loaders : Busy(v)' => item'[v] < next' /\ Unloaded(item'[v])
    BY <1>1, <1>6, <2>1, <2>2, <2>3
  <2> QED BY <1>2, <2>4, <2>5 DEF NumbersApart, Unloaded
<1>11. AheadUnloaded'
  <2>1. \A i \in DOMAIN library : i \in Nat
    BY <1>1
  <2> QED BY <1>1, <1>2, <1>6, <1>7, <2>1 DEF AheadUnloaded, Unloaded
<1>12. NewUnloaded'
  BY <1>2 DEF NumberInv, NewUnloaded, Unloaded
<1> QED BY <1>10, <1>11, <1>12 DEF NumberInv

LEMMA NumberStep == IInv /\ NumberInv /\ [LibNext]_libVars => NumberInv'
<1> SUFFICES ASSUME IInv, NumberInv, [LibNext]_libVars PROVE NumberInv'
  OBVIOUS
<1> USE DEF setterVars, loaderVars
<1>0. /\ library \in Seq(Entry) /\ pc \in [Setters -> {"idle", "lock", "join", "install", "bump", "launch", "flag"}]
      /\ lpc \in [Loaders -> {"off", "take", "load", "store", "bump"}] /\ item \in [Loaders -> Nat]
  BY DEF IInv, LibTypeOK
(* A setter whose step leaves the loaders and the library as they are. *)
<1>1. ASSUME UNCHANGED <<library, next, lpc, item>>, NEW t \in Setters, NEW to, pc' = [pc EXCEPT ![t] = to],
             to \notin {"bump", "launch"} \/ pc[t] \in {"bump", "launch"}
      PROVE  NumberInv'
  BY <1>0, <1>1 DEF NumberInv, NumbersApart, AheadUnloaded, NewUnloaded, Busy, Unloaded
<1>2. ASSUME NEW t \in Setters, NEW scan \in Scans, Scan(t, scan) PROVE NumberInv'
  BY <1>1, <1>2 DEF Scan, Goto
<1>3. ASSUME NEW t \in Setters, Lock(t) PROVE NumberInv'
  BY <1>1, <1>3 DEF Lock, Goto
<1>4. ASSUME NEW t \in Setters, JoinLoaders(t) PROVE NumberInv'
  BY <1>1, <1>4 DEF JoinLoaders, Goto
<1>5. ASSUME NEW t \in Setters, Install(t) PROVE NumberInv'
  <2>1. \A w \in Loaders : lpc'[w] = "off"
    BY <1>5 DEF IInv, Alone, Install
  <2>2. \A i \in DOMAIN library' : Unloaded(i)'
    BY <1>5 DEF Install, Skeleton, Unloaded
  <2> QED BY <2>1, <2>2 DEF NumberInv, NumbersApart, AheadUnloaded, NewUnloaded, Busy
<1>6. ASSUME NEW t \in Setters, Announce(t) PROVE NumberInv'
  BY <1>1, <1>6 DEF Announce, Goto
<1>7. ASSUME NEW t \in Setters, Launch(t) PROVE NumberInv'
  <2>1. library' = library /\ \A i \in DOMAIN library : Unloaded(i)
    BY <1>7 DEF NumberInv, NewUnloaded, Launch
  <2>2. \A w \in Loaders : lpc'[w] \in {"off", "take"}
    BY <1>0, <1>7 DEF IInv, Alone, Launch
  <2> QED BY <2>1, <2>2 DEF NumberInv, NumbersApart, AheadUnloaded, NewUnloaded, Busy, Unloaded
<1>8. ASSUME NEW t \in Setters, Flag(t) PROVE NumberInv'
  BY <1>1, <1>8 DEF Flag, Goto
<1>9. ASSUME NEW w \in Loaders, Decode(w) PROVE NumberInv'
  <2>1. \/ lpc' = [lpc EXCEPT ![w] = "off"] /\ item' = [item EXCEPT ![w] = 0]
        \/ lpc' = [lpc EXCEPT ![w] = "store"] /\ UNCHANGED item
    BY <1>9, Zenon DEF Decode, GotoL
  <2>2. lpc[w] = "load" /\ UNCHANGED <<library, pc, next>>
    BY <1>9, Zenon DEF Decode
  <2>3. \A v \in Loaders : /\ Busy(v)' => Busy(v) /\ item'[v] = item[v]
                           /\ lpc'[v] # "off" => lpc[v] # "off"
    <3>1. CASE lpc' = [lpc EXCEPT ![w] = "off"] /\ item' = [item EXCEPT ![w] = 0]
      BY <1>0, <2>2, <3>1 DEF Busy
    <3>2. CASE lpc' = [lpc EXCEPT ![w] = "store"] /\ UNCHANGED item
      BY <1>0, <2>2, <3>2 DEF Busy
    <3> QED BY <2>1, <3>1, <3>2
  <2>4. NumbersApart'
    BY <2>2, <2>3 DEF NumberInv, NumbersApart, Unloaded
  <2> QED BY <2>2, <2>3, <2>4 DEF NumberInv, AheadUnloaded, NewUnloaded, Unloaded
<1>10. ASSUME NEW w \in Loaders, AnnounceAlbum(w) PROVE NumberInv'
  <2>1. lpc[w] = "bump" /\ lpc' = [lpc EXCEPT ![w] = "take"] /\ UNCHANGED <<library, pc, next, item>>
    BY <1>10 DEF AnnounceAlbum, GotoL
  <2> QED BY <1>0, <2>1 DEF NumberInv, NumbersApart, AheadUnloaded, NewUnloaded, Busy, Unloaded
<1>11. CASE UNCHANGED libVars
  BY <1>11 DEF libVars, NumberInv, NumbersApart, AheadUnloaded, NewUnloaded, Busy, Unloaded
<1> QED BY <1>2, <1>3, <1>4, <1>5, <1>6, <1>7, <1>8, <1>9, <1>10, <1>11, StoreStep, TakeStep
           DEF LibNext, SetRoot, Loader

(* No album is decoded twice for one root, for any number of loaders. *)
THEOREM NoAlbumTwiceHolds == LibSpec => []NoAlbumTwice
<1>1. LibInit => NumberInv
  BY DEF LibInit, NumberInv, NumbersApart, AheadUnloaded, NewUnloaded, Busy
<1>2. IInv /\ NumberInv => NoAlbumTwice
  <2> SUFFICES ASSUME IInv, NumberInv PROVE NoAlbumTwice
    OBVIOUS
  <2>1. \A v \in Loaders : lpc[v] \in {"load", "store"} =>
          /\ \A w \in Loaders \ {v} : lpc[w] \in {"load", "store"} => item[v] # item[w]
          /\ library[item[v]].loaded = FALSE
    BY DEF NumberInv, NumbersApart, Busy, Unloaded
  <2> QED BY <2>1, Zenon DEF NoAlbumTwice
<1> QED BY Inductive, NumberStep, <1>1, <1>2, PTL DEF LibSpec
-------------------------------------------------------------------------------
(* The file manager beside them (LibraryView).  It disturbs nobody: with it *)
(* the library goes through the steps it goes through alone.                *)

LEMMA ViewStepsLibrary == [Next]_vars => [LibNext]_libVars
BY DEF Next, vars, Quiet, Announcing, Frame, AskFlag, AskVersion, ReadNames, ReadSongs,
   ReadStates, Mark, Unflag, LibNext, libVars

(* Everything told of the library alone is true of it beside the view.      *)
THEOREM ViewImplementsLibrary == Spec => LibSpec
<1>1. Init => LibInit
  BY DEF Init
<1> QED BY <1>1, ViewStepsLibrary, PTL DEF Spec, LibSpec

(* What the view has read so far, at each place of a refresh for a version. *)
(* It is the library's as long as the version did not move, and nobody is   *)
(* between a change and its announcement.                                   *)
Current(names, songs, states) ==
  /\ names  => view.names = Names(library)
  /\ songs  => view.songs = library
  /\ states => view.states = States(library)

ReadSoFar ==
  mode = "version" /\ Announced =>
    /\ rpc = "songs"  /\ ~moved => Current(TRUE, FALSE, FALSE)
    /\ rpc = "states" /\ ~moved => Current(TRUE, TRUE, FALSE)
    /\ rpc = "mark"   /\ ~moved => Current(TRUE, TRUE, TRUE)
    /\ rpc \in {"idle", "version"} /\ ~behind => Current(TRUE, TRUE, TRUE)

(* A refresh made for the flag finds it up to the end, and alone lowers it. *)
FlagHeld ==
  /\ rpc \in {"names", "songs", "states", "mark"} /\ mode = "reload" => reload
  /\ rpc = "unflag" => mode = "reload"

ViewInv == ViewTypeOK /\ FlagHeld /\ ReadSoFar

LEMMA ListsOfLibrary ==
  ASSUME NEW lib \in Seq(Entry)
  PROVE  Names(lib) \in Seq(Albums) /\ States(lib) \in Seq(BOOLEAN)
<1> DEFINE n == Len(lib)
<1>1. n \in Nat /\ DOMAIN lib = 1..n /\ \A i \in 1..n : lib[i] \in Entry
  BY SequenceIsFunction
<1>2. States(lib) \in [1..n -> BOOLEAN]
  <2>1. \A i \in 1..n : lib[i].loaded \in BOOLEAN
    BY <1>1, Zenon DEF Entry
  <2> QED BY <1>1, <2>1, Zenon DEF States
<1> HIDE DEF n
<1> QED BY <1>1, <1>2, FunctionIsSequence, NamesInSeq

(* A step that is not announced changes nothing, or is yet to be announced: *)
(* loaders are launched where none runs, so that none is cut short.         *)
LEMMA QuietStep ==
  ASSUME IInv, Quiet
  PROVE  Announced' => library' = library /\ Announced
<1> USE DEF Announced, setterVars, loaderVars
<1>0. /\ pc \in [Setters -> {"idle", "lock", "join", "install", "bump", "launch", "flag"}]
      /\ lpc \in [Loaders -> {"off", "take", "load", "store", "bump"}]
  BY DEF IInv, LibTypeOK
<1>1. ASSUME NEW t \in Setters, NEW to, to # "bump", pc[t] # "bump", pc' = [pc EXCEPT ![t] = to],
             UNCHANGED <<library, lpc>>
      PROVE  library' = library /\ (Announced' => Announced)
  BY <1>0, <1>1
<1>2. ASSUME NEW t \in Setters, SetRoot(t) \/ Lock(t) PROVE Announced' => library' = library /\ Announced
  <2>1. CASE JoinLoaders(t)
    BY <1>1, <2>1 DEF JoinLoaders, Goto
  <2>2. CASE Install(t)
    BY <1>0, <2>2 DEF Install, Goto
  <2>3. CASE Launch(t)
    <3>1. \A w \in Loaders : lpc[w] = "off"
      BY <2>3 DEF IInv, Alone, Launch
    <3> QED BY <1>0, <2>3, <3>1 DEF Launch, Goto
  <2>4. CASE Lock(t)
    BY <1>1, <2>4 DEF Lock, Goto
  <2> QED BY <1>2, <2>1, <2>2, <2>3, <2>4 DEF SetRoot
<1>3. ASSUME NEW t \in Setters, NEW scan \in Scans, Scan(t, scan) PROVE library' = library /\ (Announced' => Announced)
  BY <1>1, <1>3 DEF Scan, Goto
<1>4. ASSUME NEW w \in Loaders, Loader(w) PROVE Announced' => library' = library /\ Announced
  <2>1. CASE Store(w)
    BY <1>0, <2>1 DEF Store, GotoL, AfterStore
  <2>2. CASE Take(w) \/ Decode(w)
    <3>1. PICK to \in {"off", "load", "store"} : lpc' = [lpc EXCEPT ![w] = to]
      BY <2>2, Zenon DEF Take, Decode, GotoL
    <3>2. lpc[w] # "bump" /\ UNCHANGED <<library, pc>>
      BY <2>2, Zenon DEF Take, Decode
    <3> QED BY <1>0, <3>1, <3>2
  <2> QED BY <1>4, <2>1, <2>2 DEF Loader
<1> QED BY <1>2, <1>3, <1>4 DEF Quiet

(* The renderer's own steps: a refresh reads, one list after another, what  *)
(* is current; the version it keeps is the one it began with.               *)
LEMMA FrameStep ==
  ASSUME LibTypeOK, ViewInv, Frame
  PROVE  ViewInv'
<1> USE DEF ViewInv, ViewTypeOK, FlagHeld, flagVars
<1> DEFINE Views == [names : Seq(Albums), songs : Seq(Entry), states : Seq(BOOLEAN)]
<1>1. UNCHANGED libVars /\ library' = library /\ (Announced' <=> Announced)
  BY DEF Frame, AskFlag, AskVersion, ReadNames, ReadSongs, ReadStates, Mark, Unflag,
     libVars, setterVars, loaderVars, Announced
<1>2. /\ library \in Seq(Entry) /\ Names(library) \in Seq(Albums)
      /\ States(library) \in Seq(BOOLEAN)
  BY ListsOfLibrary DEF LibTypeOK
<1> USE <1>1 DEF ReadSoFar, Current
<1>3. CASE AskFlag
  BY <1>3 DEF AskFlag
<1>4. CASE AskVersion
  BY <1>4 DEF AskVersion, ReasonOfVersion
<1>5. CASE ReadNames
  <2>1. view' \in Views /\ view'.names = Names(library)
    BY <1>2, <1>5 DEF ReadNames
  <2> QED BY <1>5, <2>1 DEF ReadNames
<1>6. CASE ReadSongs
  <2>1. view' \in Views /\ view'.names = view.names /\ view'.songs = library
    BY <1>2, <1>6 DEF ReadSongs
  <2> QED BY <1>6, <2>1 DEF ReadSongs
<1>7. CASE ReadStates
  <2>1. /\ view' \in Views /\ view'.names = view.names /\ view'.songs = view.songs
        /\ view'.states = States(library)
    BY <1>2, <1>7 DEF ReadStates
  <2> QED BY <1>7, <2>1 DEF ReadStates
<1>8. CASE Mark
  BY <1>8 DEF Mark, StillBehind
<1>9. CASE Unflag
  BY <1>9 DEF Unflag
<1> QED BY <1>3, <1>4, <1>5, <1>6, <1>7, <1>8, <1>9 DEF Frame

LEMMA ViewStep == IInv /\ ViewInv /\ [Next]_vars => ViewInv'
<1> SUFFICES ASSUME IInv, ViewInv, [Next]_vars PROVE ViewInv'
  OBVIOUS
<1> USE DEF ViewInv, FlagHeld, viewVars, flagVars
<1>1. CASE Quiet /\ UNCHANGED viewVars
  <2>1. ViewTypeOK'
    BY <1>1 DEF ViewTypeOK
  <2>2. ReadSoFar'
    BY <1>1, QuietStep DEF ReadSoFar, Current
  <2> QED BY <1>1, <2>1, <2>2
(* Whatever was read before an announcement is out of date from then on. *)
<1>2. CASE Announcing /\ BumpVersion
  <2>1. ViewTypeOK'
    BY <1>2 DEF BumpVersion, ViewTypeOK
  <2>2. ReadSoFar'
    BY <1>2 DEF BumpVersion, ReadSoFar
  <2> QED BY <1>2, <2>1, <2>2 DEF BumpVersion
<1>3. CASE (\E t \in Setters : Flag(t)) /\ RaiseFlag
  <2>1. ViewTypeOK'
    BY <1>3 DEF RaiseFlag, ViewTypeOK
  <2>2. PICK t \in Setters : Flag(t)
    BY <1>3
  <2>3. library' = library /\ lpc' = lpc /\ pc[t] = "flag" /\ pc' = [pc EXCEPT ![t] = "idle"]
    BY <2>2 DEF Flag, Goto, loaderVars
  <2>4. Announced' => Announced
    BY <2>3 DEF Announced, IInv, LibTypeOK
  <2>5. ReadSoFar'
    BY <1>3, <2>3, <2>4 DEF RaiseFlag, ReadSoFar, Current
  <2> QED BY <1>3, <2>1, <2>5 DEF RaiseFlag
<1>4. CASE Frame
  BY <1>4, FrameStep DEF IInv
<1>5. CASE UNCHANGED vars
  BY <1>5 DEF vars, libVars, setterVars, loaderVars, ViewTypeOK, ReadSoFar, Current, Announced
<1> QED BY <1>1, <1>2, <1>3, <1>4, <1>5 DEF Next

(* What a refresh has read of an unmoved version is the library's, at every *)
(* place of the refresh, for any number of loaders and of root changes.     *)
THEOREM ViewInductive == Spec => [](IInv /\ ViewInv)
<1>1. Init => ViewInv
  <2> SUFFICES ASSUME Init PROVE ViewInv
    OBVIOUS
  <2>1. view \in [names : Seq(Albums), songs : Seq(Entry), states : Seq(BOOLEAN)]
    BY DEF Init
  <2>2. {behind, moved, reload} \subseteq BOOLEAN
    BY DEF Init
  <2> QED BY <2>1, <2>2 DEF Init, ViewInv, ViewTypeOK, FlagHeld, ReadSoFar
<1> QED BY <1>1, ViewStep, ViewImplementsLibrary, Inductive, PTL DEF Spec

(* The three lists that a refresh for a version left behind are the         *)
(* library's, though each was read on its own while the loaders and another *)
(* change of the root went on.                                              *)
THEOREM ViewOfVersionCurrentHolds == Spec => []ViewOfVersionCurrent
<1>1. ViewInv => ViewOfVersionCurrent
  <2> SUFFICES ASSUME ViewInv, rpc = "idle", mode = "version", ~behind, Announced
               PROVE  view = [names |-> Names(library), songs |-> library, states |-> States(library)]
    BY DEF ViewOfVersionCurrent
  <2>1. view.names = Names(library) /\ view.songs = library /\ view.states = States(library)
    BY DEF ViewInv, ReadSoFar, Current
  <2> QED BY <2>1 DEF ViewInv, ViewTypeOK
<1> QED BY <1>1, ViewInductive, PTL

(* With a file manager in the process, the library still is one root's, and *)
(* no album is decoded twice.                                               *)
THEOREM LibraryBesideView == Spec => [](OneRoot /\ NoAlbumTwice)
BY ViewImplementsLibrary, OneRootHolds, NoAlbumTwiceHolds, PTL
===============================================================================
