--------------------------- MODULE RemoteControlProofs ---------------------------
(***************************************************************************)
(* What RemoteControl promises for any number of instances and clients.    *)
(*                                                                         *)
(* Two invariants.  Of the socket: while no two instances have been at it  *)
(* at one time, an instance from bind() to the removal is the one the path *)
(* leads to, and one that is about to remove or to bind finds no other.    *)
(* Of the requests: the control thread has a client from accept() to the   *)
(* answer, and the answer it sends is that client's.                       *)
(***************************************************************************)
EXTENDS RemoteControl, TLAPS

(* From bind() on, the socket at the path is the instance's own. *)
Owning == {"listen", "up", "stop", "join", "close", "remove"}

OneMoves ==
  \A p, q \in Instances : phase[p] \in Moving /\ phase[q] \in Moving => p = q

OwnersPath == \A p \in Instances : phase[p] \in Owning => path = p

Clear ==
  \A p, q \in Instances :
    phase[p] \in {"unlink", "bind"} => phase[q] \notin {"up", "stop", "join"}

Vacant == \A p \in Instances : phase[p] = "bind" => path = None

SocketTypes ==
  /\ path \in Instances \cup {None, "file"}
  /\ phase \in [Instances -> Moving \cup {"new", "up", "stop", "join", "deaf", "off"}]
  /\ error \in [Instances -> {None, "no place", "not a socket", "another instance", "in use", "vanished"}]

Undisturbed ==
  /\ OneMoves /\ OwnersPath /\ Clear /\ Vacant
  /\ \A p \in Instances : error[p] \notin {"in use", "vanished"}

SocketInv == SocketTypes /\ (~overlap => Undisturbed)

(* Requests and answers *)

Serving == {"read", "wait", "send"}

RequestInv ==
  /\ ctl \in [Instances -> {"off", "check", "poll"} \cup Serving]
  /\ serving \in [Instances -> Clients \cup {None}]
  /\ response \in [Instances -> Clients \cup {None}]
  /\ printed \in [Clients -> Clients \cup {None}]
  /\ backlog \in [Instances -> Seq(Clients)]
  /\ \A p \in Instances : ctl[p] \in Serving => serving[p] \in Clients
  /\ \A p \in Instances : ctl[p] = "send" => response[p] = serving[p]
  /\ OwnAnswer

-------------------------------------------------------------------------------
(* The phases of one instance: the others keep theirs, and unless an        *)
(* overlap is noted no other is in motion when this one gets or stays there.*)
LEMMA GotoPhase ==
  ASSUME SocketInv, NEW p \in Instances, NEW next, Goto(p, next)
  PROVE  /\ phase'[p] = next
         /\ \A q \in Instances : q # p => phase'[q] = phase[q]
         /\ ~overlap' => /\ ~overlap
                         /\ next \in Moving =>
                              \A q \in Instances : q # p => phase[q] \notin Moving
<1>1. phase' = [phase EXCEPT ![p] = next] /\ phase \in [Instances -> Moving \cup {"new", "up", "stop", "join", "deaf", "off"}]
  BY DEF Goto, SocketInv, SocketTypes
<1>2. phase'[p] = next /\ \A q \in Instances : q # p => phase'[q] = phase[q]
  BY <1>1
<1>3. overlap' <=> (overlap \/ (next \in Moving /\ \E q \in Instances \ {p} : phase[q] \in Moving))
  BY DEF Goto
<1>4. ~overlap' => ~overlap
  <2> HIDE DEF SocketInv
  <2> QED BY <1>3, Zenon
<1>5. ~overlap' /\ next \in Moving => \A q \in Instances : q # p => phase[q] \notin Moving
  BY <1>3, Zenon
<1> QED BY <1>2, <1>4, <1>5

(* No other instance is in motion when p gets to the phase next, if that is *)
(* a motion.                                                                *)
Alone(p, next) ==
  next \in Moving => \A q \in Instances : q # p => phase[q] \notin Moving

(* What p does when it gets there fits what the others rely on. *)
Undisturbing(p, next) ==
  /\ next \in Owning => path' = p
  /\ next \in {"up", "stop", "join"} =>
       \A q \in Instances : q # p => phase[q] \notin {"unlink", "bind"}
  /\ next \in {"unlink", "bind"} =>
       \A q \in Instances : q # p => phase[q] \notin {"up", "stop", "join"}
  /\ next = "bind" => path' = None
  /\ \A q \in Instances : q # p /\ phase[q] \in Owning => path' = q
  /\ \A q \in Instances : q # p /\ phase[q] = "bind" => path' = None
  /\ \A q \in Instances : error'[q] \notin {"in use", "vanished"}

(* A step of one instance keeps the invariant of the socket, if it fits as  *)
(* long as nobody is disturbed.                                             *)
LEMMA MovesOn ==
  ASSUME SocketInv, SocketTypes', NEW p \in Instances, NEW next, Goto(p, next),
         Undisturbed /\ Alone(p, next) => Undisturbing(p, next)
  PROVE  SocketInv'
<1>1. ASSUME ~overlap' PROVE Undisturbed'
  <2>1. /\ ~overlap /\ phase'[p] = next
        /\ \A q \in Instances : q # p => phase'[q] = phase[q]
        /\ Alone(p, next)
    BY <1>1, GotoPhase DEF Alone
  <2>2. Undisturbed
    BY <2>1, Zenon DEF SocketInv
  <2>3. Undisturbing(p, next)
    BY <2>1, <2>2
  <2>4. OneMoves'
    BY <2>1, <2>2 DEF Undisturbed, OneMoves, Alone
  <2>5. OwnersPath'
    BY <2>1, <2>2, <2>3 DEF Undisturbing, Undisturbed, OwnersPath
  <2>6. Clear'
    BY <2>1, <2>2, <2>3 DEF Undisturbing, Undisturbed, Clear
  <2>7. Vacant'
    BY <2>1, <2>2, <2>3 DEF Undisturbing, Undisturbed, Vacant
  <2> QED BY <2>3, <2>4, <2>5, <2>6, <2>7 DEF Undisturbed, Undisturbing
<1> QED BY <1>1, Zenon DEF SocketInv

(* A step that changes nothing of the socket keeps its invariant. *)
LEMMA SocketStays ==
  ASSUME SocketInv, UNCHANGED <<path, phase, error, overlap>>
  PROVE  SocketInv'
<1>1. SocketTypes' /\ (Undisturbed => Undisturbed')
  BY DEF SocketInv, SocketTypes, Undisturbed, OneMoves, OwnersPath, Clear, Vacant
<1>2. ~overlap' => ~overlap
  BY Zenon
<1> QED BY <1>1, <1>2, Zenon DEF SocketInv

(* To give up disturbs nobody; a reason that is not to be found while       *)
(* nobody is disturbed is not given then.                                   *)
LEMMA FailSocket ==
  ASSUME SocketInv, NEW p \in Instances,
         NEW why \in {"no place", "not a socket", "another instance", "in use", "vanished"},
         Fail(p, why), path' = path,
         Undisturbed => why \notin {"in use", "vanished"}
  PROVE  SocketInv'
<1> DEFINE next == IF p \in Daemons THEN "off" ELSE "deaf"
<1>1. Goto(p, next) /\ error' = [error EXCEPT ![p] = why] /\ next \in {"off", "deaf"}
  BY DEF Fail
<1>2. SocketTypes'
  BY <1>1 DEF Goto, SocketInv, SocketTypes
<1>3. Undisturbed => Undisturbing(p, next)
  <2> HIDE DEF next
  <2> QED BY <1>1 DEF Undisturbing, Undisturbed, OwnersPath, Vacant, Owning, SocketInv, SocketTypes
<1> HIDE DEF next
<1> QED BY <1>1, <1>2, <1>3, MovesOn

(* bindSocket() and the destructor *)

LEMMA StartSocket ==
  ASSUME SocketInv, NEW p \in Instances, Start(p)
  PROVE  SocketInv'
<1>1. phase[p] = "new" /\ path' = path
  BY DEF Start
<1>2. CASE Goto(p, "lstat") /\ UNCHANGED error
  <2>1. SocketTypes'
    BY <1>1, <1>2 DEF Goto, SocketInv, SocketTypes, Moving
  <2>2. Undisturbed /\ Alone(p, "lstat") => Undisturbing(p, "lstat")
    BY <1>1, <1>2, ProcessAssumption
       DEF Undisturbed, OneMoves, OwnersPath, Clear, Vacant, Alone, Undisturbing, Owning, Moving
  <2> QED BY <1>2, <2>1, <2>2, MovesOn
<1>3. CASE Fail(p, "no place")
  BY <1>1, <1>3, FailSocket
<1> QED BY <1>2, <1>3 DEF Start

LEMMA LstatSocket ==
  ASSUME SocketInv, NEW p \in Instances, Lstat(p)
  PROVE  SocketInv'
<1>1. phase[p] = "lstat" /\ path' = path
  BY DEF Lstat
<1>2. CASE path = None
  <2>1. Goto(p, "bind") /\ error' = error
    BY <1>2, ProcessAssumption DEF Lstat
  <2>2. SocketTypes'
    BY <1>1, <2>1 DEF Goto, SocketInv, SocketTypes, Moving
  <2>3. Undisturbed /\ Alone(p, "bind") => Undisturbing(p, "bind")
    BY <1>1, <1>2, <2>1, ProcessAssumption
       DEF Undisturbed, OneMoves, OwnersPath, Clear, Vacant, Alone, Undisturbing, Owning, Moving
  <2> QED BY <2>1, <2>2, <2>3, MovesOn
<1>3. CASE path # None /\ path = "file"
  <2>1. Fail(p, "not a socket")
    BY <1>3 DEF Lstat
  <2> QED BY <1>1, <2>1, FailSocket
<1>4. CASE path # None /\ path # "file"
  <2>1. Goto(p, "probe") /\ error' = error
    BY <1>4 DEF Lstat
  <2>2. SocketTypes'
    BY <1>1, <2>1 DEF Goto, SocketInv, SocketTypes, Moving
  <2>3. Undisturbed /\ Alone(p, "probe") => Undisturbing(p, "probe")
    BY <1>1, <2>1
       DEF Undisturbed, OneMoves, OwnersPath, Clear, Vacant, Alone, Undisturbing, Owning, Moving
  <2> QED BY <2>1, <2>2, <2>3, MovesOn
<1> QED BY <1>2, <1>3, <1>4

(* An instance that does not answer is nobody who is up: the path would     *)
(* lead to that one.                                                        *)
LEMMA ProbeSocket ==
  ASSUME SocketInv, NEW p \in Instances, Probe(p)
  PROVE  SocketInv'
<1>1. phase[p] = "probe" /\ path' = path
  BY DEF Probe
<1>2. CASE path \in Instances /\ Listening(path)
  <2>1. Fail(p, "another instance")
    BY <1>2 DEF Probe
  <2> QED BY <1>1, <2>1, FailSocket
<1>3. CASE ~(path \in Instances /\ Listening(path))
  <2>1. Goto(p, "unlink") /\ error' = error
    BY <1>3 DEF Probe
  <2>2. SocketTypes'
    BY <1>1, <2>1 DEF Goto, SocketInv, SocketTypes, Moving
  <2>3. Undisturbed /\ Alone(p, "unlink") => Undisturbing(p, "unlink")
    BY <1>1, <1>3, <2>1
       DEF Undisturbed, OneMoves, OwnersPath, Clear, Vacant, Alone, Undisturbing, Owning, Moving, Listening
  <2> QED BY <2>1, <2>2, <2>3, MovesOn
<1> QED BY <1>2, <1>3

LEMMA UnlinkSocket ==
  ASSUME SocketInv, NEW p \in Instances, Unlink(p)
  PROVE  SocketInv'
<1>1. Goto(p, "bind") /\ phase[p] = "unlink" /\ path' = None /\ error' = error
  BY DEF Unlink
<1>2. SocketTypes'
  BY <1>1 DEF Goto, SocketInv, SocketTypes, Moving
<1>3. Undisturbed /\ Alone(p, "bind") => Undisturbing(p, "bind")
  BY <1>1, ProcessAssumption
     DEF Undisturbed, OneMoves, OwnersPath, Clear, Vacant, Alone, Undisturbing, Owning, Moving
<1> QED BY <1>1, <1>2, <1>3, MovesOn

LEMMA BindSocket ==
  ASSUME SocketInv, NEW p \in Instances, Bind(p)
  PROVE  SocketInv'
<1>1. phase[p] = "bind"
  BY DEF Bind
<1>2. CASE path = None
  <2>1. Goto(p, "listen") /\ path' = p /\ error' = error
    BY <1>2 DEF Bind
  <2>2. SocketTypes'
    BY <2>1 DEF Goto, SocketInv, SocketTypes, Moving
  <2>3. Undisturbed /\ Alone(p, "listen") => Undisturbing(p, "listen")
    BY <1>1, <1>2, <2>1, ProcessAssumption
       DEF Undisturbed, OneMoves, OwnersPath, Clear, Vacant, Alone, Undisturbing, Owning, Moving
  <2> QED BY <2>1, <2>2, <2>3, MovesOn
<1>3. CASE path # None
  <2>1. Fail(p, "in use") /\ path' = path
    BY <1>3 DEF Bind
  <2>2. ~Undisturbed
    BY <1>1, <1>3 DEF Undisturbed, Vacant
  <2> QED BY <2>1, <2>2, FailSocket
<1> QED BY <1>2, <1>3

LEMMA ListenSocket ==
  ASSUME SocketInv, NEW p \in Instances, Listen(p)
  PROVE  SocketInv'
<1>1. phase[p] = "listen" /\ path' = path
  BY DEF Listen
<1>2. CASE path = None
  <2>1. Fail(p, "vanished")
    BY <1>2 DEF Listen
  <2>2. ~Undisturbed
    BY <1>1, <1>2, ProcessAssumption DEF Undisturbed, OwnersPath, Owning
  <2> QED BY <1>1, <2>1, <2>2, FailSocket
<1>3. CASE path # None
  <2>1. Goto(p, "up") /\ error' = error
    BY <1>3 DEF Listen
  <2>2. SocketTypes'
    BY <1>1, <2>1 DEF Goto, SocketInv, SocketTypes, Moving
  <2>3. Undisturbed => Undisturbing(p, "up")
    BY <1>1, <1>3, <2>1
       DEF Undisturbed, OneMoves, OwnersPath, Clear, Vacant, Undisturbing, Owning, Moving
  <2> QED BY <2>1, <2>2, <2>3, MovesOn
<1> QED BY <1>2, <1>3

LEMMA LeaveSocket ==
  ASSUME SocketInv, NEW p \in Instances, Leave(p)
  PROVE  SocketInv'
<1> DEFINE next == IF phase[p] = "up" THEN "stop" ELSE "off"
<1>1. Goto(p, next) /\ path' = path /\ error' = error /\ phase[p] \in {"up", "deaf"}
  BY DEF Leave
<1>2. SocketTypes'
  BY <1>1 DEF Goto, SocketInv, SocketTypes
<1>3. Undisturbed => Undisturbing(p, next)
  BY <1>1 DEF Undisturbed, OwnersPath, Clear, Vacant, Undisturbing, Owning
<1> HIDE DEF next
<1> QED BY <1>1, <1>2, <1>3, MovesOn

LEMMA NotifySocket ==
  ASSUME SocketInv, NEW p \in Instances, Notify(p)
  PROVE  SocketInv'
<1>1. Goto(p, "join") /\ phase[p] = "stop" /\ path' = path /\ error' = error
  BY DEF Notify
<1>2. SocketTypes'
  BY <1>1 DEF Goto, SocketInv, SocketTypes, Moving
<1>3. Undisturbed /\ Alone(p, "join") => Undisturbing(p, "join")
  BY <1>1, ProcessAssumption
     DEF Undisturbed, OneMoves, OwnersPath, Clear, Vacant, Alone, Undisturbing, Owning, Moving
<1> QED BY <1>1, <1>2, <1>3, MovesOn

LEMMA JoinSocket ==
  ASSUME SocketInv, NEW p \in Instances, Join(p)
  PROVE  SocketInv'
<1>1. Goto(p, "close") /\ phase[p] = "join" /\ path' = path /\ error' = error
  BY DEF Join
<1>2. SocketTypes'
  BY <1>1 DEF Goto, SocketInv, SocketTypes, Moving
<1>3. Undisturbed /\ Alone(p, "close") => Undisturbing(p, "close")
  BY <1>1, ProcessAssumption
     DEF Undisturbed, OneMoves, OwnersPath, Clear, Vacant, Alone, Undisturbing, Owning, Moving
<1> QED BY <1>1, <1>2, <1>3, MovesOn

LEMMA CloseSocket ==
  ASSUME SocketInv, NEW p \in Instances, Close(p)
  PROVE  SocketInv'
<1>1. Goto(p, "remove") /\ phase[p] = "close" /\ path' = path /\ error' = error
  BY DEF Close
<1>2. SocketTypes'
  BY <1>1 DEF Goto, SocketInv, SocketTypes, Moving
<1>3. Undisturbed /\ Alone(p, "remove") => Undisturbing(p, "remove")
  BY <1>1, ProcessAssumption
     DEF Undisturbed, OneMoves, OwnersPath, Clear, Vacant, Alone, Undisturbing, Owning, Moving
<1> QED BY <1>1, <1>2, <1>3, MovesOn

LEMMA RemoveSocket ==
  ASSUME SocketInv, NEW p \in Instances, Remove(p)
  PROVE  SocketInv'
<1>1. Goto(p, "off") /\ phase[p] = "remove" /\ path' = None /\ error' = error
  BY DEF Remove
<1>2. SocketTypes'
  BY <1>1 DEF Goto, SocketInv, SocketTypes, Moving
<1>3. Undisturbed /\ Alone(p, "off") => Undisturbing(p, "off")
  BY <1>1, ProcessAssumption
     DEF Undisturbed, OneMoves, OwnersPath, Clear, Vacant, Alone, Undisturbing, Owning, Moving
<1> QED BY <1>1, <1>2, <1>3, MovesOn

LEMMA KillSocket ==
  ASSUME SocketInv, NEW p \in Instances, Kill(p)
  PROVE  SocketInv'
<1>1. Goto(p, "off") /\ path' = path /\ error' = error
  BY DEF Kill
<1>2. SocketTypes'
  BY <1>1 DEF Goto, SocketInv, SocketTypes, Moving
<1>3. Undisturbed /\ Alone(p, "off") => Undisturbing(p, "off")
  BY <1>1, ProcessAssumption
     DEF Undisturbed, OneMoves, OwnersPath, Clear, Vacant, Alone, Undisturbing, Owning, Moving
<1> QED BY <1>1, <1>2, <1>3, MovesOn

LEMMA SocketInit == Init => SocketInv
<1> SUFFICES ASSUME Init PROVE SocketInv
  OBVIOUS
<1>1. SocketTypes
  BY DEF Init, SocketTypes
<1>2. Undisturbed
  BY ProcessAssumption
     DEF Init, Undisturbed, OneMoves, OwnersPath, Clear, Vacant, Owning, Moving
<1> QED BY <1>1, <1>2 DEF SocketInv

LEMMA SocketStep == SocketInv /\ [Next]_vars => SocketInv'
<1> SUFFICES ASSUME SocketInv, [Next]_vars PROVE SocketInv'
  OBVIOUS
<1> USE DEF socketVars
<1>1. ASSUME NEW p \in Instances, Main(p) PROVE SocketInv'
  <2>1. CASE RunTask(p)
    BY <2>1, SocketStays DEF RunTask
  <2> QED BY <1>1, <2>1, StartSocket, LstatSocket, ProbeSocket, UnlinkSocket, BindSocket, ListenSocket,
             LeaveSocket, NotifySocket, JoinSocket, CloseSocket, RemoveSocket, KillSocket DEF Main
<1>2. ASSUME NEW p \in Instances, Control(p) PROVE SocketInv'
  BY <1>2, SocketStays DEF Control, Check, Wake, Accept, Turn, ReadLine, ReadTimeout, Handle, Await, AwaitTimeout, Send
<1>3. ASSUME NEW c \in Clients, Ctl(c) PROVE SocketInv'
  BY <1>3, SocketStays DEF Ctl, Connect, SendRequest, NoAnswer
<1>4. CASE UNCHANGED vars
  BY <1>4, SocketStays DEF vars
<1> QED BY <1>1, <1>2, <1>3, <1>4 DEF Next

(* As long as no two instances are at the socket at one time, the path      *)
(* leads to the one that listens and none is kept out, for any number of    *)
(* instances that start, quit and are killed.                               *)
THEOREM ListenerIsReachedHolds == Spec => []ListenerIsReached
<1>1. SocketInv => ListenerIsReached
  <2> SUFFICES ASSUME SocketInv, ~overlap
               PROVE  \A p \in Instances : /\ Listening(p) => path = p
                                           /\ error[p] \notin {"in use", "vanished"}
    BY Zenon DEF ListenerIsReached
  <2>1. Undisturbed
    BY Zenon DEF SocketInv
  <2> QED BY <2>1 DEF Undisturbed, OwnersPath, Owning, Listening
<1> QED BY SocketInit, SocketStep, <1>1, PTL DEF Spec

-------------------------------------------------------------------------------
(* The control thread of one instance *)

LEMMA RequestStays ==
  ASSUME RequestInv, UNCHANGED <<ctl, serving, response, printed, backlog>>
  PROVE  RequestInv'
BY DEF RequestInv, OwnAnswer

(* The thread starts, goes round or ends: it has no client then. *)
LEMMA IdleStep ==
  ASSUME RequestInv, NEW p \in Instances, NEW to \in {"off", "check", "poll"},
         ctl' = [ctl EXCEPT ![p] = to], UNCHANGED <<response, printed, backlog>>,
         serving' = serving \/ serving' = [serving EXCEPT ![p] = None]
  PROVE  RequestInv'
<1>1. ctl' \in [Instances -> {"off", "check", "poll"} \cup Serving]
  BY DEF RequestInv
<1>2. serving' \in [Instances -> Clients \cup {None}]
  BY DEF RequestInv
<1>3. \A q \in Instances : ctl'[q] \in Serving => ctl'[q] = ctl[q] /\ q # p
  BY DEF RequestInv, Serving
<1>4. \A q \in Instances : q # p => serving'[q] = serving[q]
  BY DEF RequestInv
<1> QED BY <1>1, <1>2, <1>3, <1>4 DEF RequestInv, OwnAnswer, Serving

LEMMA AcceptStep ==
  ASSUME RequestInv, NEW p \in Instances, Accept(p)
  PROVE  RequestInv'
<1>1. backlog[p] \in Seq(Clients) /\ backlog[p] # <<>>
  BY DEF Accept, RequestInv
<1>2. Head(backlog[p]) \in Clients /\ Tail(backlog[p]) \in Seq(Clients)
  BY <1>1
<1>3. backlog' \in [Instances -> Seq(Clients)]
  BY <1>2 DEF Accept, RequestInv
<1>4. /\ ctl' = [ctl EXCEPT ![p] = "read"]
      /\ serving' = [serving EXCEPT ![p] = Head(backlog[p])]
      /\ UNCHANGED <<response, printed>>
  BY DEF Accept, clientVars
<1>5. ctl' \in [Instances -> {"off", "check", "poll"} \cup Serving]
  BY <1>4 DEF RequestInv, Serving
<1>6. serving' \in [Instances -> Clients \cup {None}]
  BY <1>2, <1>4 DEF RequestInv
<1>7. \A q \in Instances : ctl'[q] \in Serving => serving'[q] \in Clients
  BY <1>2, <1>4 DEF RequestInv
<1>8. \A q \in Instances : ctl'[q] = "send" => response'[q] = serving'[q]
  BY <1>4 DEF RequestInv
<1> QED BY <1>3, <1>4, <1>5, <1>6, <1>7, <1>8 DEF RequestInv, OwnAnswer

(* The line is read and handed on: the client stays. *)
LEMMA HandleStep ==
  ASSUME RequestInv, NEW p \in Instances, Handle(p)
  PROVE  RequestInv'
<1>1. /\ ctl[p] \in Serving /\ ctl' = [ctl EXCEPT ![p] = "wait"]
      /\ UNCHANGED <<serving, response, printed, backlog>>
  BY DEF Handle, Serving
<1>2. ctl' \in [Instances -> {"off", "check", "poll"} \cup Serving]
  BY <1>1 DEF RequestInv, Serving
<1> QED BY <1>1, <1>2 DEF RequestInv, OwnAnswer

(* A response is the client's own. *)
LEMMA RespondStep ==
  ASSUME RequestInv, NEW p \in Instances,
         ReadLine(p) \/ Await(p) \/ AwaitTimeout(p)
  PROVE  RequestInv'
<1>1. /\ ctl[p] \in Serving
      /\ ctl' = [ctl EXCEPT ![p] = "send"]
      /\ response' = [response EXCEPT ![p] = serving[p]]
      /\ UNCHANGED <<serving, printed, backlog>>
  BY DEF ReadLine, Await, AwaitTimeout, Serving, clientVars
<1>2. ctl' \in [Instances -> {"off", "check", "poll"} \cup Serving]
  BY <1>1 DEF RequestInv, Serving
<1>3. response' \in [Instances -> Clients \cup {None}]
  BY <1>1 DEF RequestInv
<1> QED BY <1>1, <1>2, <1>3 DEF RequestInv, OwnAnswer

(* What is sent to the client that is served is what it prints. *)
LEMMA SendStep ==
  ASSUME RequestInv, NEW p \in Instances, Send(p)
  PROVE  RequestInv'
<1> DEFINE c == serving[p]
<1>1. ctl[p] = "send" /\ c \in Clients /\ response[p] = c
  BY DEF Send, RequestInv, Serving
<1>2. printed' = printed \/ printed' = [printed EXCEPT ![c] = c]
  BY <1>1 DEF Send
<1>3. printed' \in [Clients -> Clients \cup {None}] /\ OwnAnswer'
  BY <1>1, <1>2 DEF RequestInv, OwnAnswer
<1>4. /\ ctl' = [ctl EXCEPT ![p] = "check"]
      /\ serving' = [serving EXCEPT ![p] = None]
      /\ response' = [response EXCEPT ![p] = None]
      /\ backlog' = backlog
  BY DEF Send, Served
<1>5. ctl' \in [Instances -> {"off", "check", "poll"} \cup Serving]
  BY <1>4 DEF RequestInv, Serving
<1>6. /\ serving' \in [Instances -> Clients \cup {None}]
      /\ response' \in [Instances -> Clients \cup {None}]
  BY <1>4 DEF RequestInv
<1>7. \A q \in Instances : ctl'[q] \in Serving => ctl'[q] = ctl[q] /\ q # p
  BY <1>4 DEF RequestInv, Serving
<1>8. \A q \in Instances : q # p => serving'[q] = serving[q] /\ response'[q] = response[q]
  BY <1>4 DEF RequestInv
<1> HIDE DEF c
<1> QED BY <1>3, <1>4, <1>5, <1>6, <1>7, <1>8 DEF RequestInv, Serving

LEMMA KillStep ==
  ASSUME RequestInv, NEW p \in Instances, Kill(p)
  PROVE  RequestInv'
<1>1. /\ ctl' = [ctl EXCEPT ![p] = "off"]
      /\ serving' = [serving EXCEPT ![p] = None]
      /\ response' = [response EXCEPT ![p] = None]
      /\ backlog' = [backlog EXCEPT ![p] = <<>>]
      /\ printed' = printed
  BY DEF Kill, HangUp
<1>2. ctl' \in [Instances -> {"off", "check", "poll"} \cup Serving]
  BY <1>1 DEF RequestInv
<1>3. /\ serving' \in [Instances -> Clients \cup {None}]
      /\ response' \in [Instances -> Clients \cup {None}]
      /\ backlog' \in [Instances -> Seq(Clients)]
  BY <1>1 DEF RequestInv
<1>4. \A q \in Instances : ctl'[q] \in Serving => ctl'[q] = ctl[q] /\ q # p
  BY <1>1 DEF RequestInv, Serving
<1>5. \A q \in Instances : q # p => serving'[q] = serving[q] /\ response'[q] = response[q]
  BY <1>1 DEF RequestInv
<1> QED BY <1>1, <1>2, <1>3, <1>4, <1>5 DEF RequestInv, OwnAnswer, Serving

(* Only the queue of the connections changes. *)
LEMMA BacklogStep ==
  ASSUME RequestInv, backlog' \in [Instances -> Seq(Clients)],
         UNCHANGED <<ctl, serving, response, printed>>
  PROVE  RequestInv'
BY DEF RequestInv, OwnAnswer

LEMMA RequestInit == Init => RequestInv
BY DEF Init, RequestInv, Serving, OwnAnswer

LEMMA RequestStep == RequestInv /\ [Next]_vars => RequestInv'
<1> SUFFICES ASSUME RequestInv, [Next]_vars PROVE RequestInv'
  OBVIOUS
<1> USE DEF socketVars, threadVars, clientVars
<1>1. ASSUME NEW p \in Instances, Main(p) PROVE RequestInv'
  <2>1. CASE Start(p) \/ Lstat(p) \/ Probe(p) \/ Unlink(p) \/ Bind(p)
    BY <2>1, RequestStays DEF Start, Lstat, Probe, Unlink, Bind
  <2>2. CASE Listen(p)
    BY <2>2, RequestStays, IdleStep DEF Listen
  <2>3. CASE Leave(p) \/ Notify(p) \/ Join(p) \/ Remove(p) \/ RunTask(p)
    BY <2>3, RequestStays DEF Leave, Notify, Join, Remove, RunTask
  <2>4. CASE Close(p)
    <3>1. backlog' \in [Instances -> Seq(Clients)]
      BY <2>4 DEF Close, HangUp, RequestInv
    <3> QED BY <2>4, <3>1, BacklogStep DEF Close
  <2> QED BY <1>1, <2>1, <2>2, <2>3, <2>4, KillStep DEF Main
<1>2. ASSUME NEW p \in Instances, Control(p) PROVE RequestInv'
  <2>1. CASE Check(p) \/ Wake(p)
    BY <2>1, IdleStep DEF Check, Wake
  <2>2. CASE Turn(p) \/ ReadTimeout(p)
    BY <2>2, IdleStep DEF Turn, ReadTimeout, Served
  <2> QED BY <1>2, <2>1, <2>2, AcceptStep, HandleStep, RespondStep, SendStep DEF Control
<1>3. ASSUME NEW c \in Clients, Ctl(c) PROVE RequestInv'
  <2>1. CASE Connect(c)
    <3>1. CASE path \in Instances /\ Listening(path)
      <4>1. backlog' = [backlog EXCEPT ![path] = Append(@, c)]
        BY <2>1, <3>1, Zenon DEF Connect
      <4>2. backlog' \in [Instances -> Seq(Clients)]
        BY <3>1, <4>1 DEF RequestInv
      <4> QED BY <2>1, <4>2, BacklogStep DEF Connect
    <3>2. CASE ~(path \in Instances /\ Listening(path))
      BY <2>1, <3>2, RequestStays DEF Connect
    <3> QED BY <3>1, <3>2
  <2>2. CASE SendRequest(c) \/ NoAnswer(c)
    BY <2>2, RequestStays DEF SendRequest, NoAnswer
  <2> QED BY <1>3, <2>1, <2>2 DEF Ctl
<1>4. CASE UNCHANGED vars
  BY <1>4, RequestStays DEF vars
<1> QED BY <1>1, <1>2, <1>3, <1>4 DEF Next

(* Whatever a client prints is the result of its own request, also after an *)
(* earlier one was given up and executed late.                              *)
THEOREM OwnAnswerHolds == Spec => []OwnAnswer
<1>1. RequestInv => OwnAnswer
  BY DEF RequestInv
<1> QED BY RequestInit, RequestStep, <1>1, PTL DEF Spec
===============================================================================
