----------------------------- MODULE RemoteControl -----------------------------
(***************************************************************************)
(* The socket by which `musiTui ctl` drives a running player.  An instance *)
(* of the player (App or Daemon) binds the socket (ControlServer), serves  *)
(* one client at a time on a thread of its own, and takes the socket away  *)
(* when it quits; App hands the request to its UI thread and waits a while *)
(* for the result, Daemon executes it at once.  A client (ControlClient)   *)
(* connects, sends one line and waits a while for one line.                *)
(*                                                                         *)
(* Instances are processes: each is started once, quits or is killed at    *)
(* any time, and leaves its socket behind when it is killed.  Clients may  *)
(* stop at any step.  A time limit may pass whenever what it limits has    *)
(* not happened yet.  The empty connection that a probe of the socket      *)
(* makes in the other instance is left out.                                *)
(***************************************************************************)
EXTENDS Naturals, Sequences

CONSTANTS
  Instances,   \* processes that run a player
  Daemons,     \* those started with --daemon
  Clients,     \* processes that run `musiTui ctl`
  Backlog,     \* connections that wait for accept(): 8
  None

ASSUME ProcessAssumption ==
  /\ Daemons \subseteq Instances
  /\ None \notin Instances \cup Clients \cup {"file", "in use", "vanished"}
  /\ "file" \notin Instances
  /\ Backlog \in Nat \ {0}

VARIABLES
  path,        \* what is at location_.path: nothing, a file, an instance's socket
  phase,       \* what the main thread of an instance does
  error,       \* error_: why it does not listen
  overlap,     \* history: two instances bound or removed the socket at a time
  ctl,         \* thread_: off, check, poll, read, wait, send
  wake,        \* a byte in wake_
  backlog,     \* connections not accepted yet
  serving,     \* the client of serve()
  response,    \* whose result it will be sent
  tasks,       \* posted to the UI thread: a line, and whose it is
  quitting,    \* screen_.Exit() or the stop pipe
  executed,    \* the promises that are set and not taken, by whose they are
  client,      \* new, connected, sent, done
  request,     \* the line in its connection, not read yet
  server,      \* the other end of its connection, None when closed
  printed      \* whose result it printed

socketVars == <<path, phase, error, overlap, quitting>>
threadVars == <<ctl, wake, serving, response, tasks, executed>>
clientVars == <<client, request, server, printed>>
vars == <<socketVars, threadVars, backlog, clientVars>>

(* Two commands the dispatcher knows, and a line longer than kMaxLine. *)
Requests == {"next", "quit", "overlong"}

(* Between listen() and close(), a connection is taken. *)
Listening(p) == phase[p] \in {"up", "stop", "join", "close"}

-------------------------------------------------------------------------------
Init ==
  /\ path \in {None, "file"}
  /\ phase = [p \in Instances |-> "new"]
  /\ error = [p \in Instances |-> None]
  /\ overlap = FALSE
  /\ ctl = [p \in Instances |-> "off"]
  /\ wake = [p \in Instances |-> FALSE]
  /\ backlog = [p \in Instances |-> <<>>]
  /\ serving = [p \in Instances |-> None]
  /\ response = [p \in Instances |-> None]
  /\ tasks = [p \in Instances |-> <<>>]
  /\ quitting = [p \in Instances |-> FALSE]
  /\ executed = {}
  /\ client = [c \in Clients |-> "new"]
  /\ request = [c \in Clients |-> None]
  /\ server = [c \in Clients |-> None]
  /\ printed = [c \in Clients |-> None]

-------------------------------------------------------------------------------
(* ControlServer::bindSocket(), call by call.                               *)

Moving == {"lstat", "probe", "unlink", "bind", "listen", "close", "remove"}

(* The main thread of p goes on to the phase; the history takes note.       *)
Goto(p, next) ==
  /\ phase' = [phase EXCEPT ![p] = next]
  /\ overlap' = (overlap \/ (next \in Moving /\ \E q \in Instances \ {p} : phase[q] \in Moving))

(* Without a socket App runs on, and Daemon::run() returns at once. *)
Fail(p, why) ==
  /\ error' = [error EXCEPT ![p] = why]
  /\ Goto(p, IF p \in Daemons THEN "off" ELSE "deaf")

(* The location resolved, the wake pipe and the private directory there,    *)
(* the address made: any of the last three may fail.                        *)
Start(p) ==
  /\ phase[p] = "new"
  /\ \/ Goto(p, "lstat") /\ UNCHANGED error
     \/ Fail(p, "no place")
  /\ UNCHANGED <<path, quitting, threadVars, backlog, clientVars>>

Lstat(p) ==
  /\ phase[p] = "lstat"
  /\ CASE path = None   -> Goto(p, "bind") /\ UNCHANGED error
       [] path = "file" -> Fail(p, "not a socket")
       [] OTHER         -> Goto(p, "probe") /\ UNCHANGED error
  /\ UNCHANGED <<path, quitting, threadVars, backlog, clientVars>>

(* Mutant: the socket of a dead instance is left where it is. *)
ProbeTrusting(p) ==
  /\ phase[p] = "probe"
  /\ IF path \in Instances /\ Listening(path)
     THEN Fail(p, "another instance")
     ELSE Goto(p, "bind") /\ UNCHANGED error
  /\ UNCHANGED <<path, quitting, threadVars, backlog, clientVars>>

Probe(p) ==
  /\ phase[p] = "probe"
  /\ IF path \in Instances /\ Listening(path)
     THEN Fail(p, "another instance")
     ELSE Goto(p, "unlink") /\ UNCHANGED error
  /\ UNCHANGED <<path, quitting, threadVars, backlog, clientVars>>

Unlink(p) ==
  /\ phase[p] = "unlink"
  /\ path' = None
  /\ Goto(p, "bind")
  /\ UNCHANGED <<error, quitting, threadVars, backlog, clientVars>>

Bind(p) ==
  /\ phase[p] = "bind"
  /\ IF path = None
     THEN path' = p /\ Goto(p, "listen") /\ UNCHANGED error
     ELSE Fail(p, "in use") /\ UNCHANGED path
  /\ UNCHANGED <<quitting, threadVars, backlog, clientVars>>

(* chmod() goes by the path, listen() by the descriptor. *)
Listen(p) ==
  /\ phase[p] = "listen"
  /\ IF path = None
     THEN Fail(p, "vanished") /\ UNCHANGED ctl
     ELSE /\ Goto(p, "up")
          /\ ctl' = [ctl EXCEPT ![p] = "check"]
          /\ UNCHANGED error
  /\ UNCHANGED <<path, quitting, wake, serving, response, tasks, executed, backlog, clientVars>>

-------------------------------------------------------------------------------
(* The end of an instance: by the user, by a signal, by a request.          *)

(* The connections of p are closed with it. *)
HangUp(p) ==
  /\ server' = [c \in Clients |-> IF server[c] = p THEN None ELSE server[c]]
  /\ request' = [c \in Clients |-> IF server[c] = p THEN None ELSE request[c]]
  /\ backlog' = [backlog EXCEPT ![p] = <<>>]

(* The loop is left, with what was posted to it, and the stop token set. *)
Leave(p) ==
  /\ phase[p] \in {"up", "deaf"}
  /\ Goto(p, IF phase[p] = "up" THEN "stop" ELSE "off")
  /\ tasks' = [tasks EXCEPT ![p] = <<>>]
  /\ UNCHANGED <<path, error, quitting, ctl, wake, serving, response, executed, backlog, clientVars>>

Notify(p) ==
  /\ phase[p] = "stop"
  /\ Goto(p, "join")
  /\ wake' = [wake EXCEPT ![p] = TRUE]
  /\ UNCHANGED <<path, error, quitting, ctl, serving, response, tasks, executed, backlog, clientVars>>

Join(p) ==
  /\ phase[p] = "join" /\ ctl[p] = "off"
  /\ Goto(p, "close")
  /\ UNCHANGED <<path, error, quitting, threadVars, backlog, clientVars>>

(* The connections that wait are reset. *)
Close(p) ==
  /\ phase[p] = "close"
  /\ Goto(p, "remove")
  /\ HangUp(p)
  /\ UNCHANGED <<path, error, quitting, threadVars, client, printed>>

(* Whatever is there by now. *)
Remove(p) ==
  /\ phase[p] = "remove"
  /\ path' = None
  /\ Goto(p, "off")
  /\ quitting' = [quitting EXCEPT ![p] = FALSE]
  /\ UNCHANGED <<error, threadVars, backlog, clientVars>>

Kill(p) ==
  /\ phase[p] \notin {"new", "off"}
  /\ Goto(p, "off")
  /\ ctl' = [ctl EXCEPT ![p] = "off"]
  /\ tasks' = [tasks EXCEPT ![p] = <<>>]
  /\ serving' = [serving EXCEPT ![p] = None]
  /\ response' = [response EXCEPT ![p] = None]
  /\ wake' = [wake EXCEPT ![p] = FALSE]
  /\ quitting' = [quitting EXCEPT ![p] = FALSE]
  /\ HangUp(p)
  /\ UNCHANGED <<path, error, executed, client, printed>>

-------------------------------------------------------------------------------
(* ControlServer::run() and serve().                                        *)

Check(p) ==
  /\ ctl[p] = "check"
  /\ ctl' = [ctl EXCEPT ![p] = IF phase[p] = "up" THEN "poll" ELSE "off"]
  /\ UNCHANGED <<socketVars, wake, serving, response, tasks, executed, backlog, clientVars>>

Wake(p) ==
  /\ ctl[p] = "poll" /\ wake[p]
  /\ wake' = [wake EXCEPT ![p] = FALSE]
  /\ ctl' = [ctl EXCEPT ![p] = "check"]
  /\ UNCHANGED <<socketVars, serving, response, tasks, executed, backlog, clientVars>>

Accept(p) ==
  /\ ctl[p] = "poll" /\ ~wake[p] /\ backlog[p] # <<>>
  /\ backlog' = [backlog EXCEPT ![p] = Tail(@)]
  /\ serving' = [serving EXCEPT ![p] = Head(backlog[p])]
  /\ ctl' = [ctl EXCEPT ![p] = "read"]
  /\ UNCHANGED <<socketVars, wake, response, tasks, executed, clientVars>>

(* serve() returns, and run() closes the connection with what is in it. *)
Served(p) ==
  /\ server' = [server EXCEPT ![serving[p]] = None]
  /\ request' = [request EXCEPT ![serving[p]] = None]
  /\ serving' = [serving EXCEPT ![p] = None]
  /\ ctl' = [ctl EXCEPT ![p] = "check"]

(* peerIsSameUser(): any client may turn out to be another user's. *)
Turn(p) ==
  /\ ctl[p] = "read"
  /\ Served(p)
  /\ UNCHANGED <<socketVars, wake, response, tasks, executed, backlog, client, printed>>

(* A client that is gone without a word is read as an empty line, which the *)
(* dispatcher rejects, as serve() does a line that is too long.             *)
ReadLine(p) ==
  /\ ctl[p] = "read"
  /\ LET c == serving[p] IN request[c] = "overlong" \/ (request[c] = None /\ client[c] = "done")
  /\ response' = [response EXCEPT ![p] = serving[p]]
  /\ ctl' = [ctl EXCEPT ![p] = "send"]
  /\ UNCHANGED <<socketVars, wake, serving, tasks, executed, backlog, clientVars>>

(* Mutant: recv() has no time limit. *)
ReadTimeoutNever(p) ==
  /\ ctl[p] = "read" /\ request[serving[p]] = None /\ client[serving[p]] = "done"
  /\ Served(p)
  /\ UNCHANGED <<socketVars, wake, response, tasks, executed, backlog, client, printed>>

(* kClientTimeout *)
ReadTimeout(p) ==
  /\ ctl[p] = "read" /\ request[serving[p]] = None
  /\ Served(p)
  /\ UNCHANGED <<socketVars, wake, response, tasks, executed, backlog, client, printed>>

(* CommandDispatcher::execute(), and the promise is set. *)
Execute(p, task) ==
  /\ executed' = executed \cup {task.of}
  /\ quitting' = [quitting EXCEPT ![p] = @ \/ task.line = "quit"]

(* The handler of Daemon executes the line, that of App posts it; a loop    *)
(* that was left takes no more tasks.                                       *)
Handle(p) ==
  /\ ctl[p] = "read" /\ request[serving[p]] \in {"next", "quit"}
  /\ LET task == [of |-> serving[p], line |-> request[serving[p]]]
     IN  IF p \in Daemons
         THEN Execute(p, task) /\ UNCHANGED tasks
         ELSE /\ tasks' = [tasks EXCEPT ![p] = IF phase[p] = "up" THEN Append(@, task) ELSE @]
              /\ UNCHANGED <<executed, quitting>>
  /\ request' = [request EXCEPT ![serving[p]] = None]
  /\ ctl' = [ctl EXCEPT ![p] = "wait"]
  /\ UNCHANGED <<path, phase, error, overlap, wake, serving, response, backlog, client, server, printed>>

(* Mutant: one promise for the server, set by whatever was executed last. *)
AwaitAny(p) ==
  /\ ctl[p] = "wait"
  /\ \E c \in executed : response' = [response EXCEPT ![p] = c]
  /\ ctl' = [ctl EXCEPT ![p] = "send"]
  /\ UNCHANGED <<socketVars, wake, serving, tasks, executed, backlog, clientVars>>

Await(p) ==
  /\ ctl[p] = "wait" /\ serving[p] \in executed
  /\ response' = [response EXCEPT ![p] = serving[p]]
  /\ executed' = executed \ {serving[p]}
  /\ ctl' = [ctl EXCEPT ![p] = "send"]
  /\ UNCHANGED <<socketVars, wake, serving, tasks, backlog, clientVars>>

(* Mutant: the handler waits for ever once the player is quitting. *)
AwaitTimeoutRunning(p) ==
  /\ ctl[p] = "wait" /\ serving[p] \notin executed /\ phase[p] = "up"
  /\ response' = [response EXCEPT ![p] = serving[p]]
  /\ ctl' = [ctl EXCEPT ![p] = "send"]
  /\ UNCHANGED <<socketVars, wake, serving, tasks, executed, backlog, clientVars>>

(* kRemoteTimeout: the posted task stays posted. *)
AwaitTimeout(p) ==
  /\ ctl[p] = "wait" /\ serving[p] \notin executed
  /\ response' = [response EXCEPT ![p] = serving[p]]
  /\ ctl' = [ctl EXCEPT ![p] = "send"]
  /\ UNCHANGED <<socketVars, wake, serving, tasks, executed, backlog, clientVars>>

(* sendAll() and close(): one line, to whoever still reads. *)
Send(p) ==
  /\ ctl[p] = "send"
  /\ LET c == serving[p]
     IN  IF client[c] = "sent"
         THEN /\ client' = [client EXCEPT ![c] = "done"]
              /\ printed' = [printed EXCEPT ![c] = response[p]]
         ELSE UNCHANGED <<client, printed>>
  /\ Served(p)
  /\ response' = [response EXCEPT ![p] = None]
  /\ UNCHANGED <<socketVars, wake, tasks, executed, backlog>>

(* The UI thread of App runs what was posted, until the loop is left. *)
RunTask(p) ==
  /\ phase[p] = "up" /\ tasks[p] # <<>>
  /\ Execute(p, Head(tasks[p]))
  /\ tasks' = [tasks EXCEPT ![p] = Tail(@)]
  /\ UNCHANGED <<path, phase, error, overlap, ctl, wake, serving, response, backlog, clientVars>>

-------------------------------------------------------------------------------
(* sendControlRequest() and runControlClient()                              *)

(* Bound: a client whose turn comes after an overlap is left out.  The      *)
(* instances go on as before, and two of them with the clients of both      *)
(* would be too many states.                                                *)
Connect(c) ==
  /\ client[c] = "new" /\ ~overlap
  /\ IF path \in Instances /\ Listening(path)
     THEN /\ Len(backlog[path]) < Backlog
          /\ backlog' = [backlog EXCEPT ![path] = Append(@, c)]
          /\ server' = [server EXCEPT ![c] = path]
          /\ client' = [client EXCEPT ![c] = "connected"]
     ELSE client' = [client EXCEPT ![c] = "done"] /\ UNCHANGED <<backlog, server>>
  /\ UNCHANGED <<socketVars, threadVars, request, printed>>

SendRequest(c) ==
  /\ client[c] = "connected"
  /\ IF server[c] # None
     THEN /\ \E r \in Requests : request' = [request EXCEPT ![c] = r]
          /\ client' = [client EXCEPT ![c] = "sent"]
     ELSE client' = [client EXCEPT ![c] = "done"] /\ UNCHANGED request
  /\ UNCHANGED <<socketVars, threadVars, backlog, server, printed>>

(* The connection is closed without an answer, or kResponseTimeout passes,  *)
(* or the process is stopped.                                               *)
NoAnswer(c) ==
  /\ client[c] \in {"connected", "sent"}
  /\ client' = [client EXCEPT ![c] = "done"]
  /\ UNCHANGED <<socketVars, threadVars, backlog, request, server, printed>>

-------------------------------------------------------------------------------
Main(p) ==
  \/ Start(p) \/ Lstat(p) \/ Probe(p) \/ Unlink(p) \/ Bind(p) \/ Listen(p)
  \/ Leave(p) \/ Notify(p) \/ Join(p) \/ Close(p) \/ Remove(p) \/ Kill(p) \/ RunTask(p)

Control(p) ==
  \/ Check(p) \/ Wake(p) \/ Accept(p) \/ Turn(p) \/ ReadLine(p) \/ ReadTimeout(p)
  \/ Handle(p) \/ Await(p) \/ AwaitTimeout(p) \/ Send(p)

Ctl(c) == Connect(c) \/ SendRequest(c) \/ NoAnswer(c)

Next == (\E p \in Instances : Main(p) \/ Control(p)) \/ \E c \in Clients : Ctl(c)

Spec == Init /\ [][Next]_vars

(* The threads of an instance keep running, and one that was asked to quit  *)
(* does; of the user, and of the clients, nothing is assumed.  That a       *)
(* client is turned away, rather than served, is nobody's turn.             *)
Serves(p) ==
  \/ Check(p) \/ Wake(p) \/ Accept(p) \/ ReadLine(p) \/ ReadTimeout(p)
  \/ Handle(p) \/ Await(p) \/ AwaitTimeout(p) \/ Send(p)
Quit(p) == Notify(p) \/ Join(p) \/ Close(p) \/ Remove(p) \/ (quitting[p] /\ Leave(p))
FairSpec == Spec /\ \A p \in Instances : WF_vars(Serves(p)) /\ WF_vars(Quit(p))

-------------------------------------------------------------------------------
TypeOK ==
  /\ path \in Instances \cup {None, "file"}
  /\ phase \in [Instances -> Moving \cup {"new", "up", "stop", "join", "deaf", "off"}]
  /\ error \in [Instances -> {None, "no place", "not a socket", "another instance", "in use", "vanished"}]
  /\ overlap \in BOOLEAN
  /\ ctl \in [Instances -> {"off", "check", "poll", "read", "wait", "send"}]
  /\ wake \in [Instances -> BOOLEAN] /\ quitting \in [Instances -> BOOLEAN]
  /\ backlog \in [Instances -> Seq(Clients)]
  /\ serving \in [Instances -> Clients \cup {None}]
  /\ response \in [Instances -> Clients \cup {None}]
  /\ tasks \in [Instances -> Seq([of : Clients, line : Requests])]
  /\ executed \subseteq Clients
  /\ client \in [Clients -> {"new", "connected", "sent", "done"}]
  /\ request \in [Clients -> Requests \cup {None}]
  /\ server \in [Clients -> Instances \cup {None}]
  /\ printed \in [Clients -> Clients \cup {None}]

(* "A socket that still accepts belongs to a live instance; otherwise it    *)
(* was left behind by a crash and is safe to replace" (bindSocket): as long *)
(* as no two instances are at the socket at one time, the one that listens  *)
(* is the one clients reach, and none is kept from listening by what        *)
(* another left behind, whenever it was killed.                             *)
ListenerIsReached ==
  ~overlap => \A p \in Instances : /\ Listening(p) => path = p
                                   /\ error[p] \notin {"in use", "vanished"}

(* A client prints the result of its own request, also after the handler    *)
(* gave up an earlier request and the UI thread executed it late            *)
(* (App::handleRemote).                                                     *)
OwnAnswer ==
  \A c \in Clients : printed[c] \in {None, c}

(* Quitting ends: the destructor of ControlServer waits for the control     *)
(* thread, which may be waiting for the UI thread that runs the destructor, *)
(* or for a client that says nothing, or may be about to poll().            *)
QuitEnds == \A p \in Instances : (phase[p] = "stop" \/ quitting[p]) ~> phase[p] = "off"

(* A client that connects and says nothing does not keep the others from    *)
(* being served (serve, kClientTimeout).                                    *)
Waits(c) == \E p \in Instances, i \in 1..Backlog : i <= Len(backlog[p]) /\ backlog[p][i] = c
BacklogMoves == \A c \in Clients : Waits(c) ~> ~Waits(c)
===============================================================================
