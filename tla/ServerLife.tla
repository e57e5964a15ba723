----------------------------- MODULE ServerLife -----------------------------
(***************************************************************************)
(* The P2PurrServers of one process from constructor to destructor: start, *)
(* stop and the destructor, called by the main thread; the poll threads,   *)
(* which start detaches, so that they may outlive stop and even their      *)
(* server; the SIGINT handler of main.cpp; and exit.  All servers have the *)
(* same port, as in the tests: SO_REUSEPORT lets several sockets listen on *)
(* it.                                                                     *)
(*                                                                         *)
(* What a running poll thread does with its tables is in P2PurrServer.     *)
(***************************************************************************)
EXTENDS Naturals, FiniteSets

CONSTANTS
  MaxServers, \* bound: servers made over the life of the process
  MaxConns    \* bound: connections that other processes have to the port at a time

ASSUME LifeAssumption == MaxServers \in Nat \ {0} /\ MaxConns \in Nat

Servers == 1..MaxServers
Conns == 1..MaxConns
Static == 1      \* the server that the SIGINT handler stops

VARIABLES
  server,     \* each server: [life, running, sock, thread]
  poll,       \* its poll thread: at the loop test ("top"), between that and
              \* poll ("enter"), asleep in poll on the server socket and its
              \* peers ("wait") or on an empty list ("stuck"), woken by stop and
              \* about to look at their descriptors again ("recheck"); behind
              \* poll at the server socket's entry ("scan"), in accept
              \* ("accept"), or at the entries of peers ("read")
  main,       \* the main thread: [pc, srv, then]
  conn,       \* each connection, if it is there: [at, st, news], news for bytes
              \* to read or an end to notice
  provoked,   \* a server was destroyed while its thread was at work, or the
              \* sockets of a destroyed server were reached by something
  fate        \* "running", "exited", "terminated" by an exception, "undefined"

vars == <<server, poll, main, conn, provoked, fate>>

ServerRec == [life : {"none", "live", "gone"}, running : BOOLEAN,
              sock : {"open", "listening", "shut", "closed"},
              thread : {"none", "joinable", "detached"}]
MainRec == [pc : {"idle", "launch", "detach", "close", "release", "join", "exit"},
            srv : Servers, then : {"return", "destroy", "exit"}]
ConnRec == [at : Servers \cup {0}, st : {"none", "queued", "served"}, news : BOOLEAN]

\* The type invariant.
TypeOK ==
  /\ server \in [Servers -> ServerRec]
  /\ poll \in [Servers -> {"none", "top", "enter", "wait", "recheck", "stuck", "scan",
                           "accept", "read", "ended"}]
  /\ main \in MainRec
  /\ conn \in [Conns -> ConnRec]
  /\ provoked \in BOOLEAN
  /\ fate \in {"running", "exited", "terminated", "undefined"}
-----------------------------------------------------------------------------
\* Mutant of NoServer: a server begins without its socket.
NoSocket == [life |-> "none", running |-> FALSE, sock |-> "none", thread |-> "none"]

NoServer == [life |-> "none", running |-> FALSE, sock |-> "open", thread |-> "none"]
NoConn == [at |-> 0, st |-> "none", news |-> FALSE]
AtRest == [pc |-> "idle", srv |-> Static, then |-> "return"]

\* The end of the process, or of what can be said of it: nothing is left.
Ends(how) ==
  /\ fate' = how
  /\ server' = [s \in Servers |-> NoServer] /\ poll' = [s \in Servers |-> "none"]
  /\ main' = AtRest /\ conn' = [c \in Conns |-> NoConn]
  /\ UNCHANGED provoked

AtMain(pc) == fate = "running" /\ main.pc = pc
Live(s) == server[s].life = "live"

\* The connections of server s: those it has accepted, and those it has not yet.
Of(s) == {c \in Conns : conn[c].at = s}
Queued(s) == {c \in Of(s) : conn[c].st = "queued"}
Accepted(s) == {c \in Of(s) : conn[c].st = "served"}
Dropped(cs) == [c \in Conns |-> IF c \in cs THEN NoConn ELSE conn[c]]

\* poll keeps the sockets that it waits on open after their close.
InPoll(s) == poll[s] \in {"wait", "recheck"}

\* A socket that was shut down for writing listens as before.
Accepts(s) == server[s].sock \in {"listening", "shut"} \/ InPoll(s)

\* One of the sockets that server s polls is readable.
Pending(s) == \E c \in Of(s) : conn[c].st = "queued" \/ conn[c].news

\* Mutant of TimesOut: a poll_timeout other than -1.
TimesOutEarly == TRUE

\* poll_timeout is -1.
TimesOut == FALSE

\* poll returns, of its own accord or for a remote event.
Wakes(s) == Pending(s) \/ TimesOut

\* The thread of server s does nothing until something reaches its sockets.
Asleep(s) == poll[s] \in {"none", "ended", "stuck"} \/ (poll[s] = "wait" /\ ~Pending(s))
-----------------------------------------------------------------------------
(* The main thread: constructor and start *)

Construct(s) ==
  /\ AtMain("idle") /\ server[s].life = "none" /\ (s > 1 => server[s - 1].life # "none")
  /\ server' = [server EXCEPT ![s].life = "live"]
  /\ UNCHANGED <<poll, main, conn, provoked, fate>>

\* Mutant of RunningAtLaunch: is_local_server_running is set behind the launch.
RunningLater == FALSE

\* is_local_server_running when the thread is created.
RunningAtLaunch == TRUE

\* init_server: bind and listen.  A socket can be bound once.
StartBinds(s) ==
  /\ AtMain("idle") /\ Live(s) /\ server[s].sock = "open"
  /\ server' = [server EXCEPT ![s].sock = "listening", ![s].running = RunningAtLaunch]
  /\ main' = [main EXCEPT !.pc = "launch", !.srv = s]
  /\ UNCHANGED <<poll, conn, provoked, fate>>

\* bind or listen fails: the port is taken, or the server was started before.
StartExits(s) ==
  /\ AtMain("idle") /\ Live(s)
  /\ Ends("exited")

StartLaunches ==
  LET s == main.srv IN
  /\ AtMain("launch")
  /\ poll' = [poll EXCEPT ![s] = "top"]
  /\ server' = [server EXCEPT ![s].thread = "joinable"]
  /\ main' = [main EXCEPT !.pc = "detach"]
  /\ UNCHANGED <<conn, provoked, fate>>

\* Mutant of Detached: start leaves the thread joinable.
NotDetached(s) == [server EXCEPT ![s].running = TRUE]

\* The servers when start returns.
Detached(s) == [server EXCEPT ![s].running = TRUE, ![s].thread = "detached"]

StartDetaches ==
  /\ AtMain("detach")
  /\ server' = Detached(main.srv)
  /\ main' = [main EXCEPT !.pc = "idle"]
  /\ UNCHANGED <<poll, conn, provoked, fate>>
-----------------------------------------------------------------------------
(* The main thread: stop, the destructor, and SIGINT *)

\* stop is entered; then says what follows it.
StopsFor(s, then) ==
  /\ server' = [server EXCEPT ![s].running = FALSE]
  /\ main' = [pc |-> "close", srv |-> s, then |-> then]

StopBegins(s) ==
  /\ AtMain("idle") /\ Live(s)
  /\ StopsFor(s, "return")
  /\ UNCHANGED <<poll, conn, provoked, fate>>

\* close_all_connections, and the shutdown of close_sock: the list is empty, and the
\* connections are closed unless poll waits on them.  The shutdown of a listening
\* socket does nothing to it, but wakes poll.
StopShuts ==
  LET s == main.srv
      first == server[s].sock = "listening"
  IN
  /\ AtMain("close")
  /\ server' = IF first THEN [server EXCEPT ![s].sock = "shut"] ELSE server
  /\ poll' = IF first /\ poll[s] = "wait" THEN [poll EXCEPT ![s] = "recheck"] ELSE poll
  /\ conn' = IF InPoll(s) THEN conn ELSE Dropped(Accepted(s))
  /\ main' = [main EXCEPT !.pc = "release"]
  /\ UNCHANGED <<provoked, fate>>

\* The close of close_sock, and the flag that records it: the server socket goes
\* unless poll waits on it.
StopCloses ==
  LET s == main.srv IN
  /\ AtMain("release")
  /\ server' = [server EXCEPT ![s].sock = "closed"]
  /\ conn' = IF InPoll(s) THEN conn ELSE Dropped(Queued(s))
  /\ main' = [main EXCEPT !.pc = "join"]
  /\ UNCHANGED <<poll, provoked, fate>>

\* The server is destroyed; its SocketHelpers close the sockets that are open.
Gone(s) ==
  /\ server' = [server EXCEPT ![s].life = "gone", ![s].sock = "closed"]
  /\ conn' = IF InPoll(s) THEN conn ELSE Dropped(Of(s))
  /\ provoked' = (provoked \/ ~Asleep(s))

\* A detached thread is not joined.  close_sock has not failed: on Linux neither
\* the shutdown nor the close of a listening socket does.
StopJoins ==
  LET s == main.srv IN
  /\ AtMain("join")
  /\ server[s].thread = "joinable" => poll[s] = "ended"
  /\ IF main.then = "return" THEN UNCHANGED <<server, conn, provoked>> ELSE Gone(s)
  /\ main' = [main EXCEPT !.pc = IF main.then = "exit" THEN "exit" ELSE "idle",
                          !.then = "return"]
  /\ UNCHANGED <<poll, fate>>

\* ~P2PurrServer.
Destroy(s) ==
  /\ AtMain("idle") /\ Live(s)
  /\ IF server[s].running THEN StopsFor(s, "destroy") /\ UNCHANGED <<conn, provoked>>
     ELSE Gone(s) /\ UNCHANGED main
  /\ UNCHANGED <<poll, fate>>

\* sig_handler interrupts the main thread wherever it is, but in the handler itself:
\* it stops the static server and calls exit, which destroys it.
Signal ==
  /\ fate = "running" /\ main.pc # "exit" /\ main.then # "exit"
  /\ Live(Static)
  /\ StopsFor(Static, "exit")
  /\ UNCHANGED <<poll, conn, provoked, fate>>

Exits ==
  /\ AtMain("exit")
  /\ Ends("exited")
-----------------------------------------------------------------------------
(* The poll threads *)

AtPoll(s, pc) == fate = "running" /\ poll[s] = pc

PollTests(s) ==
  /\ AtPoll(s, "top") /\ Live(s)
  /\ poll' = [poll EXCEPT ![s] = IF server[s].running THEN "enter" ELSE "ended"]
  /\ UNCHANGED <<server, main, conn, provoked, fate>>

\* poll is called: with the server socket, or, if stop was faster, with nothing.
PollEnters(s) ==
  /\ AtPoll(s, "enter") /\ Live(s)
  /\ poll' = [poll EXCEPT ![s] = IF server[s].sock = "listening" THEN "wait" ELSE "stuck"]
  /\ UNCHANGED <<server, main, conn, provoked, fate>>

\* Where the thread goes on behind poll: POLLIN of a server socket that is open, or
\* not.
Behind(s) == IF server[s].sock # "closed" /\ Queued(s) # {} THEN "scan" ELSE "read"

\* poll returns, and lets go of the sockets that were closed meanwhile.
PollReturns(s) ==
  /\ AtPoll(s, "wait") /\ Live(s) /\ Wakes(s)
  /\ poll' = [poll EXCEPT ![s] = Behind(s)]
  /\ conn' = IF server[s].sock = "closed" THEN Dropped(Of(s)) ELSE conn
  /\ UNCHANGED <<server, main, provoked, fate>>

\* Woken by stop, poll looks at the descriptors again.  It returns if one of them is
\* closed (POLLNVAL) or readable, and goes to sleep if stop has closed no connection
\* and not yet the server socket.
PollRechecks(s) ==
  LET finds == server[s].sock = "closed" \/ Accepted(s) # {} \/ Pending(s) IN
  /\ AtPoll(s, "recheck") /\ Live(s)
  /\ poll' = [poll EXCEPT ![s] = IF finds THEN Behind(s) ELSE "wait"]
  /\ conn' = IF server[s].sock = "closed" THEN Dropped(Of(s)) ELSE Dropped(Accepted(s))
  /\ UNCHANGED <<server, main, provoked, fate>>

\* The loop test, at the server socket's entry: handle_new_client is called, or the
\* scan is over.
PollSees(s) ==
  /\ AtPoll(s, "scan") /\ Live(s)
  /\ poll' = [poll EXCEPT ![s] = IF server[s].running THEN "accept" ELSE "top"]
  /\ UNCHANGED <<server, main, conn, provoked, fate>>

PollAccepts(s, c) ==
  /\ AtPoll(s, "accept") /\ Live(s) /\ server[s].sock # "closed" /\ c \in Queued(s)
  /\ conn' = [conn EXCEPT ![c].st = "served"]
  /\ poll' = [poll EXCEPT ![s] = "read"]
  /\ UNCHANGED <<server, main, provoked, fate>>

\* accept on the socket that stop has closed: AcceptException, which nobody catches.
PollThrows(s) ==
  /\ AtPoll(s, "accept") /\ Live(s) /\ server[s].sock = "closed"
  /\ Ends("terminated")

\* The rest of the scan: what other peers have sent is read, if the server runs.
PollReads(s) ==
  /\ AtPoll(s, "read") /\ Live(s)
  /\ conn' = [c \in Conns |->
                IF c \in Accepted(s) /\ server[s].running THEN [conn[c] EXCEPT !.news = FALSE]
                ELSE conn[c]]
  /\ poll' = [poll EXCEPT ![s] = "top"]
  /\ UNCHANGED <<server, main, provoked, fate>>

\* The thread works on a server that has been destroyed.
PollTouches(s) ==
  /\ fate = "running" /\ server[s].life = "gone"
  /\ \/ poll[s] \in {"top", "enter", "recheck", "scan", "accept", "read"}
     \/ poll[s] = "wait" /\ Wakes(s)
  /\ Ends("undefined")
-----------------------------------------------------------------------------
(* Other processes *)

\* The kernel gives a connection to any of the sockets that listen on the port.
RemoteConnects(c, s) ==
  /\ fate = "running" /\ conn[c].st = "none" /\ Accepts(s)
  /\ conn' = [conn EXCEPT ![c] = [at |-> s, st |-> "queued", news |-> FALSE]]
  /\ provoked' = (provoked \/ ~Live(s))
  /\ UNCHANGED <<server, poll, main, fate>>

\* The remote end sends something, or closes.
RemoteActs(c) ==
  /\ fate = "running" /\ conn[c].st = "served" /\ ~conn[c].news
  /\ conn' = [conn EXCEPT ![c].news = TRUE]
  /\ provoked' = (provoked \/ ~Live(conn[c].at))
  /\ UNCHANGED <<server, poll, main, fate>>
-----------------------------------------------------------------------------
Init ==
  /\ server = [s \in Servers |-> NoServer] /\ poll = [s \in Servers |-> "none"]
  /\ main = AtRest /\ conn = [c \in Conns |-> NoConn]
  /\ provoked = FALSE /\ fate = "running"

\* What the main thread does without being asked to.
MainGoesOn ==
  StartLaunches \/ StartDetaches \/ StopShuts \/ StopCloses \/ StopJoins \/ Exits

MainCalls ==
  \/ \E s \in Servers :
       Construct(s) \/ StartBinds(s) \/ StartExits(s) \/ StopBegins(s) \/ Destroy(s)
  \/ Signal

\* What a poll thread does, up to the reading of what peers have sent.
PollWaits(s) ==
  \/ PollTests(s) \/ PollEnters(s) \/ PollReturns(s) \/ PollRechecks(s)
  \/ PollSees(s) \/ PollThrows(s) \/ (\E c \in Conns : PollAccepts(s, c))
  \/ PollTouches(s)

Others == \E c \in Conns : RemoteActs(c) \/ \E s \in Servers : RemoteConnects(c, s)

\* A step of the poll thread of server s.
PollThread(s) == PollWaits(s) \/ PollReads(s)

Next == MainGoesOn \/ MainCalls \/ Others \/ \E s \in Servers : PollThread(s)

Spec == Init /\ [][Next]_vars

\* The operating system runs every thread that does not wait for something.
FairSpec == Spec /\ WF_vars(MainGoesOn) /\ \A s \in Servers : WF_vars(PollThread(s))
-----------------------------------------------------------------------------
(* Safety *)

\* Whenever start or stop is not under way, a server that says it is running has
\* its socket listening and its thread in the poll loop.
RunningMeansServed ==
  AtMain("idle") => \A s \in Servers :
    Live(s) /\ server[s].running =>
      server[s].sock = "listening" /\ poll[s] \in {"top", "enter", "wait", "scan", "accept", "read"}

\* A thread that stop has left behind is harmless, even when its server has been
\* destroyed, unless it was at work then (stop's own shutdown may have woken it), or
\* something reaches one of the sockets that it keeps open.
HarmlessUnlessProvoked == fate = "undefined" => provoked
-----------------------------------------------------------------------------
(* Liveness *)

Stopping == main.pc \in {"close", "release", "join"}

\* The handler stops a server whose thread start has not detached yet.
Interrupted == main.then = "exit" /\ server[main.srv].thread = "joinable"

\* stop returns, and so the process exits after SIGINT, though the poll thread
\* may never leave poll; unless the signal interrupts start before the detach,
\* or a race with the poll thread ends the process.
StopReturns == Stopping ~> ~Stopping \/ Interrupted \/ fate # "running"

\* No connection waits for ever to be accepted: a server accepts it, or lets it
\* go when its thread ends or its socket is closed.
BacklogDrains == \A c \in Conns : conn[c].st = "queued" ~> conn[c].st # "queued" \/ fate # "running"
=============================================================================
