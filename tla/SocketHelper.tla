---------------------------- MODULE SocketHelper ----------------------------
(***************************************************************************)
(* The SocketHelpers of one process, used by its poll thread and by the    *)
(* threads of the application, without a lock: the constructor, connect,   *)
(* send_data, receive, close_sock and the destructor, down to the point    *)
(* where a thread has read this->sock and has not made its system call     *)
(* yet.  The kernel gives the lowest free descriptor to a new socket.      *)
(*                                                                         *)
(* What the tables of P2PurrServer hold is reduced to the peers filed in   *)
(* sock_to_peer_map; the races on the map itself are in P2PurrServer, the  *)
(* way of a packet behind the kernel is in PeerLink.                       *)
(***************************************************************************)
EXTENDS Integers, Sequences, FiniteSets

CONSTANTS
  Users,      \* the application's threads, which all send
  Connectors, \* those that also call connect_to_peer
  Stoppers,   \* those that also call stop
  Poll,       \* the poll thread
  PktLen,     \* pieces of a packet that a send call may take separately
  MaxSocks,   \* bound: sockets made over the life of the process
  MaxFds,     \* descriptors the process may have open
  MaxSends    \* bound: packets given to send_pkt_to_peer

ASSUME SocketAssumption ==
  /\ Poll \notin Users /\ Connectors \subseteq Users /\ Stoppers \subseteq Users
  /\ PktLen \in Nat \ {0} /\ MaxSocks \in Nat /\ MaxFds \in Nat /\ MaxSends \in Nat

Threads == Users \cup {Poll}
Socks == 1..MaxSocks
Fds == 1..MaxFds
None == 0        \* no socket, no descriptor, no packet
Closed == -1     \* this->sock after close_sock

VARIABLES
  helper,     \* the SocketHelpers made: [sock, open, init, life]
  remote,     \* the other end of each: "new", "up", "fin", "rst", "rstseen"
  shut,       \* sockets that shutdown(SHUT_WR) was called on
  owner,      \* the socket behind each descriptor, or None
  filed,      \* the SocketHelpers of the peers in sock_to_peer_map
  key,        \* the descriptor each was filed under
  running,    \* is_local_server_running
  todo,       \* peers that close_all_connections has still to close
  swept,      \* the poll thread has received nothing since its last sweep
  th,         \* each thread: [pc, tgt, reg, ret, op, put]
  stream,     \* what the kernel took for each socket: pieces [op, k]
  result,     \* each packet: the peer it is for, and how send_data ended
  fate,       \* "ok", "exited", "terminated", "killed" by SIGPIPE, "undefined"
  raced,      \* close_sock overtook another thread: it closed a descriptor that
              \* the thread had read and not used yet, or the thread read
              \* this->sock between the close and the assignment
  misled,     \* a system call made for one socket has reached another
  overlapped  \* sockets that two threads sent to at once

kernelVars == <<remote, shut, owner>>
mapVars == <<filed, key, running, todo, swept>>
sendVars == <<stream, result, overlapped>>
flags == <<raced, misled>>
vars == <<helper, kernelVars, mapVars, th, sendVars, fate, flags>>

Made == 1..Len(helper)

HelperRec == [sock : Fds \cup {Closed}, open : BOOLEAN, init : BOOLEAN,
              life : {"live", "destroyed"}]
ThreadRec == [pc : {"idle", "connect", "file", "send", "sendcall", "recvcall", "shut",
                    "release", "store", "drop", "stop", "clear"},
              tgt : Socks \cup {None}, reg : Fds \cup {None, Closed},
              ret : {"none", "recv", "stop", "free", "clear"},
              op : 0..MaxSends, put : 0..PktLen]
Piece == [op : 1..MaxSends, k : 1..PktLen]
ResultRec == [tgt : Socks, end : {"sending", "whole", "failed"}]

\* The type invariant.
TypeOK ==
  /\ helper \in Seq(HelperRec) /\ Len(helper) <= MaxSocks
  /\ remote \in [Socks -> {"new", "up", "fin", "rst", "rstseen"}]
  /\ shut \subseteq Socks
  /\ owner \in [Fds -> Socks \cup {None}]
  /\ filed \subseteq Socks /\ key \in [Socks -> Fds \cup {None, Closed}]
  /\ running \in BOOLEAN /\ todo \subseteq Socks /\ swept \in BOOLEAN
  /\ th \in [Threads -> ThreadRec]
  /\ stream \in [Socks -> Seq(Piece)]
  /\ result \in Seq(ResultRec) /\ Len(result) <= MaxSends
  /\ fate \in {"ok", "exited", "terminated", "killed", "undefined"}
  /\ raced \in BOOLEAN /\ misled \in BOOLEAN
  /\ overlapped \subseteq Socks
-----------------------------------------------------------------------------
(* Threads and descriptors *)

At(t, pc) == fate = "ok" /\ th[t].pc = pc

Idle == [pc |-> "idle", tgt |-> None, reg |-> None, ret |-> "none", op |-> None, put |-> 0]

\* The end of the process, or of what can be said of it: nothing is left.
Ends(how) ==
  /\ fate' = how
  /\ helper' = <<>> /\ remote' = [s \in Socks |-> "new"] /\ shut' = {}
  /\ owner' = [f \in Fds |-> None]
  /\ filed' = {} /\ key' = [s \in Socks |-> None]
  /\ running' = FALSE /\ todo' = {} /\ swept' = TRUE
  /\ th' = [t \in Threads |-> Idle]
  /\ stream' = [s \in Socks |-> <<>>] /\ result' = <<>> /\ overlapped' = {}

Goes(t, pc) == th' = [th EXCEPT ![t].pc = pc]

\* The socket that a system call with the descriptor in reg reaches.
Behind(r) == IF r \in Fds THEN owner[r] ELSE None

LowestFree(f) == owner[f] = None /\ \A g \in Fds : g < f => owner[g] # None
FdsSpent == \A f \in Fds : owner[f] # None

\* A system call of thread t has reached socket s.
Reaches(t, s) == misled' = (misled \/ s # th[t].tgt)

\* Another thread has read this->sock of h and not made its system call yet.
CallPending(t, h) ==
  \E u \in Threads \ {t} :
    th[u].tgt = h /\ th[u].pc \in {"sendcall", "recvcall", "shut", "release"}

\* Thread t reads this->sock of h.
Reads(t, h) ==
  raced' = (raced \/ \E u \in Threads \ {t} : th[u].tgt = h /\ th[u].pc = "store")

\* Mutant of Holds: handle_client_communications uses the map's reference.
HoldsNothing(h) == FALSE

\* handle_client_communications has a shared_ptr of its own to the peer.
Holds(h) == th[Poll].tgt = h
-----------------------------------------------------------------------------
(* close_sock *)

\* Mutant of NewHelper: is_sock_init is set before there is a connection.
NewHelperInit(f) == [sock |-> f, open |-> TRUE, init |-> TRUE, life |-> "live"]

\* The constructor, given or having made the socket behind descriptor f.
NewHelper(f) == [sock |-> f, open |-> TRUE, init |-> FALSE, life |-> "live"]

\* A thread back in the caller of close_sock: recv_pkt, close_all_connections,
\* or, by way of the destructor, nothing or clear.
Resumed(h, ret) ==
  [Idle EXCEPT !.pc = CASE ret = "recv" -> "drop" [] ret = "stop" -> "stop"
                        [] ret = "free" -> "idle" [] ret = "clear" -> "clear",
               !.tgt = IF ret = "recv" THEN h ELSE None]

\* If the destructor called close_sock, the object is gone.
Outlived(hs, h, ret) ==
  IF ret \in {"free", "clear"} THEN [hs EXCEPT ![h].life = "destroyed"] ELSE hs

\* close_sock returns to its caller, with helpers hs.
Returns(t, hs) ==
  /\ helper' = Outlived(hs, th[t].tgt, th[t].ret)
  /\ th' = [th EXCEPT ![t] = Resumed(th[t].tgt, th[t].ret)]

\* close_sock is called: its tests of is_sock_open and is_sock_init.  The state
\* of thread t before the call is local.
Close(t, h, ret) ==
  IF helper[h].open
  THEN /\ th' = [th EXCEPT ![t] =
                   [Idle EXCEPT !.pc = IF helper[h].init THEN "shut" ELSE "release",
                                !.tgt = h, !.reg = helper[h].sock, !.ret = ret]]
       /\ Reads(t, h) /\ UNCHANGED helper
  ELSE /\ th' = [th EXCEPT ![t] = Resumed(h, ret)]
       /\ helper' = Outlived(helper, h, ret) /\ UNCHANGED raced

\* shutdown refuses a bad descriptor, and a socket that is not connected; it may
\* refuse a second shutdown once both ends have shut theirs.
Refuses(s) == s # None => remote[s] \in {"new", "rst", "rstseen"}
MayRefuse(s) == Refuses(s) \/ (s \in shut /\ remote[s] = "fin")

\* Mutant of Refused: is_sock_open is reset after a failure too.
RefusedClosed(h) == [helper EXCEPT ![h].open = FALSE]

\* The helpers after the catch in close_sock.
Refused(h) == helper

Shutdown(t) ==
  LET s == Behind(th[t].reg) IN
  /\ At(t, "shut") /\ ~Refuses(s)
  /\ shut' = shut \cup {s} /\ Reaches(t, s)
  /\ helper' = [helper EXCEPT ![th[t].tgt].init = FALSE]
  /\ th' = [th EXCEPT ![t].pc = "release", ![t].reg = helper[th[t].tgt].sock]
  /\ Reads(t, th[t].tgt)
  /\ UNCHANGED <<remote, owner, mapVars, sendVars, fate>>

\* SocketShutdownException: close_sock returns false.
ShutdownFails(t) ==
  /\ At(t, "shut") /\ MayRefuse(Behind(th[t].reg))
  /\ Returns(t, Refused(th[t].tgt))
  /\ UNCHANGED <<kernelVars, mapVars, sendVars, fate, flags>>

Release(t) ==
  LET s == Behind(th[t].reg) IN
  /\ At(t, "release") /\ s # None
  /\ owner' = [owner EXCEPT ![th[t].reg] = None]
  /\ Reaches(t, s) /\ raced' = (raced \/ CallPending(t, s))
  /\ Goes(t, "store")
  /\ UNCHANGED <<helper, remote, shut, mapVars, sendVars, fate>>

\* SocketCloseException: close_sock returns false.
ReleaseFails(t) ==
  /\ At(t, "release") /\ Behind(th[t].reg) = None
  /\ Returns(t, Refused(th[t].tgt))
  /\ UNCHANGED <<kernelVars, mapVars, sendVars, fate, flags>>

\* Mutants of Stored: is_sock_open stays true; sock keeps the number; and sock is
\* 0, which is a descriptor.
StoredOpen(h) == [helper EXCEPT ![h].sock = Closed]
StoredNumber(h) == [helper EXCEPT ![h].open = FALSE]
StoredZero(h) == [helper EXCEPT ![h].sock = 0, ![h].open = FALSE]

\* The helper after a close: no descriptor, and not open.
Stored(h) == [helper EXCEPT ![h].sock = Closed, ![h].open = FALSE]

Store(t) ==
  /\ At(t, "store")
  /\ Returns(t, Stored(th[t].tgt))
  /\ UNCHANGED <<kernelVars, mapVars, sendVars, fate, flags>>
-----------------------------------------------------------------------------
(* The application's threads: connect_to_peer *)

\* A new socket of the process, under descriptor f.
Opens(f, end) ==
  LET h == Len(helper) + 1 IN
  /\ Len(helper) < MaxSocks /\ LowestFree(f)
  /\ helper' = Append(helper, NewHelper(f))
  /\ owner' = [owner EXCEPT ![f] = h]
  /\ remote' = [remote EXCEPT ![h] = end]

Construct(t, f) ==
  /\ At(t, "idle") /\ Opens(f, "new")
  /\ th' = [th EXCEPT ![t].pc = "connect", ![t].tgt = Len(helper) + 1]
  /\ UNCHANGED <<shut, mapVars, sendVars, fate, flags>>

\* socket or getaddrinfo fails: the constructor catches its own exception and
\* ends the process.
ConstructFails(t) ==
  /\ At(t, "idle") /\ Len(helper) < MaxSocks
  /\ Ends("exited") /\ UNCHANGED flags

Connect(t) ==
  LET h == th[t].tgt IN
  /\ At(t, "connect")
  /\ remote' = [remote EXCEPT ![h] = "up"]
  /\ helper' = [helper EXCEPT ![h].init = TRUE]
  /\ Goes(t, "file")
  /\ UNCHANGED <<shut, owner, mapVars, sendVars, fate, flags>>

\* ConnectException: the destructor closes the socket.
ConnectFails(t) ==
  /\ At(t, "connect")
  /\ Close(t, th[t].tgt, "free")
  /\ UNCHANGED <<kernelVars, mapVars, sendVars, fate, misled>>

Taken(f) == \E g \in filed : key[g] = f

\* The peer that connect_to_peer or handle_new_client has made is filed.
File(t) ==
  LET h == th[t].tgt IN
  /\ At(t, "file") /\ ~Taken(helper[h].sock)
  /\ filed' = filed \cup {h} /\ key' = [key EXCEPT ![h] = helper[h].sock]
  /\ th' = [th EXCEPT ![t] = Idle]
  /\ UNCHANGED <<helper, kernelVars, running, todo, swept, sendVars, fate, flags>>

\* Its descriptor is taken in the map: the new peer is dropped.
FileFails(t) ==
  /\ At(t, "file") /\ Taken(helper[th[t].tgt].sock)
  /\ Close(t, th[t].tgt, "free")
  /\ UNCHANGED <<kernelVars, mapVars, sendVars, fate, misled>>
-----------------------------------------------------------------------------
(* The application's threads: send_pkt_to_peer *)

Sending(t) == th[t].pc \in {"send", "sendcall"}

\* The peer is found in the map; send_data is entered with a reference to it.
SendPkt(t, h) ==
  /\ At(t, "idle") /\ h \in filed /\ Len(result) < MaxSends
  /\ result' = Append(result, [tgt |-> h, end |-> "sending"])
  /\ overlapped' = IF \E u \in Threads : Sending(u) /\ th[u].tgt = h
                   THEN overlapped \cup {h} ELSE overlapped
  /\ th' = [th EXCEPT ![t] = [Idle EXCEPT !.pc = "send", !.tgt = h, !.op = Len(result) + 1]]
  /\ UNCHANGED <<helper, kernelVars, mapVars, stream, fate, flags>>

SendLoads(t) ==
  LET h == th[t].tgt IN
  /\ At(t, "send") /\ helper[h].life = "live"
  /\ th' = [th EXCEPT ![t].pc = "sendcall", ![t].reg = helper[h].sock]
  /\ Reads(t, h)
  /\ UNCHANGED <<helper, kernelVars, mapVars, sendVars, fate, misled>>

\* The poll thread or stop has dropped the last shared_ptr to the peer.
SendUsesFreed(t) ==
  /\ At(t, "send") /\ helper[th[t].tgt].life = "destroyed"
  /\ Ends("undefined") /\ UNCHANGED flags

\* Mutant of Pieces: send is given data, not data + bytes_sent_so_far.
PiecesFromStart(op, put, n) == [k \in 1..n |-> [op |-> op, k |-> k]]

\* The n pieces of a packet behind the first put.
Pieces(op, put, n) == [k \in 1..n |-> [op |-> op, k |-> put + k]]

\* Does a send call on socket s raise SIGPIPE?
Broken(s) == s # None /\ (s \in shut \/ remote[s] \in {"new", "rstseen"})

\* send takes n pieces.  A peer that has closed answers them with a reset.
SendSome(t, n) ==
  LET s == Behind(th[t].reg)
      done == th[t].put + n = PktLen
  IN
  /\ At(t, "sendcall") /\ s # None /\ ~Broken(s) /\ remote[s] # "rst"
  /\ n <= PktLen - th[t].put
  /\ stream' = [stream EXCEPT ![s] = @ \o Pieces(th[t].op, th[t].put, n)]
  /\ Reaches(t, s)
  /\ th' = [th EXCEPT ![t] = IF done THEN Idle
                             ELSE [th[t] EXCEPT !.pc = "send", !.reg = None,
                                                !.put = th[t].put + n]]
  /\ result' = IF done THEN [result EXCEPT ![th[t].op].end = "whole"] ELSE result
  /\ UNCHANGED <<helper, kernelVars, mapVars, overlapped, fate, raced>>

\* send fails: a bad descriptor, a reset to report, or full buffers.
\* SendException leaves send_data, and send_pkt catches it.
SendFails(t) ==
  LET s == Behind(th[t].reg) IN
  /\ At(t, "sendcall") /\ ~Broken(s)
  /\ remote' = IF s # None /\ remote[s] = "rst" THEN [remote EXCEPT ![s] = "rstseen"]
               ELSE remote
  /\ misled' = (misled \/ s \notin {None, th[t].tgt})
  /\ th' = [th EXCEPT ![t] = Idle]
  /\ result' = [result EXCEPT ![th[t].op].end = "failed"]
  /\ UNCHANGED <<helper, shut, owner, mapVars, stream, overlapped, fate, raced>>

\* EPIPE comes with a signal that nothing handles.
SendKills(t) ==
  LET s == Behind(th[t].reg) IN
  /\ At(t, "sendcall") /\ Broken(s)
  /\ Ends("killed") /\ Reaches(t, s) /\ UNCHANGED raced
-----------------------------------------------------------------------------
(* The application's threads: stop, that is close_all_connections *)

\* The application calls stop once.
StopBegins(t) ==
  /\ At(t, "idle") /\ running
  /\ running' = FALSE /\ todo' = filed
  /\ Goes(t, "stop")
  /\ UNCHANGED <<helper, kernelVars, filed, key, swept, sendVars, fate, flags>>

StopCloses(t, h) ==
  /\ At(t, "stop") /\ h \in todo
  /\ todo' = todo \ {h}
  /\ Close(t, h, "stop")
  /\ UNCHANGED <<kernelVars, filed, key, running, swept, sendVars, fate, misled>>

StopClears(t) ==
  /\ At(t, "stop") /\ todo = {}
  /\ Goes(t, "clear")
  /\ UNCHANGED <<helper, kernelVars, mapVars, sendVars, fate, flags>>

\* clear drops one peer, which is destroyed unless the poll thread holds it.
Clear(t, h) ==
  /\ At(t, "clear") /\ h \in filed
  /\ filed' = filed \ {h}
  /\ IF Holds(h) THEN UNCHANGED <<helper, th, raced>> ELSE Close(t, h, "clear")
  /\ UNCHANGED <<kernelVars, key, running, todo, swept, sendVars, fate, misled>>

StopEnds(t) ==
  /\ At(t, "clear") /\ filed = {}
  /\ Goes(t, "idle")
  /\ UNCHANGED <<helper, kernelVars, mapVars, sendVars, fate, flags>>
-----------------------------------------------------------------------------
(* The poll thread *)

\* handle_new_client up to the insertion; a scan accepts before it receives.
Accept(f) ==
  /\ At(Poll, "idle") /\ running /\ swept
  /\ Opens(f, "up")
  /\ th' = [th EXCEPT ![Poll].pc = "file", ![Poll].tgt = Len(helper) + 1]
  /\ UNCHANGED <<shut, mapVars, sendVars, fate, flags>>

\* accept finds no descriptor: AcceptException, which nobody catches.
AcceptFails ==
  /\ At(Poll, "idle") /\ running /\ swept /\ FdsSpent
  /\ Ends("terminated") /\ UNCHANGED flags

\* handle_client_communications calls receive on a peer that is filed.
Receive(h) ==
  /\ At(Poll, "idle") /\ running /\ h \in filed
  /\ th' = [th EXCEPT ![Poll] =
              IF helper[h].open
              THEN [Idle EXCEPT !.pc = "recvcall", !.tgt = h, !.reg = helper[h].sock]
              ELSE [Idle EXCEPT !.pc = "drop", !.tgt = h]]
  /\ swept' = FALSE
  /\ IF helper[h].open THEN Reads(Poll, h) ELSE UNCHANGED raced
  /\ UNCHANGED <<helper, kernelVars, filed, key, running, todo, sendVars, fate, misled>>

\* Mutant of AtEof: an error, EAGAIN among them, counts as the end.
EofOnError(s) == s # None

\* Does recv on socket s return 0?
AtEof(s) == s # None /\ remote[s] \in {"fin", "rstseen"}

\* recv returns bytes, or fails: nothing to read, a reset, or a bad descriptor.
RecvReturns ==
  LET s == Behind(th[Poll].reg) IN
  /\ At(Poll, "recvcall") /\ ~AtEof(s)
  /\ remote' = IF s # None /\ remote[s] = "rst" THEN [remote EXCEPT ![s] = "rstseen"]
               ELSE remote
  /\ misled' = (misled \/ s \notin {None, th[Poll].tgt})
  /\ Goes(Poll, "drop")
  /\ UNCHANGED <<helper, shut, owner, mapVars, sendVars, fate, raced>>

\* recv returns 0, and receive closes the socket.
RecvEof ==
  LET s == Behind(th[Poll].reg) IN
  /\ At(Poll, "recvcall") /\ AtEof(s)
  /\ Reaches(Poll, s)
  /\ Close(Poll, th[Poll].tgt, "recv")
  /\ UNCHANGED <<kernelVars, mapVars, sendVars, fate>>

\* The poll thread's shared_ptr goes; if it was the last, so does the peer.
Drop ==
  LET h == th[Poll].tgt IN
  /\ At(Poll, "drop")
  /\ IF h \in filed
     THEN th' = [th EXCEPT ![Poll] = Idle] /\ UNCHANGED <<helper, raced>>
     ELSE Close(Poll, h, "free")
  /\ UNCHANGED <<kernelVars, mapVars, sendVars, fate, misled>>

\* remove_disconnected_peers: the closed peers are dropped from the map, and
\* destroyed by that.
Sweep ==
  LET dead == {h \in filed : ~helper[h].open} IN
  /\ At(Poll, "idle") /\ running /\ ~swept
  /\ filed' = filed \ dead
  /\ helper' = [h \in Made |-> IF h \in dead THEN [helper[h] EXCEPT !.life = "destroyed"]
                               ELSE helper[h]]
  /\ swept' = TRUE
  /\ UNCHANGED <<kernelVars, key, running, todo, th, sendVars, fate, flags>>
-----------------------------------------------------------------------------
(* The other ends *)

RemoteLeaves(s, how) ==
  /\ fate = "ok" /\ remote[s] = "up" /\ \E f \in Fds : owner[f] = s
  /\ remote' = [remote EXCEPT ![s] = how]
  /\ UNCHANGED <<helper, shut, owner, mapVars, th, sendVars, fate, flags>>

\* The closed end answers what we sent with a reset; its FIN came before.
RemoteAnswers(s) ==
  /\ fate = "ok" /\ remote[s] = "fin" /\ stream[s] # <<>> /\ \E f \in Fds : owner[f] = s
  /\ remote' = [remote EXCEPT ![s] = "rstseen"]
  /\ UNCHANGED <<helper, shut, owner, mapVars, th, sendVars, fate, flags>>
-----------------------------------------------------------------------------
Init ==
  /\ helper = <<>> /\ remote = [s \in Socks |-> "new"] /\ shut = {}
  /\ owner = [f \in Fds |-> None]
  /\ filed = {} /\ key = [s \in Socks |-> None]
  /\ running = TRUE /\ todo = {} /\ swept = TRUE
  /\ th = [t \in Threads |-> Idle]
  /\ stream = [s \in Socks |-> <<>>] /\ result = <<>> /\ overlapped = {}
  /\ fate = "ok" /\ raced = FALSE /\ misled = FALSE

CloseSock(t) == Shutdown(t) \/ ShutdownFails(t) \/ Release(t) \/ ReleaseFails(t) \/ Store(t)

ConnectToPeer(t) ==
  \/ \E f \in Fds : Construct(t, f)
  \/ ConstructFails(t)
  \/ Connect(t) \/ ConnectFails(t)

SendLoop(t) ==
  \/ SendLoads(t) \/ SendUsesFreed(t)
  \/ \E n \in 1..PktLen : SendSome(t, n)
  \/ SendFails(t) \/ SendKills(t)

Stop(t) ==
  \/ StopBegins(t) \/ StopClears(t) \/ StopEnds(t)
  \/ \E h \in Made : StopCloses(t, h) \/ Clear(t, h)

PollThread ==
  \/ \E f \in Fds : Accept(f)
  \/ AcceptFails
  \/ \E h \in Made : Receive(h)
  \/ RecvReturns \/ RecvEof \/ Drop \/ Sweep

Remote == \E s \in Made : RemoteAnswers(s) \/ \E how \in {"fin", "rst"} : RemoteLeaves(s, how)

Next ==
  \/ \E t \in Users : SendLoop(t) \/ \E h \in Made : SendPkt(t, h)
  \/ \E t \in Connectors : ConnectToPeer(t)
  \/ \E t \in Stoppers : Stop(t)
  \/ \E t \in Threads : CloseSock(t) \/ File(t) \/ FileFails(t)
  \/ PollThread
  \/ Remote

Spec == Init /\ [][Next]_vars
-----------------------------------------------------------------------------
(* Safety *)

\* A SocketHelper whose is_sock_open is false has given its descriptor back:
\* remove_disconnected_peers, which asks nothing else, forgets no open socket.
ClosedIsReleased ==
  \A h \in Made : ~helper[h].open => \A f \in Fds : owner[f] # h

Closing(h) == \E t \in Threads : th[t].tgt = h /\ th[t].pc = "store"

\* The descriptor in an open SocketHelper is that of its own socket, except
\* between close and the assignments that follow it, or after such a race
\* between threads as raced records.
OpenOwnsSocket ==
  \A h \in Made :
    helper[h].open /\ ~raced => Closing(h) \/ Behind(helper[h].sock) = h

\* A call made for one connection reaches another one's socket only if close_sock
\* has overtaken another thread.  Numbers that the kernel uses again are harmless
\* otherwise.
MisledOnlyByRace == misled => raced

\* The destructor leaks no descriptor, except that of a connection that we made
\* and that was reset, which shutdown refuses, or after such a race.
LeakOnlyAfterReset ==
  \A h \in Made : \A f \in Fds :
    helper[h].life = "destroyed" /\ owner[f] = h =>
      raced \/ (helper[h].init /\ remote[h] \in {"rst", "rstseen"})

\* The poll thread never works on a SocketHelper that has been destroyed: it
\* keeps a shared_ptr of its own while stop empties the map.
ReceiverHoldsPeer ==
  fate = "ok" /\ th[Poll].tgt # None => helper[th[Poll].tgt].life = "live"

\* While the server runs, a filed peer is dropped (which takes it away from a
\* thread that sends to it) only when its other end has closed or reset the
\* connection, or after such a race.
DroppedOnlyAtEnd ==
  running => \A h \in Made :
    helper[h].life = "destroyed" /\ key[h] # None => remote[h] \in {"fin", "rstseen"} \/ raced

\* The pieces of a packet lie in the stream in order with nothing between them,
\* and a packet that send_data got rid of is there as a whole, unless two threads
\* sent to that peer at once or a call was misled.
PacketsUnbroken ==
  ~misled => \A s \in Socks \ overlapped :
    /\ \A i \in 1..Len(stream[s]) :
         LET e == stream[s][i] IN
         e.k = 1 \/ (i > 1 /\ stream[s][i - 1] = [op |-> e.op, k |-> e.k - 1])
    /\ \A o \in 1..Len(result) :
         result[o] = [tgt |-> s, end |-> "whole"] =>
           \E i \in 1..Len(stream[s]) : stream[s][i] = [op |-> o, k |-> PktLen]
=============================================================================
