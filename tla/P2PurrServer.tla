---------------------------- MODULE P2PurrServer ----------------------------
(***************************************************************************)
(* A running P2PurrServer: its poll thread (start_async_poll), the user    *)
(* thread that calls connect_to_peer and stop, the tables both change      *)
(* without a lock (sock_to_peer_map and pollfd_list), and the kernel's     *)
(* descriptor table, which gives a new socket the lowest free number.      *)
(*                                                                         *)
(* What travels on a connection is the business of PeerLink; here a        *)
(* connection has data to read or not, and its remote end is there, closed *)
(* or reset.                                                               *)
(***************************************************************************)
EXTENDS Integers, Sequences, FiniteSets

CONSTANTS
  MaxIn,      \* max_inbound_connections: 1000 in the constructor
  MaxOut,     \* max_outbound_connections: 1000 in the constructor
  MaxPeers    \* bound: connections made over the life of the server

ASSUME ServerAssumption ==
  MaxIn \in Nat /\ MaxOut \in Nat /\ MaxPeers \in Nat \ {0}

ListenFd == 1                       \* descriptor of server_sock_helper
Fds == 2..(MaxPeers + 1)            \* descriptors of connections
Nobody == 0                         \* no connection
Listener == MaxPeers + 1            \* the server socket, among the sockets polled

VARIABLES
  running,    \* is_local_server_running
  listening,  \* the server socket is open
  backlog,    \* connections the kernel holds for accept
  owner,      \* the connection whose open socket has a descriptor, or Nobody
  peers,      \* the PeerConnHandlers ever made: [fd, outbound, open, data, remote]
  map,        \* sock_to_peer_map: the connection filed under a descriptor
  list,       \* pollfd_list: [fd, rev], rev for POLLIN in revents
  pollPc,     \* where the poll thread is
  polled,     \* the sockets that the poll call under way looks at
  i,          \* poll_it, as an index of list
  newcomer,   \* the connection handle_new_client has accepted
  toRemove,   \* fds_to_rm
  userPc,     \* where the user thread is
  joining,    \* the connection connect_to_peer has made
  fate,       \* "ok"; "terminated" by an exception; "undefined" behaviour
  crowded     \* some sweep found more than one disconnected peer

serverVars == <<running, listening>>
kernelVars == <<backlog, owner, peers>>
tables == <<map, list>>
pollVars == <<pollPc, polled, i, newcomer, toRemove, crowded>>
userVars == <<userPc, joining>>
vars == <<serverVars, kernelVars, tables, pollVars, userVars, fate>>

Conns == 1..MaxPeers
Made == 1..Len(peers)

\* fd as get_sockfd had it while the socket was open, open is is_sock_open; a
\* connection has bytes to read (data), and a remote end that is not there yet,
\* up, closed, reset, or reset with recv having said so.
PeerRec == [fd : Fds, outbound : BOOLEAN, open : BOOLEAN, data : BOOLEAN,
            remote : {"new", "up", "fin", "rst", "rstseen"}]
PollFd == [fd : Fds \cup {ListenFd}, rev : BOOLEAN]

\* The type invariant.
TypeOK ==
  /\ running \in BOOLEAN /\ listening \in BOOLEAN /\ backlog \in Nat
  /\ owner \in [Fds -> Conns \cup {Nobody}]
  /\ peers \in Seq(PeerRec)
  /\ map \in [Fds -> Conns \cup {Nobody}]
  /\ list \in Seq(PollFd)
  /\ pollPc \in {"poll", "blocked", "scan", "accept", "adopt", "sweep", "unwatch", "exited"}
  /\ polled \in Seq(Conns \cup {Nobody, Listener})
  /\ i \in Nat \ {0}
  /\ newcomer \in Conns \cup {Nobody}
  /\ toRemove \subseteq Fds
  /\ userPc \in {"idle", "socket", "connect", "push", "insert",
                "close", "clear", "closeServer", "stopped"}
  /\ joining \in Conns \cup {Nobody}
  /\ fate \in {"ok", "terminated", "undefined"}
  /\ crowded \in BOOLEAN
-----------------------------------------------------------------------------
(* Sockets *)

\* The kernel's choice of a descriptor for a new socket.
LowestFree(f) == owner[f] = Nobody /\ \A g \in Fds : g < f => owner[g] # Nobody

\* A socket just accepted, or made to connect, under descriptor f.
NewPeer(f, outbound) ==
  [fd |-> f, outbound |-> outbound, open |-> TRUE, data |-> FALSE,
   remote |-> IF outbound THEN "new" ELSE "up"]

\* Can close_sock close this socket?  It shuts a socket with is_sock_init down
\* first (that is an outbound one that has connected), and shutdown of a reset
\* connection fails with ENOTCONN.
Closable(p) == ~(peers[p].outbound /\ peers[p].remote \in {"rst", "rstseen"})

\* Mutant of ClosedPeers: is_sock_open is not reset.
StillOpen(ps) == [p \in Made |-> peers[p]]

\* The peers and the descriptor table after close_sock on the sockets of ps.
ClosedPeers(ps) ==
  [p \in Made |-> IF p \in ps THEN [peers[p] EXCEPT !.open = FALSE] ELSE peers[p]]
Released(ps) == [f \in Fds |-> IF owner[f] \in ps THEN Nobody ELSE owner[f]]

CloseSocks(ps) ==
  LET closed == {p \in ps : peers[p].open /\ Closable(p)} IN
  /\ peers' = ClosedPeers(closed)
  /\ owner' = Released(closed)

Mapped == {f \in Fds : map[f] # Nobody}

\* Filing a connection under its descriptor, unless the descriptor is taken.
Filed(f, p) == IF map[f] = Nobody THEN [map EXCEPT ![f] = p] ELSE map

\* Mutant of Watched: the new entry goes to the front.
WatchedFirst(f, garbage) == <<[fd |-> f, rev |-> garbage]>> \o list

\* add_fd_to_watch_list leaves revents uninitialised.
Watched(f, garbage) == Append(list, [fd |-> f, rev |-> garbage])

\* The sockets behind the entries of list.
SockOf(f) == IF f = ListenFd THEN (IF listening THEN Listener ELSE Nobody) ELSE owner[f]

\* POLLIN: a connection to accept, bytes to read, or an end or error to report.
Readable(s) ==
  \/ s = Listener /\ backlog > 0
  \/ s \in Made /\ (peers[s].data \/ peers[s].remote \in {"fin", "rst", "rstseen"})

\* poll has something to report: POLLIN, POLLNVAL for an entry that no socket
\* is behind, or POLLHUP for a socket that is not connected yet.  close_sock
\* shuts the server socket and an outbound connection down before it closes
\* them, which wakes poll as well, and it finds the number without a socket.
Wakes(s) ==
  \/ s = Nobody \/ Readable(s)
  \/ s = Listener /\ ~listening
  \/ s \in Made /\ (peers[s].remote = "new" \/ (peers[s].outbound /\ ~peers[s].open))

\* poll keeps a socket that it waits on accepting after its close.
Accepting == listening \/ \E k \in 1..Len(polled) : polled[k] = Listener

\* What may become of the process when the user thread changes a table while
\* the poll thread may be using it: both go on, or anything happens.
Race(conflict) == IF conflict THEN {"ok", "undefined"} ELSE {"ok"}

\* Where the two threads are, in a process that still runs.
AtPoll(pc) == fate = "ok" /\ pollPc = pc
AtUser(pc) == fate = "ok" /\ userPc = pc

\* The poll thread is in code that uses an iterator (or data and size) of
\* pollfd_list, or that searches or changes sock_to_peer_map, or its peers.
UsesList == pollPc \in {"poll", "scan", "adopt", "unwatch"}
UsesMap == pollPc \in {"scan", "accept", "adopt", "sweep"}
-----------------------------------------------------------------------------
Init ==
  /\ running = TRUE /\ listening = TRUE
  /\ backlog = 0 /\ owner = [f \in Fds |-> Nobody] /\ peers = <<>>
  /\ map = [f \in Fds |-> Nobody]
  /\ \E garbage \in BOOLEAN : list = <<[fd |-> ListenFd, rev |-> garbage]>>
  /\ pollPc = "poll" /\ polled = <<>> /\ i = 1
  /\ newcomer = Nobody /\ toRemove = {} /\ crowded = FALSE
  /\ userPc = "idle" /\ joining = Nobody
  /\ fate = "ok"
-----------------------------------------------------------------------------
(* Other peers and the network *)

\* A remote peer connects; the kernel completes the connection on its own.
RemoteConnects ==
  /\ fate = "ok" /\ Accepting /\ Len(peers) + backlog < MaxPeers
  /\ backlog' = backlog + 1
  /\ UNCHANGED <<serverVars, owner, peers, tables, pollVars, userVars, fate>>

RemoteSends(p) ==
  /\ fate = "ok" /\ peers[p].open /\ peers[p].remote = "up" /\ ~peers[p].data
  /\ peers' = [peers EXCEPT ![p].data = TRUE]
  /\ UNCHANGED <<serverVars, backlog, owner, tables, pollVars, userVars, fate>>

RemoteLeaves(p, how) ==
  /\ fate = "ok" /\ peers[p].open /\ peers[p].remote = "up"
  /\ peers' = [peers EXCEPT ![p].remote = how]
  /\ UNCHANGED <<serverVars, backlog, owner, tables, pollVars, userVars, fate>>
-----------------------------------------------------------------------------
(* The poll thread *)

\* The loop test, and poll entered: the kernel copies the descriptors and looks
\* at the sockets behind them, whatever happens to the list from then on.
PollCall ==
  /\ AtPoll("poll") /\ running
  /\ polled' = [k \in 1..Len(list) |-> SockOf(list[k].fd)]
  /\ pollPc' = "blocked"
  /\ UNCHANGED <<serverVars, kernelVars, tables, i, newcomer, toRemove, crowded, userVars, fate>>

\* Mutant of Reported: poll is told of one entry too few.
ReportedButLast ==
  [k \in 1..Len(list) |->
     IF k < Len(polled) THEN [list[k] EXCEPT !.rev = Readable(SockOf(list[k].fd))] ELSE list[k]]

\* poll writes revents for the entries it was called with, and looks for that at
\* the sockets that have their numbers when it has been woken.
Reported ==
  [k \in 1..Len(list) |->
     IF k <= Len(polled) THEN [list[k] EXCEPT !.rev = Readable(SockOf(list[k].fd))] ELSE list[k]]

\* poll returns.  If push_back moved the list meanwhile, the results go to its
\* freed buffer: the list keeps its old revents, or the heap is damaged.
PollReturn ==
  /\ AtPoll("blocked")
  /\ \E k \in 1..Len(polled) : Wakes(polled[k])
  /\ \/ list' = Reported /\ UNCHANGED fate
     \/ /\ Len(list) > Len(polled)
        /\ UNCHANGED list /\ fate' \in Race(TRUE)
  /\ i' = 1 /\ polled' = <<>>
  /\ pollPc' = "scan"
  /\ UNCHANGED <<serverVars, kernelVars, map, newcomer, toRemove, crowded, userVars>>

AtEntry == AtPoll("scan") /\ running /\ i <= Len(list)

\* An entry without POLLIN, or one for a descriptor that nobody is filed under.
ScanSkip ==
  /\ AtEntry
  /\ \/ ~list[i].rev
     \/ list[i].fd # ListenFd /\ map[list[i].fd] = Nobody
  /\ i' = i + 1
  /\ UNCHANGED <<serverVars, kernelVars, tables, pollPc, polled, newcomer, toRemove, crowded,
                 userVars, fate>>

\* handle_client_communications: one recv on the connection, as PeerLink has it.
\* An error or a stale POLLIN is an exception that recv_pkt catches.
Recv(p) ==
  LET q == peers[p] IN
  \/ /\ q.open /\ q.data
     /\ peers' = [peers EXCEPT ![p].data = FALSE]
     /\ UNCHANGED owner
  \/ /\ q.open /\ ~q.data /\ q.remote = "rst"
     /\ peers' = [peers EXCEPT ![p].remote = "rstseen"]
     /\ UNCHANGED owner
  \/ /\ q.open /\ ~q.data /\ q.remote \in {"fin", "rstseen"}
     /\ CloseSocks({p})
  \/ /\ ~q.open \/ (~q.data /\ q.remote = "up")
     /\ UNCHANGED <<peers, owner>>

ScanClient ==
  /\ AtEntry /\ list[i].rev /\ list[i].fd # ListenFd /\ map[list[i].fd] # Nobody
  /\ Recv(map[list[i].fd])
  /\ i' = i + 1
  /\ UNCHANGED <<serverVars, backlog, tables, pollPc, polled, newcomer, toRemove, crowded,
                 userVars, fate>>

\* The loop test, and the server socket's entry with POLLIN: handle_new_client is
\* called, and nothing tests is_local_server_running again before its accept.
ScanListener ==
  /\ AtEntry /\ list[i].rev /\ list[i].fd = ListenFd
  /\ pollPc' = "accept"
  /\ UNCHANGED <<serverVars, kernelVars, tables, polled, i, newcomer, toRemove, crowded,
                 userVars, fate>>

\* Mutant of Admitted: no limit.
AdmittedAlways == TRUE

\* The test of the number of connections.
Admitted == Cardinality(Mapped) <= MaxIn

\* Mutant of AfterAccept: the iterator is reset but does not skip the server.
AfterAcceptBegin == 1

\* Where the scan goes on after a call of handle_new_client.
AfterAccept == 2

\* handle_new_client from accept to its test of the number of connections; one
\* too many is closed at once.  Either way poll_it is reset to the second entry.
Accept(f) ==
  LET p == Len(peers) + 1 IN
  /\ AtPoll("accept") /\ listening /\ backlog > 0 /\ LowestFree(f)
  /\ backlog' = backlog - 1
  /\ peers' = Append(peers, [NewPeer(f, FALSE) EXCEPT !.open = Admitted])
  /\ owner' = IF Admitted THEN [owner EXCEPT ![f] = p] ELSE owner
  /\ newcomer' = IF Admitted THEN p ELSE Nobody
  /\ pollPc' = IF Admitted THEN "adopt" ELSE "scan"
  /\ i' = IF Admitted THEN i ELSE AfterAccept
  /\ UNCHANGED <<serverVars, tables, polled, toRemove, crowded, userVars, fate>>

\* accept with nothing to accept, or on the socket that stop has closed:
\* AcceptException, which nobody catches.
AcceptThrows ==
  /\ AtPoll("accept") /\ (backlog = 0 \/ ~listening)
  /\ fate' = "terminated"
  /\ UNCHANGED <<serverVars, kernelVars, tables, pollVars, userVars>>

\* The rest of handle_new_client: watch the descriptor, and file the peer.  A peer
\* whose descriptor is taken dies with the function, and closes its socket.
Adopt ==
  LET f == peers[newcomer].fd IN
  /\ AtPoll("adopt")
  /\ \E garbage \in BOOLEAN : list' = Watched(f, garbage)
  /\ map' = Filed(f, newcomer)
  /\ IF map[f] = Nobody THEN UNCHANGED <<peers, owner>> ELSE CloseSocks({newcomer})
  /\ newcomer' = Nobody /\ i' = AfterAccept /\ pollPc' = "scan"
  /\ UNCHANGED <<serverVars, backlog, polled, toRemove, crowded, userVars, fate>>

ScanEnds ==
  /\ AtPoll("scan") /\ ~(running /\ i <= Len(list))
  /\ pollPc' = "sweep"
  /\ UNCHANGED <<serverVars, kernelVars, tables, polled, i, newcomer, toRemove, crowded,
                 userVars, fate>>

\* Mutants of Dead: the descriptor is asked of the socket, where it is -1 by
\* now; and nothing is removed.
DeadBySocket == {-1 : f \in {g \in Mapped : ~peers[map[g]].open}}
DeadNever == {}

\* The descriptors under which a disconnected peer is filed.
Dead == {f \in Mapped : ~peers[map[f]].open}

\* remove_disconnected_peers, first half: drop dead peers from the map.
Sweep ==
  /\ AtPoll("sweep") /\ running
  /\ toRemove' = Dead
  /\ map' = [f \in Fds |-> IF f \in Dead THEN Nobody ELSE map[f]]
  /\ crowded' = (crowded \/ Cardinality(Dead) > 1)
  /\ pollPc' = "unwatch"
  /\ UNCHANGED <<serverVars, kernelVars, list, polled, i, newcomer, userVars, fate>>

SweepSkipped ==
  /\ AtPoll("sweep") /\ ~running
  /\ pollPc' = "poll"
  /\ UNCHANGED <<serverVars, kernelVars, tables, polled, i, newcomer, toRemove, crowded,
                 userVars, fate>>

\* Mutants of Unwatched: erase up to the end of the list; and no erase.
UnwatchedTail(f) ==
  LET ks == {k \in 1..Len(list) : list[k].fd = f} IN
  IF ks = {} THEN list
  ELSE SubSeq(list, 1, (CHOOSE k \in ks : \A m \in ks : k <= m) - 1)
StillWatched(f) == list

\* The n-th smallest index of a set.
Nth(ks, n) == CHOOSE k \in ks : Cardinality({j \in ks : j <= k}) = n

\* The list without the entries of a descriptor.
Unwatched(f) ==
  LET kept == {k \in 1..Len(list) : list[k].fd # f} IN
  [n \in 1..Cardinality(kept) |-> list[Nth(kept, n)]]

\* remove_disconnected_peers, second half.  poll_it is not reset after the first
\* descriptor, so only that one is looked for in the list.
Unwatch ==
  /\ AtPoll("unwatch")
  /\ \/ toRemove = {} /\ UNCHANGED list
     \/ \E f \in toRemove : list' = Unwatched(f)
  /\ toRemove' = {} /\ pollPc' = "poll"
  /\ UNCHANGED <<serverVars, kernelVars, map, polled, i, newcomer, crowded, userVars, fate>>

PollExits ==
  /\ AtPoll("poll") /\ ~running
  /\ pollPc' = "exited"
  /\ UNCHANGED <<serverVars, kernelVars, tables, polled, i, newcomer, toRemove, crowded,
                 userVars, fate>>
-----------------------------------------------------------------------------
(* The user thread: connect_to_peer *)

\* The test of the number of connections.
ConnectBegins ==
  /\ AtUser("idle") /\ Cardinality(Mapped) < MaxOut
  /\ userPc' = "socket"
  /\ UNCHANGED <<serverVars, kernelVars, tables, pollVars, joining, fate>>

\* PeerConnHandler's constructor makes the socket, which takes a descriptor.
ConnectSocket(f) ==
  /\ AtUser("socket") /\ LowestFree(f) /\ Len(peers) + backlog < MaxPeers
  /\ peers' = Append(peers, NewPeer(f, TRUE))
  /\ owner' = [owner EXCEPT ![f] = Len(peers) + 1]
  /\ joining' = Len(peers) + 1 /\ userPc' = "connect"
  /\ UNCHANGED <<serverVars, backlog, tables, pollVars, fate>>

\* connect_to_host succeeds.
ConnectSucceeds ==
  /\ AtUser("connect")
  /\ peers' = [peers EXCEPT ![joining].remote = "up"]
  /\ userPc' = "push"
  /\ UNCHANGED <<serverVars, backlog, owner, tables, pollVars, joining, fate>>

\* ConnectException: it is caught, and the destructor closes the socket.
ConnectFails ==
  /\ AtUser("connect")
  /\ CloseSocks({joining})
  /\ joining' = Nobody /\ userPc' = "idle"
  /\ UNCHANGED <<serverVars, backlog, tables, pollVars, fate>>

\* push_back of the new descriptor: the list may move under the poll thread.
ConnectWatches ==
  /\ AtUser("push")
  /\ \E garbage \in BOOLEAN : list' = Watched(peers[joining].fd, garbage)
  /\ fate' \in Race(UsesList)
  /\ userPc' = "insert"
  /\ UNCHANGED <<serverVars, kernelVars, map, pollVars, joining>>

\* The peer is filed under its descriptor.  If the descriptor is taken, the new
\* peer is dropped, and its destructor closes the connection.
ConnectFiles ==
  LET f == peers[joining].fd IN
  /\ AtUser("insert")
  /\ map' = Filed(f, joining)
  /\ IF map[f] = Nobody THEN UNCHANGED <<peers, owner>> ELSE CloseSocks({joining})
  /\ fate' \in Race(UsesMap)
  /\ joining' = Nobody /\ userPc' = "idle"
  /\ UNCHANGED <<serverVars, backlog, list, pollVars>>
-----------------------------------------------------------------------------
(* The user thread: stop *)

StopBegins ==
  /\ AtUser("idle") /\ running
  /\ running' = FALSE /\ userPc' = "close"
  /\ UNCHANGED <<listening, kernelVars, tables, pollVars, joining, fate>>

\* Mutant of AllFiled: only the peers that we connected to.
OutboundFiled == {map[f] : f \in {g \in Mapped : peers[map[g]].outbound}}

\* The peers in the map.
AllFiled == {map[f] : f \in Mapped}

\* close_all_connections: every filed peer is closed,
CloseAll ==
  /\ AtUser("close")
  /\ CloseSocks(AllFiled)
  /\ fate' \in Race(UsesMap)
  /\ userPc' = "clear"
  /\ UNCHANGED <<serverVars, backlog, tables, pollVars, joining>>

\* and both tables are emptied, whatever the poll thread does with them; the peers
\* it has filed since are destroyed, which closes their sockets.
ClearTables ==
  /\ AtUser("clear")
  /\ CloseSocks(AllFiled)
  /\ map' = [f \in Fds |-> Nobody] /\ list' = <<>>
  /\ fate' \in Race(UsesList \/ UsesMap)
  /\ userPc' = "closeServer"
  /\ UNCHANGED <<serverVars, backlog, pollVars, joining>>

\* The server socket is closed; the thread is detached, so there is no join.
StopEnds ==
  /\ AtUser("closeServer")
  /\ listening' = FALSE /\ userPc' = "stopped"
  /\ UNCHANGED <<running, kernelVars, tables, pollVars, joining, fate>>
-----------------------------------------------------------------------------
Remote ==
  \/ RemoteConnects
  \/ \E p \in Made : RemoteSends(p) \/ \E how \in {"fin", "rst"} : RemoteLeaves(p, how)

PollThread ==
  \/ PollCall \/ PollReturn
  \/ ScanSkip \/ ScanClient \/ ScanEnds
  \/ ScanListener
  \/ \E f \in Fds : Accept(f)
  \/ AcceptThrows \/ Adopt
  \/ Sweep \/ SweepSkipped \/ Unwatch \/ PollExits

Connect ==
  \/ ConnectBegins
  \/ \E f \in Fds : ConnectSocket(f)
  \/ ConnectSucceeds \/ ConnectFails
  \/ ConnectWatches \/ ConnectFiles

Stop == StopBegins \/ CloseAll \/ ClearTables \/ StopEnds

Next == Remote \/ PollThread \/ Connect \/ Stop

Spec == Init /\ [][Next]_vars

\* The operating system runs the poll thread whenever it has something to do.
FairSpec == Spec /\ WF_vars(PollThread)
-----------------------------------------------------------------------------
(* Safety *)

Watches(f) == \E k \in 1..Len(list) : list[k].fd = f

NoOutbound == \A p \in Made : ~peers[p].outbound

\* The server socket stays the first entry of pollfd_list, and its only one:
\* after each accept start_async_poll goes on at the second entry to "skip
\* ourself".
ServerFirst ==
  running => /\ list # <<>> /\ list[1].fd = ListenFd
             /\ \A k \in 2..Len(list) : list[k].fd # ListenFd

\* A peer is filed under the descriptor of its own socket: what arrives on a
\* descriptor is never given to another connection that is still open, though
\* the kernel uses the numbers of closed sockets again.
KeyedBySocket ==
  \A f \in Mapped :
    LET p == peers[map[f]] IN p.fd = f /\ (p.open => owner[f] = map[f])

\* An accepted connection finds its descriptor free in the map (in the other case,
\* which handle_new_client leaves as a TODO, it is dropped): the peer that had the
\* descriptor before was removed in the sweep of the loop that closed it.  Only
\* stop, between its closes and its clear, leaves keys of closed sockets behind
\* for a poll thread that is past its loop test.
AcceptFresh ==
  newcomer # Nobody /\ map[peers[newcomer].fd] # Nobody => userPc = "clear"

\* The limits, each tested without a lock before the insertion it is about: a
\* server that connects to nobody files one connection more than MaxIn (the
\* test is for a map that is larger than the limit), and however accept and
\* connect_to_peer interleave, the map passes the limits by no more than the
\* two connections that can be between their test and their insertion.
ConnBound ==
  /\ NoOutbound => Cardinality(Mapped) <= MaxIn + 1
  /\ \E limit \in {MaxIn, MaxOut - 1} : Cardinality(Mapped) <= limit + 2

\* poll watches every open inbound connection that is filed: no sweep takes the
\* entry of a descriptor that a newer connection has got again.
InboundWatched ==
  running => \A f \in Mapped :
    LET p == peers[map[f]] IN p.open /\ ~p.outbound => Watches(f)

\* As long as no sweep finds two disconnected peers and nobody connects out,
\* poll watches nothing but connections that are filed (or, between the two
\* halves of a sweep, about to be forgotten).
NothingElseWatched ==
  running /\ ~crowded /\ NoOutbound =>
    \A k \in 2..Len(list) : list[k].fd \in Mapped \cup toRemove

\* A server that connects to nobody calls accept in vain, which ends the process
\* with an AcceptException that nothing catches, in one case only: stop has closed
\* the server socket between the poll thread's loop test and its accept.
InboundOnlySurvives == fate = "terminated" => ~NoOutbound \/ ~listening

\* stop leaves no connection open but those it cannot close, and those that the
\* detached poll thread adopts while it runs.
StopClosesFiled ==
  userPc \in {"closeServer", "stopped"} =>
    \A p \in Made : peers[p].open =>
      ~Closable(p) \/ p = newcomer \/ \E f \in Mapped : map[f] = p
-----------------------------------------------------------------------------
(* Liveness *)

Served(p) == p \in Made /\ peers[p].open /\ peers[p].data

\* Whatever an accepted peer sends is read, unless the server is stopped first
\* or a race with connect_to_peer has ended the process.
InboundServed ==
  \A p \in Conns :
    Served(p) /\ ~peers[p].outbound ~> ~Served(p) \/ ~running \/ fate # "ok"

\* What a peer that we connected to serves us is read too, if connect_to_peer has
\* filed it, as long as poll does not sleep for ever: it has no timeout, and looks
\* only at the list that it was given, which may be older than the connection.
OutboundServedWhenAwake ==
  []<>(pollPc # "blocked") =>
    \A p \in Conns :
      (Served(p) /\ \E f \in Mapped : map[f] = p) ~> ~Served(p) \/ ~running \/ fate # "ok"
-----------------------------------------------------------------------------
(* What comments and messages say of the program, and the code does not do *)

\* connect_to_peer files the peer before it reports "Connection sucessful!":
\* a key in the map means that the descriptor is open already.
SuccessMeansFiled ==
  [][userPc = "insert" /\ userPc' = "idle" => map'[peers[joining].fd] = joining]_vars

\* close_sock shuts down connected sockets only, so that a reset connection is
\* closed when recv has reported its end.
ResetIsClosed ==
  [][\A p \in Made : AtEntry /\ i' = i + 1 /\ list[i].rev /\ list[i].fd = peers[p].fd
                      /\ peers[p].open /\ ~peers[p].data /\ peers[p].remote = "rstseen"
                      /\ map[peers[p].fd] = p
                        => ~peers'[p].open]_vars
=============================================================================
