# p2purr in TLA+

A verification project for p2purr, a small peer-to-peer library in C++: peers
accept and open TCP connections, and exchange packets that are framed by a
header. The modules are translated from `src/` and `include/`; paths below are
relative to the repository.

## The system

| Component | State | Operations |
|---|---|---|
| `Serializer` | none | `serialize_int16/32/64` and back, `serialize_float`, `deserialize_float` (a stub) |
| `Packet` | fields, `payload_len`, `pkt_len`; while it is rebuilt: `num_bytes_read`, `full_hdr_len`, the header and payload buffers, a pointer into the receive buffer | `build` (constructors), `rebuild` = `header_ready`, `rebuild_header`, payload loop |
| `SocketHelper` | descriptor, `is_sock_open`, `is_sock_init` | `init_server`, `server_accept_conns`, `connect_to_host`, `send_data`, `receive`, `close_sock` |
| `PeerConnHandler` | receive buffer and `*curr_buff_idx`, `current_pkt`, `completed_pkts` | `connect`, `send_pkt`, `recv_pkt`, `close` |
| `P2PurrServer` | `is_local_server_running`, `sock_to_peer_map`, `pollfd_list`, the limits | `start`, the poll thread (`start_async_poll`, `handle_new_client`, `handle_client_communications`, `remove_disconnected_peers`), `connect_to_peer`, `send_pkt_to_peer`, `stop` |
| kernel (external) | TCP stream, descriptor table | `poll`, `accept`, `recv`, `send`, `shutdown`, `close` |
| application | what it was given | `on_packet_received` |
| `main` | a static server | `start`; `stop` and `exit` from a SIGINT handler |
| `out.txt` | one file for all attachments | written by `output_to_file`, read by `process_input_file` |

One thread per server runs the poll loop; the application's thread calls
`connect_to_peer`, `send_pkt_to_peer` and `stop`. Both use the map, the poll
list and the connections without a lock. The poll thread hands packets to the
application through a callback. Two servers meet only in the TCP stream.

What is hard here:

* TCP cuts the stream anywhere. A chunk may end inside the three bytes that
  announce a header, inside or exactly behind the header, inside a payload, and
  may hold several packets.
* `send` is non-blocking, so a packet may be torn and the connection live on.
* Errors leave by exceptions that are caught far up, with a half-updated index,
  packet or list behind them.
* Descriptors are keys of the map and entries of the poll list, and the kernel
  gives a closed number to the next socket.
* `connect_to_peer` and `stop` change the tables under the poll thread.
* A thread reads `this->sock` and makes its system call later; `close_sock` in
  another thread may come between, and the number may belong to another socket
  by then. The peers that threads work on are destroyed when the map lets go.
* The poll thread is detached. It may wait in `poll` after `stop`, after the
  server was destroyed, and on a port where a new server listens.

What makes the components correct: the packets completed on a connection are
the packets sent, in order and whole (Packet, PeerConnHandler); the buffer has
room whenever `recv` is called (PeerConnHandler); the application gets what was
completed (PeerConnHandler); the map, the list and the descriptor table agree
(P2PurrServer); data and ends of connections are noticed (P2PurrServer,
SocketHelper); a call for one connection never reaches another one's socket, and
closed connections give their descriptors back (SocketHelper); `stop` returns,
and a server that says it runs is served (ServerLife); an attachment is whole
when the application is told of it (Attachment); numbers survive their encodings (Serializer, Packet).

## Modules

| Module | Models |
|---|---|
| `Packet` | how a packet under reconstruction consumes bytes: pure operators, no state |
| `PacketChannel` | abstract: what a connection promises to the applications at its ends |
| `PeerLink` | one connection: sending thread, stream, receiving poll thread, application; it implements `PacketChannel` |
| `MCPeerLink` | its instances |
| `PeerLink_proofs` | its theorems |
| `PeerLink_refinement` | the theorem that it implements `PacketChannel` |
| `SocketHelper` | the SocketHelpers of a process under several threads: close, send, receive, destruction, descriptors |
| `MCSocketHelper` | its instances |
| `SocketHelper_proofs` | its theorems |
| `P2PurrServer` | one server: poll thread, user thread, descriptor table, remote peers |
| `MCP2PurrServer` | its instances |
| `P2PurrServer_proofs` | its theorems |
| `ServerLife` | the servers of a process from constructor to destructor, their detached poll threads, SIGINT, exit |
| `MCServerLife` | its instance |
| `ServerLife_proofs` | its theorems |
| `Attachment` | `output_to_file` by several threads, packets handed over again, `process_input_file` of the same file |
| `MCAttachment` | its instance |
| `Attachment_proofs` | its theorems |
| `Serializer` | the encodings: pure operators |
| `Serializer_proofs` | shifts, remainders and the round trip of an integer |
| `PacketCodec` | fields and lengths of a packet, from a constructor to `rebuild_header`; a number serialized by itself |
| `MCPacketCodec` | its instances |
| `PacketCodec_proofs` | its theorems |

`PeerLink` extends `Packet` and instantiates `PacketChannel`; `PacketCodec`
extends `Serializer`. `ServerLife` and `Attachment` stand apart: the threads of
the one are the writers of the other, but no step of either depends on the state
of the other, or changes it.
`PeerLink`, `SocketHelper`, `P2PurrServer` and `ServerLife` are four views of
running servers, each with what its properties need: one connection with its
bytes; many sockets and threads with the steps of each system call; the tables
of one server; several servers with their lives. What one view splits the next
one takes as a step: `receive` is one step in `PeerLink`, where the socket has
one user, and three in `SocketHelper`.

`PROJECT.json` maps every definition to its lines; `PacketChannel` stands for no
lines of its own. Definitions whose comment begins with "Mutant of" are not part of a model: each is a
plausible bug, and shows that some property would notice it.

### Packet and PeerLink

A byte is its position in the stream. The sender records where each packet
starts, its payload length and how many of its bytes were written
(`sent[j] = [start, len, put]`); the receiver knows the position of the first
byte of `current_pkt` (`cur.first`), `num_bytes_read` (`cur.read`) and
`full_hdr_len` (`cur.full`). The parsing code depends on the stream's content
in three ways, and the model keeps those: whether the next byte is 0xFF
(`MayStart`: it is at a start, it never is in the rest of a prefix, it may be
anywhere else), whether the bytes are a prefix that a sender wrote (`Genuine`),
and which length a genuine header announces (`sent[j].len`).

| Code | Action |
|---|---|
| `send_pkt` -> `send_data`, one `send` per step | `SendPkt`, `SendSome`, `SendFails` (EAGAIN) |
| the peer closes, or the connection is reset | `PeerCloses`, `PeerResets` |
| `receive` in `recv_pkt` | `Receive`, `ReceiveError`, `ReceiveEof` |
| one turn of the loop in `recv_pkt`: `rebuild` | `RebuildShortPrefix`, `RebuildHeader`, `RebuildPayload`, `RebuildThrows`, `RebuildGarbles`, `RebuildCrashes` |
| the end of `recv_pkt` and the callback | `Deliver` |

Once `rebuild` has derived a header from bytes that no sender wrote as one, what
it does depends on those bytes; the model then sets `fate` to `garbled` and
follows the receiver no further. A null dereference sets `fate` to `crash`. The
receiving socket is one that was accepted, whose `close_sock` cannot fail; the
close of outbound sockets is in `P2PurrServer` and `SocketHelper`.

### PacketChannel and its refinement

A channel has the packets that the sender finished with, the packets completed
at the other end, which of them the application was shown, and a state: `sound`;
`ending`, when what was accepted may not be completed any more; `broken`, when
anything may be completed. `PeerLink` gives it `Accepted` (the lengths of
`sent`, without the packet under way), `Completed`, `delivered`, and
`ChannelState`: broken after a torn packet or a failure of `rebuild`, ending
after a reset or when an empty packet has wedged the receiver. The last byte
written by `send_data` is `Accept`; a failing send, a close or a reset with a
packet under way is `Tear`; the last byte of a payload is `Complete` (or, on a
broken channel, `Garble`); the callback is `Show`. Everything else is a stutter
or worsens the state. `ImplementsChannel` is this as a property of `PeerLink`;
`ImplementsFairly` adds that a sound channel completes what it accepted, and
shows the newest. (`NewestDelivered`, its safety side, is checked as a part of
`IInv`.)

### SocketHelper

Each helper has the code's `sock`, `is_sock_open` and `is_sock_init`, and
whether its object still exists. A thread has a program counter, the helper it
works on, and `reg`: what it read from `this->sock` for the system call it is
about to make. So `close_sock` is `shutdown`, `close`, and the assignments, each
a step; `send_data` alternates between reading `sock` and calling `send`; and
`recv` comes after `Receive` has read the number. The kernel's table `owner` says
which socket a number reaches when the call is made. A failed `shutdown` or
`close` leaves the helper as it was (`Refused`); the destructor calls `close_sock`
and then the object is gone, whether that worked or not.

| Thread | Actions |
|---|---|
| `Connectors` in `connect_to_peer` | `Construct`, `ConstructFails`, `Connect`, `ConnectFails`, `File`, `FileFails` |
| `Users` in `send_pkt_to_peer` | `SendPkt` (the search of the map), `SendLoads`, `SendSome`, `SendFails`, `SendKills` (SIGPIPE), `SendUsesFreed` |
| `Stoppers` in `stop` | `StopBegins`, `StopCloses` for each peer, `Clear` for each entry, `StopEnds` |
| the poll thread | `Accept`, `AcceptFails`, `Receive`, `RecvReturns`, `RecvEof`, `Drop`, `Sweep` |
| any of them in `close_sock` | `Shutdown`, `ShutdownFails`, `Release`, `ReleaseFails`, `Store` |

Three history variables let the properties say when the code is safe: `raced`
(a close overtook a thread between its read of `sock` and its call, or a thread
read `sock` between the close and the assignment), `misled` (a call reached
another socket than it was meant for) and `overlapped` (two threads sent to one
peer at once). When the process ends, or a destroyed object is used, the state
is collapsed (`Ends`): nothing is claimed beyond.

### P2PurrServer

The state after `start`: the server socket is open and first in the list. The
map is a function from descriptors, `Nobody` standing for a missing key. A peer
keeps the descriptor it had; the kernel's table `owner` says which connection a
number belongs to now. What is sent is abstracted to `data`.

What one thread does is split where the other one matters:

| Code | Actions |
|---|---|
| the scan's loop test, and the entry of a peer | `ScanSkip`, `ScanClient` |
| the loop test at the server socket's entry, line 238 | `ScanListener` |
| `accept` in `handle_new_client` | `Accept`, or `AcceptThrows` when nothing waits or `stop` has closed the socket since |
| the two insertions of `handle_new_client` | `Adopt` |
| `remove_disconnected_peers` | `Sweep` of the map, `Unwatch` of the list |
| `connect_to_peer` | `ConnectBegins` (the limit test), `ConnectSocket`, `ConnectSucceeds` or `ConnectFails`, `ConnectWatches` (`push_back`), `ConnectFiles` |
| `stop` | `StopBegins` (the flag), `CloseAll` (lines 206-208), `ClearTables` (210-211), `StopEnds` (the server socket) |

So `stop` may come between the poll thread's loop test and its `accept`. The
socket is closed then, and the exception of `accept` ends the process; or
`accept` gets a number that `stop` has closed and still has as a key, and the
newcomer is dropped.

The tables are shared without a lock, so a change by the user thread while the
poll thread is in code that uses the same table is undefined behaviour: such a
step leads to `fate = "undefined"` or goes on as if it were atomic (`Race`).
`push_back` while the thread waits in `poll` may free the buffer that the kernel
writes to: the revents of the list then stay as they were, which for a fresh
entry means uninitialised.

### ServerLife

A server has its flag, the state of its socket and of its thread object. Its poll
thread is at the loop test, before `poll`, in `poll`, or behind it at the server
socket's entry, in `accept`, or at the entries of peers.

| Code | Actions |
|---|---|
| constructor | `Construct` |
| `start` | `StartBinds`, `StartLaunches`, `StartDetaches`; `StartExits` for a bind or listen that fails, and for a second `start` |
| `stop` | `StopBegins` (the flag), `StopShuts` (the connections, and `shutdown` of the server socket), `StopCloses` (its `close`), `StopJoins`, which joins only a thread that is not detached |
| destructor | `Destroy`, with `stop` in it if the server runs |
| `sig_handler` and `exit` | `Signal`, wherever the main thread is except in the handler itself; `Exits` |
| the poll thread | `PollTests`, `PollEnters`, `PollReturns`, `PollRechecks`, `PollSees`, `PollAccepts`, `PollThrows`, `PollReads` |

Three facts about the kernel matter. `SO_REUSEPORT` lets a server listen on a port
that another one listens on, and a connection goes to any of them. `poll` keeps
the sockets it waits on open, so that a socket closed by `stop` goes on taking
connections until the thread behind it wakes. And `shutdown` of a listening socket
does not end the listening, but wakes `poll`: the thread looks at its descriptors
again (`PollRechecks`), returns if `stop` has closed one of them by then (POLLNVAL)
or if one is readable, and else goes back to sleep.

A step of a thread whose server is destroyed is undefined behaviour
(`PollTouches`). `provoked` records that the thread was not asleep when its server
went - because it was at work, or because `stop`'s own `shutdown` had woken it - or
that something from outside reached a socket of a server that was destroyed.

The branch of `stop` for a `close_sock` that fails is left out: on Linux neither
`shutdown` nor `close` of a listening socket does.

### Attachment

`out.txt` is a sequence of bytes, tagged with the attachment they are of; an
earlier run may have left something in it (`Earlier`). Each poll thread is opening
the file, writing it, or in the callback; the main thread reads it block by block.

| Code | Actions |
|---|---|
| `rebuild` completes a file packet | `Rebuilds` |
| it completes another packet, or the connection goes | `RebuildsOther` |
| `output_to_file` | `OpenOut`, `OpenFails`, `WriteOut`, `WriteFails` |
| `recv_pkt` completes nothing, and returns the last packet again | `Redelivers` |
| `on_packet_received` | `CallbackReturns` |
| `process_input_file` | `ReadOpens`, `ReadBlock`, `ReadEnds` |

A packet is handed over whether or not its attachment could be written, and the
last packet of a connection again and again, whatever other connections have
written to the file meanwhile (`last`). Three history variables say when a file
can be relied on: `lost` has the attachments that were not written whole or were
written over; `torn` says that `out.txt` was opened while another thread wrote it,
or that a write has failed; `reader.dirty`, that it changed under the reader.

### Serializer and PacketCodec

A byte has `Base` values. With `Base = 4` every 8-byte number can be tried; the
code's masks and shifts are remainders and divisions by powers of `Base`
(`Power`), so nothing depends on 256 but the size of the numbers. With `Base = 4`
a `hdr_len` of 9 has its sign bit set as an `int16_t`, which the code's 9 has not:
the case that needs `hdr_len` to be unsigned is then always the one tried. Build
and rebuild keep the code's widths: lengths are uint, packet lengths int.
`full_hdr_len` and `hdr_len` are the code's 12 and 9 here.

The word of `serialize_float` is the set of its bits that are 1, of `WordBits`
(64 in the code). The code assigns the sign of a negative number only, so that of
a positive one is any word; it is shifted by one bit more than IEEE 754 has below
it; and a shift by the width of the word, which is what `DOUBLE_PRECISION` asks
for, is undefined, hence again any word. So `SerializedFloat` is the set of the
words that may come out. HALF_PRECISION, for which the code sets no widths, and
the precisions with a longer significand than a long double has are left out.

Two ways in which lengths go wrong are in the model and nothing is claimed of
them: a payload that makes `pkt_len` overflow its int is copied beyond the buffer
(outcome `undefined`), and of a file of 4 GiB or more only the low bytes of the
size are kept.

## Runs

| Run | Configuration | Shows |
|---|---|---|
| `link_safety` | header 4, buffer 11, kernel buffers 11, payloads 0..2, 3 packets, fair | framing, buffer, delivery, reasons of failure, end of stream; that the inductive invariant holds; that a closed or reset connection is drained and closed; that the abstract channel is implemented, with its fairness |
| `link_once`, `link_all`, `link_chunks` | as above, payloads 1..2 where empty packets would obscure it | violations, see Findings |
| `server_safety` | limits 1 and 1, 3 sockets | map, list and descriptors agree; limits; stop; a vain accept ends the process only during `stop` |
| `server_liveness` | limits 1 and 1, 2 sockets, fair | inbound data is read; outbound data too, unless `poll` sleeps for ever |
| `server_filed`, `server_reset` | 2 to 3 sockets | violations, see Findings |
| `sockets` | 2 sockets, 1 descriptor, 2 packets of 2 pieces; one user connects, the other stops, both send | closed sockets are released; a call is misled only after a race; what leaks; whose objects are destroyed; packets unbroken |
| `life` | 2 servers, 2 connections at a time, fair | a running server is served; a thread left behind is harmless unless provoked; `stop` returns; no connection waits for ever |
| `files` | 2 threads with 2 connections each, 2 attachments of 1 to 3 bytes, blocks of 2, up to 3 bytes of an earlier file | `out.txt` is whole when the application is told of it, and when it is read, unless one of the named things happened |
| `codec_roundtrip` | `Base` 4, every payload length, file sizes to 268; every 8-byte integer; words of 7 bits, floats with 3 bits of exponent and 2 or 3 of significand, cut from 4 | fields and lengths survive, or the packet is empty and refused; integers survive; a float can be read back |

Bounds. The header has 12 bytes in the code; what matters is that it is longer
than its prefix of three, so that chunks can end before, in and behind both. The
buffer of 11 bytes holds two packets of the smallest kind and part of a third,
so that one chunk completes two packets and splits the next, and a chunk can
fill it. Three packets are needed for one torn, one whole and one behind it.
The proofs remove these bounds. Three sockets give a descriptor to a second
owner while a third connection is open, two dead peers in one sweep, and one
inbound connection more than the limit admits. The bound is on sockets ever made
(`MaxPeers`), counting the backlog. `server_liveness` has two: the peer that is
to be served and one that interferes.

`sockets` has a single descriptor, so that every new socket takes the number of
the last one closed, the case its properties are about; each of the races needs
one thread that closes, one that opens and one that holds an old number, and
there are three threads. Two packets are needed for two senders at one peer, and
two pieces for a send that is partial. In `life` two servers give a new one beside
an old thread, and two connections compete for a thread; each may be made again
after it has ended, so that one that outlives its server and one that finds a new
server are both tried. In `files` two threads are two writers of `out.txt`, and two
connections of one thread are enough for one to write over what the other hands
over again. With blocks of 2, an attachment of 1 byte does not fill a block, one of
2 fills it exactly, and one of 3 needs a second. In `codec_roundtrip` the
precisions have 6 and 7 bits with the sign: the first leaves room in a word of 7
bits for a sign one place too high, as SINGLE_PRECISION does in the code's, and the
second does not, as DOUBLE_PRECISION.

Deadlock is checked in `files`, where the reader can always go on. The other
systems may stop: a link when the stream is drained and closed or `MaxPkts` is
spent, a server when it is stopped, a process when it ends or its bounds are spent,
and the pure modules after one call.

Fairness. `PeerLink`'s receiver is fair: `poll` reports a readable descriptor
until it is read, and the poll thread loops as long as the server runs. Nothing
is assumed of the sender or the network. In `P2PurrServer` the poll thread is
fair as a whole; that is the operating system's scheduling and no more, since
`PollReturn` is enabled only if poll has something to report. The user thread
and the remote peers may stop at any step. `OutboundServedWhenAwake` has a premise
of its own: `poll` does not sleep for ever. In `ServerLife` every poll thread is
fair, and the main thread is fair inside a call (`MainGoesOn`): it need not make
another call. A thread in `poll` with nothing to report is not enabled.
`ImplementsFairly` needs the receiver's fairness alone: the abstract channel owes
nothing for a packet that the sender has not finished.

## Findings

* A packet is delivered again by later calls of `recv_pkt`, and of packets that
  one chunk completes only the newest is delivered (`DeliveredOnce`,
  `AllDelivered`; `peerconnhandler.cpp:94`).
* Any chunk that ends one or two bytes into a packet breaks the framing or the
  process, not only chunks shorter than three (`LongChunkKeepsPrefix`;
  `packet.cpp:203`).
* A connection made while its descriptor is still filed for a closed peer is
  dropped and reported successful (`SuccessMeansFiled`; `p2purr_server.cpp:110`).
* An outbound connection that was reset cannot be closed
  (`ResetIsClosed`; `sockethelper.cpp:356`).

Properties that hold also record what a reader of the code might not expect:

* One connection more than `max_inbound_connections` is accepted (`ConnBound`;
  `p2purr_server.cpp:74` tests with `>`).
* `stop` may end the process: when it closes the server socket between the poll
  thread's loop test and its `accept`, nothing catches the exception
  (`InboundOnlySurvives`; `p2purr_server.cpp:238,244`).
* A connection made while the poll thread sleeps is not served until something
  else wakes it (the premise of `OutboundServedWhenAwake`;
  `p2purr_server.cpp:231` waits without a timeout).
* A thread that `stop` leaves behind may use a server that is destroyed, woken by
  nothing but `stop`'s own `shutdown` (`HarmlessUnlessProvoked`;
  `sockethelper.cpp:355`).
* The application may be told of an attachment that is not in `out.txt`
  (`WholeAtCallback`; `packet.cpp:376`, `peerconnhandler.cpp:94`).
* The sign of a serialized float is one bit higher than IEEE 754 has it, and garbage
  for a positive number (`FloatReadsBack`; `serializer.cpp:8,27`).

## Proofs

Every invariant that a passing run checks is a theorem, for all values of the
constants that the modules' assumptions admit; so are the two properties of steps,
`EmptyPacketEndsReception` and `ImplementsChannel`. Each module of proofs has one
inductive invariant `IInv`, the theorem `Inductive` (`Spec => []IInv`), and the
properties as consequences. Each `IInv` was model-checked on the instance of the
component's run before it was proved. There is a lemma per action (`...Inv`,
`...Keeps`), and lemmas for the steps that disturb only a part of the state
(`...Frame`).

### PeerLink

`PeerLink_proofs`, for every header length above three, every buffer size, every
set of payload lengths and any number of packets (`HdrLenAssumption`,
`LinkAssumption`):

| Theorem | States |
|---|---|
| `TypeCorrect` | the type invariant |
| `FramingCorrect` | `CompletedIntact`: what is rebuilt is what was sent |
| `BufferAlwaysReady` | `BufferReady` |
| `DeliveryCorrect` | `NewestDelivered` |
| `BrokenOnlyThen` | `BrokenOnlyBySplitOrTear` |
| `EmptyPacketIsFatal` | `EmptyPacketEndsReception`, an action property |
| `NothingLostAtEof` | `AllRebuiltAtEof`: nothing sent whole is left over at the end of the stream |

and `PeerLink_refinement`, from the same assumptions,

| Theorem | States |
|---|---|
| `Refinement` | `ImplementsChannel`: the connection implements `PacketChannel!Spec` |

`CompletedIntact` is not inductive: that the next packet completed is the next
one sent needs to know where the packet under reconstruction began. The
strengthening `IInv` adds

* `Layout`: packets lie behind one another in the stream, without overlap;
* `StreamBounds`: what was read is available, what is available was written;
* `BufferBounds`: index, chunk length and stream position fit together;
* `CurrentShape`: a header is allocated only from a prefix read in one piece at
  the start of some packet, and reading has gone on without a gap since;
* `Aligned`: if nothing up to the last completed packet was torn, the packet
  under reconstruction begins where that one ends.

The key lemmas are `NextPacket` and `ThisPacket`: a packet that starts where the
last completed one ends is the next one sent, because packets do not overlap and
an untorn packet fills its place (`Filled`). `ReceiverIdle` and `PendingInv` carry
the parts that most steps leave alone.

`AllRebuiltAtEof` needs a second invariant on top, `EofInv`: a header that has
been read belongs to a packet that is empty or not complete (`Unfinished`), and a
socket is closed only when all that arrived has been parsed, which is all that was
written if the peer closed (`Drained`). Then a packet not completed would begin
where the last one ends, have been read to its end, and still be unfinished
(`NothingMissing`).

`Refinement` rests on `IInv`. Its lemmas name the step of the channel that a step
of the connection is: `SendSomeStep` (`Accept` or a stutter), `CutStep` (`Tear`),
`RebuildPayloadStep` (`Complete` or `Garble`), `DeliverStep` (`Show`), `QuietStep`
for the rest. `Worsens` shows that the state never improves: a torn packet stays
torn (`TornKept`), and a wedged receiver stays wedged. The delicate
case is a send that completes a header which the receiver waits in: `WedgedBefore`
shows that without a torn packet the receiver's header was complete before, since
it has not read what was not written. That the packet completed is the next one
accepted is `CompletedIntact`, and it has been accepted because its last byte was
written before it was read (`Layout`, `StreamBounds`).

### P2PurrServer

`P2PurrServer_proofs`, for any limits, any number of connections and descriptors
(`ServerAssumption`):

| Theorem | States | Rests on |
|---|---|---|
| `TypeCorrect` | the type invariant | |
| `NeverMisdelivered` | `KeyedBySocket` | `OpenOwns`, `FiledMade` |
| `AcceptFindsFree` | `AcceptFresh` | `NoneDead` |
| `ConnectionsBounded` | `ConnBound` | `Slots` |
| `ServerIsFirst` | `ServerFirst` | |
| `InboundIsWatched` | `InboundWatched` | `Removing`, `OpenOwns` |
| `NothingElseIsWatched` | `NothingElseWatched` | `Removing` |
| `InboundOnlyEndsInStop` | `InboundOnlySurvives` | `PolledList`, `HonestPollin` |
| `StopCloses` | `StopClosesFiled` | `OpenKnown` |

* `OpenOwns`, `FiledMade`: an open socket has its descriptor for itself, and a
  key of the map is the descriptor that its connection was made with. This ties
  the three tables together through the reuse of numbers.
* `NoneDead`: from the end of a sweep to the next scan's first entry the map of a
  running server files no closed connection. So a number that `accept` returns,
  which no open socket has, is no key either, unless `stop` is between its closes
  and its clear.
* `NewcomerOpen`, `JoiningOpen`, `StopOrder`: what the two threads hold between
  two steps; `stop` clears the flag before it closes anything.
* `Slots` counts the connections filed and those that passed a test of a limit
  and are not filed yet.
* `Removing`: a descriptor on its way out of the list belongs to no connection
  accepted since. The sweep tests the list while it erases from it; the lemma
  `UnwatchedShape` says what is left.
* `PolledList`, `HonestPollin`: what `poll` was told, and that the listener's
  POLLIN is true while nobody extends the list under it.
* `OpenKnown`: an open connection is filed, or held by a thread that will file
  it, or one that `close_sock` could not close.

### SocketHelper

`SocketHelper_proofs`, for any number of threads in each role, sockets,
descriptors, packets and pieces of a packet (`SocketAssumption`):

| Theorem | States | Rests on |
|---|---|---|
| `TypeCorrect` | the type invariant | |
| `ClosedGaveBack` | `ClosedIsReleased` | `Owned`, `StoreFree` |
| `OpenIsItsOwn` | `OpenOwnsSocket` | `Owned`, `Registers` |
| `OnlyRacesMislead` | `MisledOnlyByRace` | `Registers` |
| `LeaksOnlyResets` | `LeakOnlyAfterReset` | `Alone`, `Connected` |
| `ReceiverIsSafe` | `ReceiverHoldsPeer` | `Alive`, `Alone` |
| `DropsOnlyTheEnded` | `DroppedOnlyAtEnd` | `ClosedAtEnd`, `Fresh` |
| `PacketsStayWhole` | `PacketsUnbroken` | `HalfSent` |

* `Owned`: a descriptor belongs to the open helper that has its number.
  `Registers`: what a thread has read of `this->sock` is that number still, unless
  the socket was closed since; without a race it leads to the thread's own socket.
  `StoreFree`: between `close` and the assignments the number is free already.
* `Roles`, `Alone`, `Fresh`, `Alive`, `StopPhase`: who works on what. Whoever has
  the last `shared_ptr` shares the peer with nobody but threads that are sending,
  and what is filed or in the hands of the poll thread is alive.
* `Connected`, `ClosedAtEnd`: an initialised socket was connected and is shut down
  only by a race; the running server closes what has come to its end.
* `HalfSent`: a packet half sent is the last thing in its stream.

`close_sock` has callers in every thread. Its steps are proved once, for whoever
is in it (`InClose`, `LastRef`, `InStop`), with one lemma for the entry and one for
the return; `ThreadFrame`, `SocketFrame`, `EndFrame` and `StreamFrame` carry the
four parts of the invariant through steps that leave them alone.

### ServerLife

`ServerLife_proofs`, for any number of servers and connections (`LifeAssumption`):

| Theorem | States | Rests on |
|---|---|---|
| `TypeCorrect` | the type invariant | |
| `RunningIsTrue` | `RunningMeansServed` | `MainKnows`, `RunningIsServed` |
| `LeftoversAreHarmless` | `HarmlessUnlessProvoked` | `GoneSleeps`, `Placed` |

`MainKnows` and `RunningIsServed` are what the main thread knows of the server it
starts or stops, wherever SIGINT catches it. `GoneSleeps`: the thread of a
destroyed server sleeps in `poll`, with nothing to wake it, unless provoked;
`Placed` gives each connection a server, so that what reaches a sleeping thread is
known to reach a destroyed one.

### Attachment

`Attachment_proofs`, for any number of threads and connections, attachments of any
length and blocks of any size (`FileAssumption`):

| Theorem | States | Rests on |
|---|---|---|
| `TypeCorrect` | the type invariant | |
| `CallbackSeesItsFile` | `WholeAtCallback` | `Own`, `FindsItsOwn`, `LastIsThere` |
| `PacketCarriesWhole` | `ReadIsWhole` | `OneWriter`, `IsSettled`, `ReadsOn` |

* `Own`: while a thread takes an attachment to `out.txt`, no other thread has it.
  `FindsItsOwn`: it finds there what it has written, unless the attachment is lost.
  `LastIsThere`: so is the last attachment of every connection, which may be handed
  over again at any time.
* `OneWriter`: unless the file is torn, one thread at most is writing it, and it has
  the beginning of that thread's attachment. `IsSettled`: when nobody is writing,
  a whole attachment, or what was there before. `ReadsOn`: an undisturbed reader has
  read the beginning of the file, which does not change under it.

### Serializer and PacketCodec

`Serializer_proofs`, for any even number of values of a byte (`BaseAssumption`):

| Theorem | States |
|---|---|
| `RoundTrip` | `Deserialized(Serialized(num, w)) = Signed(num, w)`, for every integer and any number of bytes |

and `PacketCodec_proofs`, if moreover `hdr_len` fits its two bytes, for all fields,
payloads and files, every width of the word (`WordAssumption`) and every precision
that a long double can fill (`CodecAssumption`):

| Theorem | States |
|---|---|
| `HeaderSurvives` | `FieldsSurvive` |
| `IntsAlwaysSurvive` | `IntsSurvive` |
| `FloatAlwaysReadsBack` | `FloatReadsBack` |

These need induction, on powers and on the bytes read. It is done with the least
counterexample: a nonempty set of natural numbers has a least element (`Least`,
from `WFMin` of the library). The recursive functions are unfolded from a proof
that they exist (`TableExists`, `PartialExists`). The provers know nothing of `^`,
so the modules use `Power`, whose laws are `PowerLaw` and `PowerSum`. `RoundTrip`
rests on `PartialIsHigh`: after k bytes `result` is the number's high bytes, up to
a multiple of `Power(Base, k)`; what the shifts push out at the top, and the
conversions to the signed type, are such multiples. `HeaderParts` says where the
fields of a header are, and `LengthsReturn` that both of its lengths come back
through the signed types. For floats, `BitsFit` bounds the bits that a number
needs, `ExponentFits` and `SignificandFits` apply it, and `WordParts` concludes that
exponent and significand fill disjoint parts of the word, below whatever the sign
brings; `FractionCut` is the rounding towards zero.

### Model-checked only

The liveness properties: `ClosedAfterPeer`, `ImplementsFairly`, `InboundServed`,
`OutboundServedWhenAwake`, `StopReturns` and `BacklogDrains`. They rest on fairness and ENABLED, which are out
of the prover's reach. The violations under Findings are TLC's too.

## Not modelled

* Windows: `start_async_select` is empty, and `init_windows` is not built here.
* The text of addresses, exceptions and logs; of the socket options all but
  `SO_REUSEPORT`; failures of `fcntl`, `setsockopt` and thread creation.
* Data races at a finer grain than the steps above; they are undefined
  behaviour, for which `Race` stands, and `raced` where a property needs to know.
* That the SIGINT handler calls functions which are not async-signal-safe.
* `deserialize_float`: a stub in the code.
* The setters of role, keepalive and mute: nothing reads what they set.
* The failure branch of `stop`, which cannot be reached on Linux; the precisions of
  `serialize_float` named above.
* Memory: `completed_pkts` grows for ever, in the model as in the code.
* What a receiver does after it has derived a header from foreign bytes.

## Plan

Done: all the modules above, with their runs, and the theorems about each
component. Next:

1. Abstract specifications of `Attachment` (a file that is replaced as a whole)
   and of one socket of `SocketHelper` (open, then closed, and its number given
   back), and that the detailed ones implement them.
2. Action properties: a closed socket is never open again, a key of the map is
   never given to another connection while the first is open.
3. The bytes of a payload: that `make_pkt` copies each to its place, for payloads
   and files within the widths.
