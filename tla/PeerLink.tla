------------------------------ MODULE PeerLink ------------------------------
(***************************************************************************)
(* One established connection between two peers: the thread that sends     *)
(* packets (PeerConnHandler::send_pkt over SocketHelper::send_data), the   *)
(* TCP stream between them, and the poll thread of the other side that     *)
(* receives chunks, rebuilds packets and hands them to the application     *)
(* (PeerConnHandler::recv_pkt, P2PurrServer::handle_client_communications).*)
(*                                                                         *)
(* A byte is its position in the stream.  The sender records where each    *)
(* packet starts and how much of it was written, so that a property can    *)
(* compare what was rebuilt with what was sent.                            *)
(***************************************************************************)
EXTENDS Packet, Integers, Sequences

CONSTANTS
  BuffSize,     \* bytes of the receive buffer: 1500 in PeerConnHandler
  SockCap,      \* bytes the two kernels buffer between send and recv
  PayloadLens,  \* the payload lengths a sender uses
  MaxPkts       \* bound: packets a sender starts on the connection

ASSUME LinkAssumption ==
  /\ BuffSize \in Nat \ {0}
  /\ SockCap \in Nat \ {0}
  /\ PayloadLens \subseteq Nat
  /\ MaxPkts \in Nat \ {0}

VARIABLES
  sent,       \* packets given to send_data: [start, len, put]
  sending,    \* send_data is in its loop for the last packet of sent
  link,       \* "up", "fin" after a close, "rst" after a reset, "rstseen"
  avail,      \* bytes of the stream that recv may still return or has returned
  taken,      \* bytes of the stream recv has returned
  pos,        \* *curr_buff_idx
  len,        \* recv_len of the recv_pkt call under way
  cur,        \* current_pkt; it is null iff cur.read = 0
  completed,  \* completed_pkts: [first, len] of each
  pc,         \* the poll thread: outside recv_pkt, in its loop, or behind it
  open,       \* is_sock_open of the receiving socket
  fate,       \* what the receiving process has come to
  delivered,  \* indices in completed of the packets on_packet_received got
  again       \* on_packet_received got some packet a second time

senderVars == <<sent, sending>>
streamVars == <<link, avail>>
recvVars == <<taken, pos, len, cur, completed, pc, open, fate>>
appVars == <<delivered, again>>
vars == <<senderVars, streamVars, recvVars, appVars>>

PacketRec == [first : Nat, read : Nat, full : {0, HdrLen}]
SentRec == [start : Nat, len : PayloadLens, put : Nat]
DoneRec == [first : Nat, len : PayloadLens]

\* The type invariant.
TypeOK ==
  /\ sent \in Seq(SentRec)
  /\ sending \in BOOLEAN
  /\ link \in {"up", "fin", "rst", "rstseen"}
  /\ avail \in Nat /\ taken \in Nat
  /\ pos \in Nat /\ len \in 0..BuffSize
  /\ cur \in PacketRec
  /\ completed \in Seq(DoneRec)
  /\ pc \in {"poll", "parse", "deliver"}
  /\ open \in BOOLEAN
  /\ fate \in {"ok", "crash", "garbled"}
  /\ delivered \subseteq Nat
  /\ again \in BOOLEAN
-----------------------------------------------------------------------------
(* What was sent *)

Whole(j) == sent[j].put = PktLen(sent[j].len)

\* send_data gave up in the middle of the packet (or before its first byte).
Torn(j) == ~Whole(j) /\ ~(j = Len(sent) /\ sending)

Written == IF sent = <<>> THEN 0 ELSE sent[Len(sent)].start + sent[Len(sent)].put

InFlight == avail - taken

StartsPacket(at) == \E j \in 1..Len(sent) : sent[j].start = at /\ sent[j].put > 0

\* The first n bytes of a packet are in the stream from position at on.
Genuine(at, n) == \E j \in 1..Len(sent) : sent[j].start = at /\ sent[j].put >= n

\* May the byte at this position be 0xFF?  The start symbol is; the other two
\* bytes of the prefix are 0 and HdrLen - 3, never 0xFF; the rest of a header
\* (the bytes of payload_len) and a payload may hold anything.
MayStart(at) ==
  IF StartsPacket(at) THEN {TRUE}
  ELSE IF \E j \in 1..Len(sent) :
            at \in (sent[j].start + PrefixLen)..(sent[j].start + sent[j].put - 1)
       THEN BOOLEAN
       ELSE {FALSE}
-----------------------------------------------------------------------------
(* The chunk being parsed *)

Left == len - pos               \* bytes of the chunk not consumed yet

Cursor == taken - Left          \* stream position of the next byte

\* Mutant of Current: a new Packet for every chunk.
CurrentPerChunk == IF pos = 0 THEN NewPacket(Cursor) ELSE cur

\* current_pkt, created if it is null.
Current == IF cur.read = 0 THEN NewPacket(Cursor) ELSE cur

\* The header of the current packet is complete and announces no payload.
Wedged ==
  \E j \in 1..Len(sent) :
    /\ cur.read >= HdrLen
    /\ sent[j].start = cur.first /\ sent[j].put >= HdrLen /\ sent[j].len = 0

\* Mutants of Consumed: the rest of the chunk is dropped; the buffer is cleared
\* only by an index beyond the chunk.
ConsumedOnce(to) == pos' = 0 /\ pc' = "deliver"
ConsumedBeyond(to) ==
  /\ pos' = IF to <= len THEN to ELSE 0
  /\ pc' = IF to < len THEN "parse" ELSE "deliver"

\* The end of one turn of the loop in recv_pkt at index to: another turn if
\* bytes of the chunk are left, else clear_buff and on behind the loop.
Consumed(to) ==
  /\ pos' = IF to < len THEN to ELSE 0
  /\ pc' = IF to < len THEN "parse" ELSE "deliver"
-----------------------------------------------------------------------------
Init ==
  /\ sent = <<>> /\ sending = FALSE
  /\ link = "up" /\ avail = 0
  /\ taken = 0 /\ pos = 0 /\ len = 0
  /\ cur = NewPacket(0) /\ completed = <<>>
  /\ pc = "poll" /\ open = TRUE /\ fate = "ok"
  /\ delivered = {} /\ again = FALSE
-----------------------------------------------------------------------------
(* The sending peer *)

\* send_pkt enters send_data with a built packet.
SendPkt(l) ==
  /\ link = "up" /\ ~sending /\ Len(sent) < MaxPkts
  /\ sent' = Append(sent, [start |-> Written, len |-> l, put |-> 0])
  /\ sending' = TRUE
  /\ UNCHANGED <<streamVars, recvVars, appVars>>

\* One send call that the kernel takes n bytes of; the last leaves the loop.
SendSome(n) ==
  LET j == Len(sent) IN
  /\ link = "up" /\ sending
  /\ n <= PktLen(sent[j].len) - sent[j].put /\ InFlight + n <= SockCap
  /\ sent' = [sent EXCEPT ![j].put = @ + n]
  /\ avail' = avail + n
  /\ sending' = (sent[j].put + n < PktLen(sent[j].len))
  /\ UNCHANGED <<link, recvVars, appVars>>

\* send on the non-blocking socket fails with EAGAIN: the kernels' buffers are
\* full.  SendException is caught in send_pkt, and the rest of the packet is
\* never sent although the connection stays up.
SendFails ==
  /\ link = "up" /\ sending /\ InFlight = SockCap
  /\ sending' = FALSE
  /\ UNCHANGED <<sent, streamVars, recvVars, appVars>>

\* The peer's end of the connection is closed, by close or by its process
\* ending, even in the middle of a packet.
PeerCloses ==
  /\ link = "up"
  /\ link' = "fin" /\ sending' = FALSE
  /\ UNCHANGED <<sent, avail, recvVars, appVars>>

\* The connection is reset; bytes in flight may be lost.
PeerResets(kept) ==
  /\ link = "up" /\ kept \in taken..avail
  /\ link' = "rst" /\ avail' = kept /\ sending' = FALSE
  /\ UNCHANGED <<sent, recvVars, appVars>>
-----------------------------------------------------------------------------
(* The poll thread in recv_pkt *)

Polled == pc = "poll" /\ open /\ fate = "ok"

\* recv returns n bytes: parse them if *pos < recv_len, else skip the loop.
Receive(n) ==
  /\ Polled
  /\ n <= BuffSize - pos /\ n <= InFlight
  /\ taken' = taken + n /\ len' = n
  /\ pc' = IF pos < n THEN "parse" ELSE "deliver"
  /\ UNCHANGED <<pos, cur, completed, open, fate, senderVars, streamVars, appVars>>

\* recv reports a reset once, as -1: ReceiveException, and recv_pkt is over.
ReceiveError ==
  /\ Polled /\ InFlight = 0 /\ link = "rst"
  /\ link' = "rstseen"
  /\ UNCHANGED <<avail, recvVars, senderVars, appVars>>

\* Mutants of EofSeen: before every byte is read; and for a close only.
EofEarly == link \in {"fin", "rstseen"}
EofOfClose == InFlight = 0 /\ link = "fin"

\* The next recv returns 0: the peer has closed, or its reset was reported, and
\* every byte before that has been read.
EofSeen == InFlight = 0 /\ link \in {"fin", "rstseen"}

\* recv returns 0: the socket is closed and recv_pkt goes on with recv_len 0.
ReceiveEof ==
  /\ Polled /\ EofSeen
  /\ open' = FALSE /\ len' = 0 /\ pc' = "deliver"
  /\ UNCHANGED <<taken, pos, cur, completed, fate, senderVars, streamVars, appVars>>

\* rebuild loses a prefix that is not complete at the end of the chunk.
RebuildShortPrefix ==
  /\ pc = "parse" /\ fate = "ok"
  /\ \E starts \in MayStart(Cursor) : LosesPrefix(Current, Left, len, starts)
  /\ cur' = [Current EXCEPT !.read = @ + Left]
  /\ Consumed(len)
  /\ UNCHANGED <<taken, len, completed, open, fate, senderVars, streamVars, appVars>>

\* rebuild takes header bytes up to the end of the chunk and stays pending.
RebuildHeader ==
  /\ pc = "parse" /\ fate = "ok"
  /\ HeaderFramed(Current, Left, Genuine(Cursor, PrefixLen))
  /\ HeaderPending(Current, Left)
  /\ cur' = Advanced(Current, Left)
  /\ Consumed(len)
  /\ UNCHANGED <<taken, len, completed, open, fate, senderVars, streamVars, appVars>>

\* rebuild completes the header if need be, and takes payload bytes; the packet
\* that sent[j] announces goes to completed_pkts when its last byte is there.
RebuildPayload(j) ==
  LET p == Current
      n == PacketTake(p, Left, sent[j].len)
      done == p.read + n = PktLen(sent[j].len)
  IN
  /\ pc = "parse" /\ fate = "ok"
  /\ HeaderFramed(p, Left, Genuine(Cursor, PrefixLen)) /\ ~HeaderPending(p, Left)
  /\ sent[j].start = p.first /\ sent[j].put >= HdrLen /\ sent[j].len > 0
  /\ cur' = IF done THEN NewPacket(0) ELSE Advanced(p, n)
  /\ completed' = IF done THEN Append(completed, [first |-> p.first, len |-> sent[j].len])
                  ELSE completed
  /\ Consumed(pos + n)
  /\ UNCHANGED <<taken, len, open, fate, senderVars, streamVars, appVars>>

\* rebuild_header throws for a payload length of zero.  recv_pkt ends without
\* clear_buff and without a packet to deliver; the packet stays current.
RebuildThrows(j) ==
  LET p == Current
      n == HeaderTake(p, Left)
  IN
  /\ pc = "parse" /\ fate = "ok"
  /\ HeaderFramed(p, Left, Genuine(Cursor, PrefixLen)) /\ ~HeaderPending(p, Left)
  /\ sent[j].start = p.first /\ sent[j].put >= HdrLen /\ sent[j].len = 0
  /\ cur' = Advanced(p, n)
  /\ pos' = pos + n /\ pc' = "poll"
  /\ UNCHANGED <<taken, len, completed, open, fate, senderVars, streamVars, appVars>>

\* rebuild derives a header from bytes that no sender wrote as one.  What it
\* does from then on depends on them; the model follows it no further.
RebuildGarbles ==
  /\ pc = "parse" /\ fate = "ok"
  /\ \/ \E starts \in MayStart(Cursor) :
          MisreadsPrefix(Current, Left, len, starts, Genuine(Cursor, PrefixLen))
     \/ /\ HeaderFramed(Current, Left, Genuine(Cursor, PrefixLen))
        /\ ~HeaderPending(Current, Left)
        /\ ~Genuine(Current.first, HdrLen)
  /\ fate' = "garbled"
  /\ UNCHANGED <<taken, pos, len, cur, completed, pc, open, senderVars, streamVars, appVars>>

\* rebuild_header reads through the null header: the process dies.
RebuildCrashes ==
  /\ pc = "parse" /\ fate = "ok"
  /\ \E starts \in MayStart(Cursor) : DereferencesNull(Current, len, starts)
  /\ fate' = "crash"
  /\ UNCHANGED <<taken, pos, len, cur, completed, pc, open, senderVars, streamVars, appVars>>

\* Mutant of Newest: completed_pkts.at(0).
Oldest == IF completed = <<>> THEN 0 ELSE 1

\* completed_pkts.at(completed_pkts.size() - 1), as an index from 1.
Newest == Len(completed)

\* The end of recv_pkt: the newest completed packet, if there is one, goes to
\* the application, whether or not this call completed it.
Deliver ==
  LET newest == Newest IN
  /\ pc = "deliver" /\ fate = "ok"
  /\ delivered' = IF newest > 0 THEN delivered \cup {newest} ELSE delivered
  /\ again' = (again \/ newest \in delivered)
  /\ pc' = "poll"
  /\ UNCHANGED <<taken, pos, len, cur, completed, open, fate, senderVars, streamVars>>
-----------------------------------------------------------------------------
Sender ==
  \/ \E l \in PayloadLens : SendPkt(l)
  \/ \E n \in 1..SockCap : SendSome(n)
  \/ SendFails

Network ==
  \/ PeerCloses
  \/ \E kept \in taken..avail : PeerResets(kept)

Receiver ==
  \/ \E n \in 1..BuffSize : Receive(n)
  \/ ReceiveError
  \/ ReceiveEof
  \/ RebuildShortPrefix
  \/ RebuildHeader
  \/ \E j \in 1..Len(sent) : RebuildPayload(j) \/ RebuildThrows(j)
  \/ RebuildGarbles
  \/ RebuildCrashes
  \/ Deliver

Next == Sender \/ Network \/ Receiver

Spec == Init /\ [][Next]_vars

\* poll reports a readable descriptor again until it is read, and the poll
\* thread loops for as long as the server runs.
FairSpec == Spec /\ WF_vars(Receiver)
-----------------------------------------------------------------------------
(* Safety *)

NoTearUpTo(k) == \A j \in 1..Len(sent) : j <= k => ~Torn(j)

NoTear == \A j \in 1..Len(sent) : ~Torn(j)

NoEmpty == \A j \in 1..Len(sent) : sent[j].len > 0

\* recv_pkt's framing: as long as no packet up to the k-th was torn by a failed
\* or interrupted send, the k-th packet rebuilt is the k-th packet sent, whole,
\* however the stream was cut into chunks.
CompletedIntact ==
  \A k \in 1..Len(completed) :
    NoTearUpTo(k) =>
      /\ k <= Len(sent) /\ Whole(k)
      /\ completed[k] = [first |-> sent[k].start, len |-> sent[k].len]

\* Whenever the poll thread is outside recv_pkt, the receive buffer has room
\* for the next recv, and it is empty (clear_buff ran) unless rebuild threw for
\* a packet with no payload.  With a full buffer receive would ask for 0 bytes
\* for ever; with a leftover, *pos < recv_len would compare an index with a
\* length.
BufferReady ==
  pc = "poll" /\ fate = "ok" => pos < BuffSize /\ (pos = 0 \/ Wedged)

\* recv_pkt hands over the newest completed packet before it returns to the
\* poll loop, except when a packet with no payload made rebuild throw.
NewestDelivered ==
  pc = "poll" /\ fate = "ok" /\ completed # <<>> => Len(completed) \in delivered \/ Wedged

\* The receiver loses its framing, or its life, only for one of two reasons: a
\* chunk ended in the first two bytes of a packet, or a packet was torn.
BrokenOnlyBySplitOrTear ==
  fate # "ok" => (cur.full = 0 /\ cur.read \in 1..(PrefixLen - 1)) \/ ~NoTear

\* A peer that closed after sending only whole packets with a payload has had
\* every one of them rebuilt by the time recv_pkt closes the socket.
AllRebuiltAtEof ==
  ~open /\ fate = "ok" /\ link = "fin" /\ NoTear /\ NoEmpty =>
    Len(completed) = Len(sent)

\* A packet with no payload, once its header is complete, ends reception on the
\* connection: it stays current and nothing is completed after it.
EmptyPacketEndsReception ==
  [][Wedged => Wedged' /\ completed' = completed]_vars
-----------------------------------------------------------------------------
(* Liveness *)

\* After the peer's close or a reset the poll thread drains the stream and
\* closes its own socket, so that remove_disconnected_peers can drop the peer.
ClosedAfterPeer == link # "up" ~> ~open \/ fate # "ok"
-----------------------------------------------------------------------------
(* What the connection promises: PacketChannel *)

\* The packets that send_data is done with, whole or not.
Finished == IF sending THEN Len(sent) - 1 ELSE Len(sent)

\* A tear, or a failure of rebuild, breaks the channel; a reset may lose what is
\* in flight, and a packet with no payload blocks what follows it.
ChannelState ==
  IF fate # "ok" \/ \E j \in 1..Len(sent) : Torn(j) THEN "broken"
  ELSE IF link \in {"rst", "rstseen"} \/ Wedged THEN "ending"
  ELSE "sound"

Channel == INSTANCE PacketChannel WITH
  Packets <- PayloadLens,
  accepted <- [j \in 1..Finished |-> sent[j].len],
  completed <- [k \in 1..Len(completed) |-> completed[k].len],
  shown <- delivered,
  state <- ChannelState

\* However the stream is cut into chunks, the packets completed are the packets
\* accepted, in order and once each, until a tear or a failure of rebuild breaks
\* the connection; and the application only ever gets the newest of them.
ImplementsChannel == Channel!Spec

\* Under a fair poll thread every packet that was accepted is completed, and the
\* newest is handed over, unless the connection is reset, torn, broken by a chunk
\* that splits a prefix, or blocked by an empty packet first.
ImplementsFairly == Channel!FairSpec
-----------------------------------------------------------------------------
(* What tests and comments say of the program, and the code does not do *)

\* on_packet_received gets a packet at most once (test_server_send_receive
\* fails if pkts_received.size() > 1 after one packet).
DeliveredOnce == ~again

\* on_packet_received gets every packet a peer sent (test_multiple_client_send
\* fails if pkts_received.size() != pkts_sent.size()).
AllDelivered ==
  ~open /\ pc = "poll" /\ fate = "ok" /\ link = "fin" /\ NoTear /\ NoEmpty =>
    delivered = 1..Len(sent)

\* A chunk of at least three bytes does not lose the prefix of a header
\* (header_ready names only "buffer size less than 3" as the case left to do).
LongChunkKeepsPrefix ==
  pc = "deliver" /\ fate = "ok" /\ len >= PrefixLen => cur.read = 0 \/ cur.full = HdrLen
-----------------------------------------------------------------------------
(***************************************************************************)
(* The inductive invariant.  Each part speaks of one relation between      *)
(* sender, stream and receiver; PeerLink_proofs shows that every step      *)
(* preserves their conjunction.                                            *)
(***************************************************************************)

\* Packets lie behind one another in the stream, each at most PktLen long.
Layout ==
  /\ \A j \in 1..Len(sent) : sent[j].put <= PktLen(sent[j].len)
  /\ \A j \in 1..Len(sent) :
       sent[j].start = IF j = 1 THEN 0 ELSE sent[j-1].start + sent[j-1].put
  /\ \A i, j \in 1..Len(sent) : i < j => sent[i].start + sent[i].put <= sent[j].start
  /\ sending => sent # <<>> /\ ~Whole(Len(sent))

StreamBounds ==
  /\ taken <= avail /\ avail <= Written
  /\ link = "up" => avail = Written
  /\ link # "up" => ~sending

\* The stream position of the next byte rebuild will see.
Position == IF pc = "parse" THEN Cursor ELSE taken

BufferBounds ==
  /\ pos < BuffSize
  /\ pc = "parse" => pos < len /\ Left <= taken
  /\ pc # "parse" /\ fate = "ok" => pos = 0 \/ Wedged

\* A header is allocated iff its prefix has been read in one piece, from the
\* first bytes of a packet; unless that packet is empty the receiver has read
\* the stream without a gap since.
CurrentShape ==
  /\ cur.full = 0 => cur.read < PrefixLen
  /\ cur.full = HdrLen =>
       /\ cur.read >= PrefixLen
       /\ \E j \in 1..Len(sent) :
            /\ sent[j].start = cur.first /\ sent[j].put >= PrefixLen
            /\ cur.read <= PktLen(sent[j].len)
  /\ fate = "ok" /\ cur.read > 0 /\ ~Wedged => cur.first + cur.read = Position

EndOf(k) == IF k = 0 THEN 0 ELSE sent[k].start + PktLen(sent[k].len)

\* The packet under reconstruction begins where the last completed one ends.
Aligned ==
  fate = "ok" /\ NoTearUpTo(Len(completed)) =>
    EndOf(Len(completed)) = IF cur.read = 0 THEN Position ELSE cur.first

IInv ==
  /\ TypeOK
  /\ Layout
  /\ StreamBounds
  /\ BufferBounds
  /\ CurrentShape
  /\ CompletedIntact
  /\ Aligned
  /\ NewestDelivered
  /\ BrokenOnlyBySplitOrTear
=============================================================================
