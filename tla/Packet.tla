------------------------------- MODULE Packet -------------------------------
(***************************************************************************)
(* How a Packet that is being rebuilt consumes the bytes of a receive      *)
(* buffer (packet.cpp, header_ready, rebuild_header and rebuild).          *)
(*                                                                         *)
(* A packet on the wire is a header of HdrLen bytes followed by its        *)
(* payload.  The first PrefixLen bytes of the header are the start symbol  *)
(* 0xFF and the 16-bit length of the rest of the header.  Bytes are        *)
(* positions in the TCP stream: a packet under reconstruction knows the    *)
(* position of its first byte, and what that position holds is the         *)
(* business of the module that owns the stream.                            *)
(***************************************************************************)
EXTENDS Naturals

CONSTANT HdrLen      \* bytes of a complete header: 12 in build_header

PrefixLen == 3       \* start symbol and hdr_len

ASSUME HdrLenAssumption == HdrLen \in Nat /\ HdrLen > PrefixLen

(***************************************************************************)
(* The part of a Packet that rebuild reads and writes: the position of     *)
(* its first byte, num_bytes_read, and full_hdr_len.  full_hdr_len is      *)
(* HdrLen once the header buffer is allocated and 0 before that: every     *)
(* return with an unallocated header resets it to 0.                       *)
(***************************************************************************)
NewPacket(at) == [first |-> at, read |-> 0, full |-> 0]

\* pkt_len, computed by build on one side and by rebuild on the other.
PktLen(payloadLen) == HdrLen + payloadLen

(***************************************************************************)
(* The test at the top of header_ready: are bytes copied into the header   *)
(* at all?  Yes if the next byte is the start symbol (starts), if the      *)
(* header is under way, or in the special case of a chunk of fewer than    *)
(* three bytes in all.                                                     *)
(***************************************************************************)
TriesHeader(p, total, starts) ==
  \/ starts
  \/ p.read < p.full
  \/ total < PrefixLen /\ p.read < PrefixLen

(***************************************************************************)
(* What one call of header_ready does with the k > 0 bytes that are left   *)
(* of a chunk of total bytes, when the first of them is a start symbol iff *)
(* starts and the prefix that follows is one a sender wrote iff genuine.   *)
(*                                                                         *)
(* Until the third byte arrives the prefix is collected in tmp_header, a   *)
(* local array: a call that ends before the third byte forgets its bytes,  *)
(* though num_bytes_read keeps counting them.                              *)
(***************************************************************************)
LosesPrefix(p, k, total, starts) ==
  /\ p.full = 0
  /\ TriesHeader(p, total, starts)
  /\ p.read + k < PrefixLen

\* hdr_len is put together from a prefix that is not (wholly) in tmp_header,
\* or from bytes that are not the prefix of a packet.
MisreadsPrefix(p, k, total, starts, genuine) ==
  /\ p.full = 0
  /\ TriesHeader(p, total, starts)
  /\ p.read + k >= PrefixLen
  /\ p.read > 0 \/ ~genuine

\* No byte is copied, 0 < 0 does not hold, and header_ready answers true
\* with the header still null: rebuild_header dereferences it.
DereferencesNull(p, total, starts) ==
  /\ p.full = 0
  /\ ~TriesHeader(p, total, starts)

\* The header buffer exists, or this call allocates it from a whole prefix.
HeaderFramed(p, k, genuine) ==
  \/ p.full = HdrLen
  \/ p.full = 0 /\ p.read = 0 /\ k >= PrefixLen /\ genuine

\* The chunk ends inside the header or exactly behind it: header_ready
\* answers false although the header may be complete.
HeaderPending(p, k) == p.read + k <= HdrLen

\* Bytes of header this call takes from the k at hand.
HeaderTake(p, k) ==
  IF p.read >= HdrLen THEN 0
  ELSE IF HdrLen - p.read < k THEN HdrLen - p.read ELSE k

\* Bytes rebuild takes when the header is complete before the chunk ends.
PacketTake(p, k, payloadLen) ==
  IF PktLen(payloadLen) - p.read < k THEN PktLen(payloadLen) - p.read ELSE k

\* Mutant of Advanced: full_hdr_len stays at the length of the prefix.
AdvancedPrefix(p, n) == [first |-> p.first, read |-> p.read + n, full |-> PrefixLen]

\* The packet after n more bytes of a framed header or of the payload.
Advanced(p, n) == [first |-> p.first, read |-> p.read + n, full |-> HdrLen]
=============================================================================
