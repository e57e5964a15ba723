----------------------------- MODULE Attachment -----------------------------
(***************************************************************************)
(* File attachments of one process.  A packet of type generic_file that a  *)
(* poll thread rebuilds goes to out.txt (Packet::output_to_file), whatever *)
(* thread rebuilt it and whatever is there already; the application is     *)
(* given the packet whether or not that succeeded, and again by every      *)
(* later call of recv_pkt on the connection that completes no other        *)
(* packet.  A Packet that the main thread makes from a path reads its file *)
(* block by block (Packet::process_input_file), and that file may be       *)
(* out.txt, when an attachment is passed on or compared.                   *)
(***************************************************************************)
EXTENDS Naturals, Sequences

CONSTANTS
  Writers,    \* the poll threads, one of each server, which rebuild packets
  Peers,      \* the connections that a server may have at a time
  FileLens,   \* the lengths of attachments
  Block,      \* bytes of a block of process_input_file: 1024 in the code
  MaxFiles    \* bound: attachments received

ASSUME FileAssumption ==
  FileLens \subseteq Nat \ {0} /\ Block \in Nat \ {0} /\ MaxFiles \in Nat

VARIABLES
  files,      \* the lengths of the attachments rebuilt so far
  out,        \* the bytes of out.txt: [file, k], the k-th of an attachment
  writer,     \* each thread: [pc, file, off]
  last,       \* completed_pkts of each connection of each thread: the attachment
              \* of its last packet, 0 if it has none
  lost,       \* attachments that went to out.txt in part or not at all, or over
              \* which another one was written
  torn,       \* out.txt was last opened while another thread was writing it, or
              \* a write to it has failed since
  reader      \* process_input_file on out.txt: [pc, got, dirty], dirty if the
              \* file was written while it is read, or torn before

vars == <<files, out, writer, last, lost, torn, reader>>

Hole == [file |-> 0, k |-> 0]     \* a byte that nobody wrote
Byte == [file : 0..MaxFiles, k : Nat]
WriterRec == [pc : {"none", "open", "write", "callback"}, file : 0..MaxFiles, off : Nat]
ReaderRec == [pc : {"none", "read", "done"}, got : Seq(Byte), dirty : BOOLEAN]

\* The type invariant.
TypeOK ==
  /\ files \in Seq(FileLens) /\ Len(files) <= MaxFiles
  /\ out \in Seq(Byte)
  /\ writer \in [Writers -> WriterRec]
  /\ \A w \in Writers : writer[w].pc \in {"open", "write"} =>
       writer[w].off < files[writer[w].file]
  /\ last \in [Writers -> [Peers -> 0..Len(files)]]
  /\ lost \subseteq 1..Len(files) /\ torn \in BOOLEAN
  /\ reader \in ReaderRec

Whole(f) == [k \in 1..files[f] |-> [file |-> f, k |-> k]]

\* What an earlier run of the program has left in out.txt, n bytes of it.
Earlier(n) == [k \in 1..n |-> [file |-> 0, k |-> k]]

Idle == [pc |-> "none", file |-> 0, off |-> 0]
-----------------------------------------------------------------------------
(* recv_pkt and output_to_file *)

\* Thread w goes on with another packet of connection c, in a new call of recv_pkt
\* or behind one that came in the same chunk and is not handed over then.
NextPacket(w, c) ==
  \/ writer[w].pc = "none"
  \/ writer[w].pc = "callback" /\ writer[w].file = last[w][c]

\* rebuild has completed a file packet of length l.
Rebuilds(w, c, l) ==
  LET f == Len(files) + 1 IN
  /\ NextPacket(w, c) /\ f <= MaxFiles
  /\ files' = Append(files, l)
  /\ writer' = [writer EXCEPT ![w] = [pc |-> "open", file |-> f, off |-> 0]]
  /\ last' = [last EXCEPT ![w][c] = f]
  /\ UNCHANGED <<out, lost, torn, reader>>

\* rebuild has completed a packet without a file, or the connection has gone, and
\* the next that has its place starts with no packets.
RebuildsOther(w, c) ==
  /\ NextPacket(w, c) /\ last[w][c] # 0
  /\ writer' = [writer EXCEPT ![w] = Idle]
  /\ last' = [last EXCEPT ![w][c] = 0]
  /\ UNCHANGED <<files, out, lost, torn, reader>>

\* recv_pkt has completed nothing, and returns the last completed packet again.
Redelivers(w, c) ==
  /\ writer[w].pc = "none" /\ last[w][c] # 0
  /\ writer' = [writer EXCEPT ![w] = [pc |-> "callback", file |-> last[w][c], off |-> 0]]
  /\ UNCHANGED <<files, out, last, lost, torn, reader>>

\* Mutant of Opened: the file is opened without truncation.
OpenedAsIs == out

\* out.txt after ofstream has opened it.
Opened == <<>>

OpenOut(w) ==
  LET f == writer[w].file IN
  /\ writer[w].pc = "open"
  /\ out' = Opened
  /\ writer' = [writer EXCEPT ![w].pc = "write"]
  /\ lost' = (1..Len(files)) \ {f}
  /\ torn' = \E v \in Writers \ {w} : writer[v].pc = "write"
  /\ reader' = [reader EXCEPT !.dirty = @ \/ reader.pc = "read"]
  /\ UNCHANGED <<files, last>>

\* The open fails: a message is printed, and the packet is complete all the same.
OpenFails(w) ==
  /\ writer[w].pc = "open"
  /\ writer' = [writer EXCEPT ![w].pc = "callback"]
  /\ lost' = lost \cup {writer[w].file}
  /\ UNCHANGED <<files, out, last, torn, reader>>

\* out.txt with n bytes of file f written behind the first off.
Put(f, off, n) ==
  LET size == IF off + n > Len(out) THEN off + n ELSE Len(out) IN
  [i \in 1..size |-> IF i \in (off + 1)..(off + n) THEN [file |-> f, k |-> i]
                     ELSE IF i <= Len(out) THEN out[i] ELSE Hole]

\* Mutant of AllOut: one more write is tried.
AllOutBeyond(f, off) == off > files[f]

\* Is the whole of file f written?
AllOut(f, off) == off = files[f]

\* The kernel takes n bytes; behind the last the file is closed.
WriteOut(w, n) ==
  LET f == writer[w].file
      off == writer[w].off
  IN
  /\ writer[w].pc = "write" /\ off + n <= files[f]
  /\ out' = Put(f, off, n)
  /\ writer' = [writer EXCEPT ![w].off = off + n,
                              ![w].pc = IF AllOut(f, off + n) THEN "callback" ELSE "write"]
  /\ lost' = lost \cup ((1..Len(files)) \ {f})
  /\ reader' = [reader EXCEPT !.dirty = @ \/ reader.pc = "read"]
  /\ UNCHANGED <<files, last, torn>>

\* A write fails, which nobody notices: what is there is all that will be.
WriteFails(w) ==
  /\ writer[w].pc = "write"
  /\ writer' = [writer EXCEPT ![w].pc = "callback"]
  /\ lost' = lost \cup {writer[w].file} /\ torn' = TRUE
  /\ reader' = [reader EXCEPT !.dirty = @ \/ reader.pc = "read"]
  /\ UNCHANGED <<files, out, last>>

\* recv_pkt hands the packet over, and the callback returns.
CallbackReturns(w) ==
  /\ writer[w].pc = "callback"
  /\ writer' = [writer EXCEPT ![w] = Idle]
  /\ UNCHANGED <<files, out, last, lost, torn, reader>>
-----------------------------------------------------------------------------
(* process_input_file *)

ReadOpens ==
  /\ reader.pc = "none"
  /\ reader' = [pc |-> "read", got |-> <<>>,
                dirty |-> torn \/ \E w \in Writers : writer[w].pc = "write"]
  /\ UNCHANGED <<files, out, writer, last, lost, torn>>

\* Mutant of Taken: the whole of temp_buff, whatever read has put there.
TakenWhole(bytes) ==
  bytes \o [i \in 1..(Block - Len(bytes)) |-> Hole]

\* The bytes of a block that are kept: gcount of them.
Taken(bytes) == bytes

\* A block is read; one that comes out short has met the end of the file.
ReadBlock ==
  LET off == Len(reader.got)
      n == IF Len(out) - off < Block THEN Len(out) - off ELSE Block
      bytes == IF off < Len(out) THEN SubSeq(out, off + 1, off + n) ELSE <<>>
  IN
  /\ reader.pc = "read"
  /\ reader' = [reader EXCEPT !.got = @ \o Taken(bytes),
                              !.pc = IF Len(bytes) < Block THEN "done" ELSE "read"]
  /\ UNCHANGED <<files, out, writer, last, lost, torn>>

\* build has made the packet, and the payload is forgotten here.
ReadEnds ==
  /\ reader.pc = "done"
  /\ reader' = [pc |-> "none", got |-> <<>>, dirty |-> FALSE]
  /\ UNCHANGED <<files, out, writer, last, lost, torn>>
-----------------------------------------------------------------------------
\* out.txt may be there from an earlier run.
Init ==
  /\ files = <<>> /\ \E n \in FileLens \cup {0} : out = Earlier(n)
  /\ writer = [w \in Writers |-> Idle]
  /\ last = [w \in Writers |-> [c \in Peers |-> 0]]
  /\ lost = {} /\ torn = FALSE
  /\ reader = [pc |-> "none", got |-> <<>>, dirty |-> FALSE]

\* A step of thread w: recv_pkt on one of its connections, and the callback.
PollThread(w) ==
  \/ \E c \in Peers : \/ \E l \in FileLens : Rebuilds(w, c, l)
                     \/ RebuildsOther(w, c) \/ Redelivers(w, c)
  \/ OpenOut(w) \/ OpenFails(w)
  \/ \E l \in FileLens : \E n \in 1..l : WriteOut(w, n)
  \/ WriteFails(w)
  \/ CallbackReturns(w)

\* The main thread makes a packet from out.txt.
MainThread == ReadOpens \/ ReadBlock \/ ReadEnds

Next == MainThread \/ \E w \in Writers : PollThread(w)

Spec == Init /\ [][Next]_vars
-----------------------------------------------------------------------------
(* Safety *)

\* Whenever the application is given a packet with an attachment, for the first
\* time or again, out.txt holds that attachment and nothing else, whatever it held
\* before, unless it could not be written or another one was written over it.
WholeAtCallback ==
  \A w \in Writers : writer[w].pc = "callback" /\ writer[w].file \notin lost =>
    out = Whole(writer[w].file)

\* A packet made from out.txt carries one whole attachment, or what the file held
\* before there was one, unless the file was written while it was read, or by two
\* threads at once, or in part only.
ReadIsWhole ==
  reader.pc = "done" /\ ~reader.dirty =>
    \/ \E n \in FileLens \cup {0} : reader.got = Earlier(n)
    \/ \E f \in 1..Len(files) : reader.got = Whole(f)
=============================================================================
