------------------------- MODULE PeerLink_refinement -------------------------
(***************************************************************************)
(* Proof that a connection implements PacketChannel, for every header      *)
(* length, buffer size, kernel buffering, set of payload lengths and       *)
(* number of packets.                                                      *)
(***************************************************************************)
EXTENDS PeerLink_proofs, SequenceTheorems

(* Sequences that are given as functions *)

\* A function on 1..n is a sequence of length n.
LEMMA FcnSeq ==
  ASSUME NEW S, NEW n \in Nat, NEW s \in [1..n -> S]
  PROVE  s \in Seq(S) /\ Len(s) = n
<1>1. s \in Seq(S)
  BY SeqDef
<1>2. DOMAIN s = 1..n /\ DOMAIN s = 1..Len(s) /\ Len(s) \in Nat
  BY <1>1
<1> QED
  BY <1>1, <1>2

\* A sequence that has one more element is the old one with that element.
LEMMA FcnAppend ==
  ASSUME NEW S, NEW n \in Nat, NEW s \in [1..n -> S], NEW t \in [1..(n + 1) -> S],
         \A i \in 1..n : t[i] = s[i]
  PROVE  t = Append(s, t[n + 1])
<1>1. s \in Seq(S) /\ Len(s) = n
  BY FcnSeq
<1>2. t \in Seq(S) /\ Len(t) = n + 1
  BY FcnSeq
<1>3. t[n + 1] \in S
  OBVIOUS
<1>4. Append(s, t[n + 1]) \in Seq(S) /\ Len(Append(s, t[n + 1])) = n + 1
  BY <1>1, <1>3
<1>5. \A i \in 1..(n + 1) : Append(s, t[n + 1])[i] = t[i]
  BY <1>1, <1>3
<1> QED
  BY <1>2, <1>4, <1>5, SeqEqual
-----------------------------------------------------------------------------
(* The state of the channel *)

\* The packets accepted and completed, as the channel sees them.
Accepted == [j \in 1..Finished |-> sent[j].len]
Completed == [k \in 1..Len(completed) |-> completed[k].len]

\* A step of the channel, whatever the bytes do.
ChannelStep ==
  \/ Channel!Next
  \/ UNCHANGED <<Accepted, Completed, delivered, ChannelState>>

\* The channel's view has its types.
LEMMA ViewTypes ==
  ASSUME TypeOK, Layout
  PROVE  /\ Finished \in Nat /\ Finished <= Len(sent)
         /\ Accepted \in [1..Finished -> PayloadLens]
         /\ Len(completed) \in Nat
         /\ Completed \in [1..Len(completed) -> PayloadLens]
         /\ Len(Completed) = Len(completed) /\ Len(Accepted) = Finished
         /\ ChannelState \in {"sound", "ending", "broken"}
<1>1. Len(sent) \in Nat /\ Len(completed) \in Nat
  BY DEF TypeOK
<1>2. Finished \in Nat /\ Finished <= Len(sent)
  BY <1>1 DEF Finished, Layout, TypeOK
<1>3. Accepted \in [1..Finished -> PayloadLens]
  BY <1>1, <1>2, SentTypes DEF Accepted
<1>4. \A k \in 1..Len(completed) : completed[k] \in DoneRec
  BY DEF TypeOK
<1>5. Completed \in [1..Len(completed) -> PayloadLens]
  BY <1>1, <1>4 DEF Completed, DoneRec
<1>6. ChannelState \in {"sound", "ending", "broken"}
  BY DEF ChannelState
<1> QED
  BY <1>1, <1>2, <1>3, <1>5, <1>6, FcnSeq

\* A packet is accepted, and the channel stays what it was.
LEMMA AcceptStep ==
  ASSUME NEW p \in PayloadLens, Accepted' = Append(Accepted, p),
         UNCHANGED <<Completed, delivered, ChannelState>>
  PROVE  ChannelStep
BY DEF ChannelStep, Channel!Next, Channel!Accept, Accepted, Completed

\* A packet is given up.
LEMMA TearStep ==
  ASSUME NEW p \in PayloadLens, Accepted' = Append(Accepted, p),
         ChannelState' = "broken", UNCHANGED <<Completed, delivered>>
  PROVE  ChannelStep
BY DEF ChannelStep, Channel!Next, Channel!Tear, Accepted, Completed

\* Only the state changes, and not back.
LEMMA WorseStep ==
  ASSUME UNCHANGED <<Accepted, Completed, delivered>>,
         \/ ChannelState' = ChannelState
         \/ ChannelState = "sound" /\ ChannelState' = "ending"
         \/ ChannelState' = "broken"
  PROVE  ChannelStep
BY DEF ChannelStep, Channel!Next, Channel!End, Channel!Break, Accepted, Completed

\* The next packet accepted is completed.
LEMMA CompleteStep ==
  ASSUME Len(Completed) < Len(Accepted), ChannelState # "broken",
         Completed' = Append(Completed, Accepted[Len(Completed) + 1]),
         UNCHANGED <<Accepted, delivered, ChannelState>>
  PROVE  ChannelStep
BY DEF ChannelStep, Channel!Next, Channel!Complete, Accepted, Completed

\* Something is completed on a broken channel.
LEMMA GarbleStep ==
  ASSUME NEW p \in PayloadLens, ChannelState = "broken",
         Completed' = Append(Completed, p),
         UNCHANGED <<Accepted, delivered, ChannelState>>
  PROVE  ChannelStep
BY DEF ChannelStep, Channel!Next, Channel!Garble, Accepted, Completed

\* The newest packet completed is shown.
LEMMA ShowStep ==
  ASSUME Completed # <<>>, delivered' = delivered \cup {Len(Completed)},
         UNCHANGED <<Accepted, Completed, ChannelState>>
  PROVE  ChannelStep
BY DEF ChannelStep, Channel!Next, Channel!Show, Accepted, Completed
-----------------------------------------------------------------------------
(* The channel never recovers *)

\* A packet that is added, and the packet that grows.
LEMMA SentGrows ==
  ASSUME IInv
  PROVE  /\ Len(sent) \in Nat /\ Len(sent) = 0 <=> sent = <<>>
         /\ \A l \in PayloadLens : SendPkt(l) =>
              /\ Len(sent') = Len(sent) + 1 /\ sent'[Len(sent) + 1].len = l
              /\ \A j \in 1..Len(sent) : sent'[j] = sent[j]
         /\ \A n \in 1..SockCap : SendSome(n) =>
              /\ sent # <<>> /\ Len(sent') = Len(sent) /\ n \in Nat
              /\ sent'[Len(sent)].start = sent[Len(sent)].start
              /\ sent'[Len(sent)].len = sent[Len(sent)].len
              /\ sent'[Len(sent)].put = sent[Len(sent)].put + n
              /\ \A j \in 1..Len(sent) : j # Len(sent) => sent'[j] = sent[j]
<1> DEFINE L == Len(sent)
<1>1. sent \in Seq(SentRec) /\ L \in Nat /\ Len(sent) = 0 <=> sent = <<>>
  BY DEF IInv, TypeOK
<1>2. ASSUME NEW l \in PayloadLens, SendPkt(l)
      PROVE  /\ Len(sent') = L + 1 /\ sent'[L + 1].len = l
             /\ \A j \in 1..L : sent'[j] = sent[j]
  <2> DEFINE new == [start |-> Written, len |-> l, put |-> 0]
  <2>1. new \in SentRec /\ sent' = Append(sent, new) /\ new.len = l
    BY <1>2, WrittenType DEF SendPkt, SentRec, IInv
  <2> HIDE DEF new
  <2> QED
    BY <1>1, <2>1
<1>3. ASSUME NEW n \in 1..SockCap, SendSome(n)
      PROVE  /\ sent # <<>> /\ Len(sent') = L /\ n \in Nat
             /\ sent'[L].start = sent[L].start /\ sent'[L].len = sent[L].len
             /\ sent'[L].put = sent[L].put + n
             /\ \A j \in 1..L : j # L => sent'[j] = sent[j]
  <2> DEFINE new == [sent[L] EXCEPT !.put = @ + n]
  <2>1. sent # <<>> /\ L \in 1..L /\ n \in Nat
    BY <1>1, <1>3, LinkAssumption DEF IInv, Layout, SendSome
  <2>2. sent[L] \in SentRec
    BY <2>1, SentTypes DEF IInv
  <2>3. /\ new \in SentRec /\ new.start = sent[L].start /\ new.len = sent[L].len
        /\ new.put = sent[L].put + n
    BY <2>1, <2>2 DEF SentRec
  <2>4. sent' = [sent EXCEPT ![L] = new]
    BY <1>3 DEF SendSome
  <2> HIDE DEF new
  <2> QED
    BY <1>1, <2>1, <2>3, <2>4
<1> QED
  BY <1>1, <1>2, <1>3

\* The steps of the network, and send_data giving up, leave the packets alone.
LEMMA CutShape ==
  ASSUME SendFails \/ Network
  PROVE  /\ sent' = sent /\ sending' = FALSE
         /\ UNCHANGED recvVars /\ UNCHANGED appVars
         /\ link \in {"rst", "rstseen"} => link' \in {"rst", "rstseen"}
BY DEF SendFails, Network, PeerCloses, PeerResets, streamVars

\* The steps of the receiver leave the sender alone.
LEMMA ReceiverShape ==
  ASSUME Receiver
  PROVE  /\ sent' = sent /\ sending' = sending
         /\ link \in {"rst", "rstseen"} => link' \in {"rst", "rstseen"}
         /\ fate = "ok" \/ fate' = fate
BY DEF Receiver, Receive, Polled, ReceiveError, ReceiveEof, RebuildShortPrefix, RebuildHeader,
       RebuildPayload, RebuildThrows, RebuildGarbles, RebuildCrashes, Deliver,
       senderVars, streamVars

SomeTorn == \E j \in 1..Len(sent) : Torn(j)

\* A torn packet stays torn.
LEMMA TornKept ==
  ASSUME IInv, Next, SomeTorn
  PROVE  SomeTorn'
<1>1. PICK j \in 1..Len(sent) : ~Whole(j) /\ ~(j = Len(sent) /\ sending)
  BY DEF SomeTorn, Torn
<1>2. ASSUME NEW l \in PayloadLens, SendPkt(l) PROVE SomeTorn'
  <2>1. /\ Len(sent) \in Nat /\ Len(sent') = Len(sent) + 1 /\ sent'[j] = sent[j]
    BY <1>2, SentGrows
  <2>2. j \in 1..Len(sent') /\ j # Len(sent')
    BY <2>1
  <2> QED
    BY <1>1, <2>1, <2>2 DEF SomeTorn, Torn, Whole
<1>3. ASSUME NEW n \in 1..SockCap, SendSome(n) PROVE SomeTorn'
  <2>1. j # Len(sent)
    BY <1>1, <1>3 DEF SendSome
  <2>2. Len(sent') = Len(sent) /\ sent'[j] = sent[j]
    BY <1>3, <2>1, SentGrows
  <2> QED
    BY <1>1, <2>1, <2>2 DEF SomeTorn, Torn, Whole
<1>4. CASE SendFails \/ Network
  BY <1>1, <1>4, CutShape DEF SomeTorn, Torn, Whole
<1>5. CASE Receiver
  BY <1>1, <1>5, ReceiverShape DEF SomeTorn, Torn, Whole
<1> QED
  BY <1>2, <1>3, <1>4, <1>5 DEF Next, Sender

\* The state of the channel only gets worse.
LEMMA Worsens ==
  ASSUME IInv, Next
  PROVE  \/ ChannelState' = ChannelState
         \/ ChannelState = "sound" /\ ChannelState' = "ending"
         \/ ChannelState' = "broken"
<1>1. fate # "ok" => fate' # "ok"
  BY CutShape, ReceiverShape DEF Next, Sender, SendPkt, SendSome, recvVars
<1>2. link \in {"rst", "rstseen"} => link' \in {"rst", "rstseen"}
  BY CutShape, ReceiverShape DEF Next, Sender, SendPkt, SendSome, streamVars
<1>3. SomeTorn => SomeTorn'
  BY TornKept
<1>4. Wedged => Wedged'
  BY WedgedStep
<1> QED
  BY <1>1, <1>2, <1>3, <1>4 DEF ChannelState, SomeTorn
-----------------------------------------------------------------------------
(* The steps of the connection *)

\* SendPkt changes nothing the channel sees: the new packet is not finished.
LEMMA SendPktStep ==
  ASSUME IInv, NEW l \in PayloadLens, SendPkt(l)
  PROVE  ChannelStep
<1>1. /\ Len(sent) \in Nat /\ Len(sent') = Len(sent) + 1 /\ ~sending /\ sending' = TRUE
      /\ \A j \in 1..Len(sent) : sent'[j] = sent[j]
      /\ completed' = completed /\ delivered' = delivered
  BY SentGrows DEF SendPkt, recvVars, appVars
<1>2. Finished = Len(sent) /\ Finished' = Len(sent)
  BY <1>1 DEF Finished
<1>3. Accepted' = Accepted /\ Completed' = Completed
  BY <1>1, <1>2 DEF Accepted, Completed
<1> QED
  BY <1>1, <1>3, Worsens, WorseStep DEF Next, Sender

\* The packet under way is the one that the channel accepts next.
LEMMA Accepts ==
  ASSUME IInv, IInv', sending, ~sending', Len(sent') = Len(sent), sent # <<>>,
         \A j \in 1..Len(sent) : sent'[j].len = sent[j].len
  PROVE  /\ sent[Len(sent)].len \in PayloadLens
         /\ Accepted' = Append(Accepted, sent[Len(sent)].len)
<1> DEFINE L == Len(sent)
<1>1. L \in Nat /\ L # 0 /\ L \in 1..L /\ sent[L].len \in PayloadLens
  BY SentTypes DEF IInv, TypeOK
<1>2. Finished = L - 1 /\ Finished' = L /\ L - 1 \in Nat /\ L - 1 + 1 = L
  BY <1>1 DEF Finished
<1>3. Accepted \in [1..(L - 1) -> PayloadLens] /\ Accepted' \in [1..(L - 1 + 1) -> PayloadLens]
  <2>1. Accepted \in [1..(L - 1) -> PayloadLens]
    BY <1>2, ViewTypes DEF IInv
  <2>2. \A j \in 1..L : sent'[j].len \in PayloadLens
    BY SentTypes DEF IInv
  <2> QED
    BY <1>2, <2>1, <2>2 DEF Accepted
<1>4. \A j \in 1..L : Accepted'[j] = sent[j].len
  BY <1>2 DEF Accepted
<1>5. \A j \in 1..(L - 1) : Accepted'[j] = Accepted[j]
  BY <1>1, <1>2, <1>4 DEF Accepted
<1>6. Accepted' = Append(Accepted, Accepted'[L - 1 + 1])
  BY <1>2, <1>3, <1>5, FcnAppend
<1> QED
  BY <1>1, <1>2, <1>4, <1>6

\* One send call: what it writes, and what it leaves alone.
LEMMA SendSomeShape ==
  ASSUME IInv, NEW n \in 1..SockCap, SendSome(n)
  PROVE  /\ Len(sent) \in Nat /\ sent # <<>> /\ Len(sent) \in 1..Len(sent)
         /\ sent[Len(sent)].put \in Nat /\ PktLen(sent[Len(sent)].len) \in Nat
         /\ n \in Nat /\ sent[Len(sent)].put + n <= PktLen(sent[Len(sent)].len)
         /\ sending /\ sending' = (sent[Len(sent)].put + n < PktLen(sent[Len(sent)].len))
         /\ link = "up" /\ UNCHANGED <<link, cur, completed, fate, delivered>>
<1> DEFINE L == Len(sent)
<1>1. L \in Nat /\ sent # <<>> /\ n \in Nat /\ L \in 1..L
  BY SentGrows
<1>2. sent[L].put \in Nat /\ PktLen(sent[L].len) \in Nat
  BY <1>1, SentTypes DEF IInv
<1>3. /\ n <= PktLen(sent[L].len) - sent[L].put
      /\ sending /\ sending' = (sent[L].put + n < PktLen(sent[L].len)) /\ link = "up"
  BY DEF SendSome
<1>4. UNCHANGED <<link, cur, completed, fate, delivered>>
  BY DEF SendSome, recvVars, appVars
<1> QED
  BY <1>1, <1>2, <1>3, <1>4

\* Without a torn packet, a header that is complete was complete before the last
\* send: the receiver has not read what was not written.
LEMMA WedgedBefore ==
  ASSUME IInv, NEW n \in 1..SockCap, SendSome(n), fate = "ok", Wedged'
  PROVE  Wedged
<1> DEFINE L == Len(sent)
<1>1. /\ L \in Nat /\ sent # <<>> /\ Len(sent') = L /\ n \in Nat
      /\ sent'[L].start = sent[L].start /\ sent'[L].len = sent[L].len
      /\ \A j \in 1..L : j # L => sent'[j] = sent[j]
      /\ cur' = cur /\ link = "up" /\ L \in 1..L
  BY SentGrows, SendSomeShape
<1>2. SUFFICES ASSUME ~Wedged PROVE FALSE
  OBVIOUS
<1>3. PICK j \in 1..L : cur.read >= HdrLen /\ sent'[j].start = cur.first /\ sent'[j].len = 0
                        /\ sent'[j].put >= HdrLen
  BY <1>1 DEF Wedged
<1>4. j = L
  BY <1>1, <1>2, <1>3 DEF Wedged
<1>5. /\ HdrLen \in Nat /\ HdrLen > 3 /\ cur.read \in Nat /\ cur.first \in Nat
      /\ taken \in Nat /\ avail \in Nat /\ Left \in Int
      /\ sent[L].start \in Nat /\ sent[L].put \in Nat
  BY <1>1, SentTypes, HdrLenAssumption DEF IInv, TypeOK, PacketRec, Left, PrefixLen
<1>6. cur.first + cur.read = Position
  BY <1>2, <1>3, <1>5 DEF IInv, CurrentShape
<1>7. Position <= Written /\ Written = sent[L].start + sent[L].put
  <2>1. avail = Written /\ taken <= avail
    BY <1>1 DEF IInv, StreamBounds
  <2>2. pc = "parse" => Cursor <= taken
    BY <1>5 DEF IInv, BufferBounds, Cursor, Left, TypeOK
  <2>3. Written = sent[L].start + sent[L].put /\ Written \in Nat
    BY <1>1, WrittenType DEF IInv
  <2>4. Cursor \in Int
    BY <1>5 DEF Cursor
  <2> QED
    BY <1>5, <2>1, <2>2, <2>3, <2>4 DEF Position
<1>8. sent[L].put >= HdrLen
  BY <1>1, <1>3, <1>4, <1>5, <1>6, <1>7
<1> QED
  BY <1>1, <1>2, <1>3, <1>4, <1>8 DEF Wedged

\* SendSome is a step of the channel if it writes the last byte of a packet.
LEMMA SendSomeStep ==
  ASSUME IInv, NEW n \in 1..SockCap, SendSome(n)
  PROVE  ChannelStep
<1> DEFINE L == Len(sent)
<1>1. /\ L \in Nat /\ sent # <<>> /\ L \in 1..L /\ Len(sent') = L /\ n \in Nat
      /\ sent'[L].len = sent[L].len /\ sent'[L].put = sent[L].put + n
      /\ \A j \in 1..L : j # L => sent'[j] = sent[j]
  BY SentGrows
<1>2. \A j \in 1..L : sent'[j].len = sent[j].len
  BY <1>1
<1>3. /\ sending /\ link = "up" /\ link' = "up" /\ fate' = fate
      /\ completed' = completed /\ delivered' = delivered
      /\ sent[L].put + n <= PktLen(sent[L].len)
      /\ sending' = (sent[L].put + n < PktLen(sent[L].len))
      /\ sent[L].put \in Nat /\ PktLen(sent[L].len) \in Nat
  BY SendSomeShape
<1>4. Completed' = Completed
  BY <1>3 DEF Completed
<1>5. Next /\ IInv'
  BY NextInv DEF Next, Sender
<1>6. CASE sending'
  <2>1. Finished = L - 1 /\ Finished' = L - 1
    BY <1>1, <1>3, <1>6 DEF Finished
  <2>2. Accepted' = Accepted
    BY <1>1, <1>2, <2>1 DEF Accepted
  <2> QED
    BY <1>3, <1>4, <1>5, <2>2, Worsens, WorseStep
<1>7. CASE ~sending'
  <2>1. sent[L].len \in PayloadLens /\ Accepted' = Append(Accepted, sent[L].len)
    BY <1>1, <1>2, <1>3, <1>5, <1>7, Accepts
  <2>2. Whole(L)'
    <3>1. ~(sent[L].put + n < PktLen(sent[L].len))
      BY <1>3, <1>7
    <3>2. sent[L].put + n = PktLen(sent[L].len)
      BY <1>1, <1>3, <3>1
    <3> QED
      BY <1>1, <3>2 DEF Whole
  <2>3. SomeTorn' => SomeTorn
    <3>1. SUFFICES ASSUME SomeTorn' PROVE SomeTorn
      OBVIOUS
    <3>2. PICK j \in 1..L : ~(sent'[j].put = PktLen(sent'[j].len))
      BY <1>1, <3>1 DEF SomeTorn, Torn, Whole
    <3>3. j # L
      BY <1>1, <2>2, <3>2 DEF Whole
    <3> QED
      BY <1>1, <3>2, <3>3 DEF SomeTorn, Torn, Whole
  <2>4. SomeTorn => SomeTorn'
    BY <1>5, TornKept
  <2>5. fate = "ok" => (Wedged' <=> Wedged)
    BY <1>5, WedgedBefore, WedgedStep
  <2>6. ChannelState' = ChannelState
    BY <1>3, <2>3, <2>4, <2>5 DEF ChannelState, SomeTorn
  <2> QED
    BY <1>3, <1>4, <2>1, <2>6, AcceptStep
<1> QED
  BY <1>6, <1>7

\* A send that fails, a close or a reset tears the packet under way, if there is one.
LEMMA CutStep ==
  ASSUME IInv, SendFails \/ Network
  PROVE  ChannelStep
<1> DEFINE L == Len(sent)
<1>1. /\ sent' = sent /\ sending' = FALSE /\ completed' = completed /\ delivered' = delivered
  BY CutShape DEF recvVars, appVars
<1>2. Completed' = Completed
  BY <1>1 DEF Completed
<1>3. Next /\ IInv'
  BY NextInv DEF Next, Sender
<1>4. CASE sending
  <2>1. sent # <<>> /\ ~Whole(L) /\ L \in Nat /\ L \in 1..L
    BY <1>4 DEF IInv, Layout, TypeOK
  <2>2. sent[L].len \in PayloadLens /\ Accepted' = Append(Accepted, sent[L].len)
    BY <1>1, <1>3, <1>4, <2>1, Accepts
  <2>3. Torn(L)'
    BY <1>1, <2>1 DEF Torn, Whole
  <2>4. ChannelState' = "broken"
    BY <1>1, <2>1, <2>3 DEF ChannelState
  <2> QED
    BY <1>1, <1>2, <2>2, <2>4, TearStep
<1>5. CASE ~sending
  <2>1. Accepted' = Accepted
    BY <1>1, <1>5 DEF Accepted, Finished
  <2> QED
    BY <1>1, <1>2, <1>3, <2>1, Worsens, WorseStep
<1> QED
  BY <1>4, <1>5

\* The receiver does not change what is accepted.
LEMMA ReceiverAccepts ==
  ASSUME Receiver
  PROVE  Accepted' = Accepted
BY ReceiverShape DEF Accepted, Finished

\* What the receiver does outside of completing and delivering is no step of the
\* channel, or ends it.
LEMMA QuietStep ==
  ASSUME IInv, Receiver, completed' = completed, delivered' = delivered
  PROVE  ChannelStep
<1>1. Accepted' = Accepted /\ Completed' = Completed /\ Next
  BY ReceiverAccepts DEF Completed, Next
<1> QED
  BY <1>1, Worsens, WorseStep

\* Deliver shows the newest packet.
LEMMA DeliverStep ==
  ASSUME IInv, Deliver
  PROVE  ChannelStep
<1>1. /\ Len(completed) \in Nat /\ completed' = completed
      /\ delivered' = IF Len(completed) > 0 THEN delivered \cup {Len(completed)} ELSE delivered
      /\ UNCHANGED <<sent, sending, link, fate, cur>> /\ Receiver
  BY DEF Deliver, Newest, senderVars, streamVars, IInv, TypeOK, Receiver
<1>2. Accepted' = Accepted /\ Completed' = Completed
  BY <1>1, ReceiverAccepts DEF Completed
<1>3. ChannelState' = ChannelState
  BY <1>1 DEF ChannelState, Torn, Whole, Wedged
<1>4. CASE Len(completed) > 0
  <2>1. Completed # <<>> /\ Len(Completed) = Len(completed)
    BY <1>4, ViewTypes DEF IInv
  <2> QED
    BY <1>1, <1>2, <1>3, <1>4, <2>1, ShowStep
<1>5. CASE ~(Len(completed) > 0)
  BY <1>1, <1>5, QuietStep
<1> QED
  BY <1>4, <1>5

\* RebuildPayload completes the next packet accepted, unless something was torn.
LEMMA RebuildPayloadStep ==
  ASSUME IInv, NEW j \in 1..Len(sent), RebuildPayload(j)
  PROVE  ChannelStep
<1> DEFINE c == Len(completed)
           rec == [first |-> Current.first, len |-> sent[j].len]
<1>1. /\ Receiver /\ Next /\ IInv' /\ sent' = sent /\ sending' = sending
      /\ delivered' = delivered /\ Accepted' = Accepted /\ c \in Nat
      /\ completed \in Seq(DoneRec) /\ completed' \in Seq(DoneRec)
      /\ UNCHANGED <<link, fate>> /\ fate = "ok"
  <2>1. Receiver /\ Next
    BY DEF Receiver, Next
  <2>2. UNCHANGED <<link, fate, delivered>> /\ fate = "ok"
    BY DEF RebuildPayload, streamVars, appVars
  <2>3. IInv'
    BY <2>1, NextInv
  <2>4. completed \in Seq(DoneRec) /\ completed' \in Seq(DoneRec) /\ c \in Nat
    BY <2>3 DEF IInv, TypeOK
  <2> QED
    BY <2>1, <2>2, <2>3, <2>4, ReceiverShape, ReceiverAccepts
<1>2. \/ completed' = completed
      \/ completed' = Append(completed, rec) /\ cur' = NewPacket(0)
  BY DEF RebuildPayload
<1>3. CASE completed' = completed
  BY <1>1, <1>3, QuietStep
<1>4. CASE completed' = Append(completed, rec) /\ cur' = NewPacket(0)
  <2>1. sent[j].len \in PayloadLens /\ rec \in DoneRec /\ rec.len = sent[j].len
    <3>1. sent[j].len \in PayloadLens /\ Current.first \in Nat
      BY SentTypes, Parsing DEF IInv, RebuildPayload
    <3> QED
      BY <3>1 DEF DoneRec
  <2>2. /\ Len(completed') = c + 1 /\ completed'[c + 1] = rec
        /\ \A k \in 1..c : completed'[k] = completed[k]
    BY <1>1, <1>4, <2>1
  <2>3. Completed' = Append(Completed, sent[j].len) /\ Len(Completed) = c
    <3>1. Completed \in [1..c -> PayloadLens] /\ Len(Completed) = c
      BY ViewTypes DEF IInv
    <3>2. \A k \in 1..(c + 1) : completed'[k] \in DoneRec
      BY <1>1, <2>2
    <3>3. Completed' \in [1..(c + 1) -> PayloadLens]
      BY <1>1, <2>2, <3>2 DEF Completed, DoneRec
    <3>4. \A k \in 1..c : Completed'[k] = Completed[k]
      BY <1>1, <2>2 DEF Completed
    <3>5. Completed' = Append(Completed, Completed'[c + 1])
      BY <1>1, <3>1, <3>3, <3>4, FcnAppend
    <3>6. Completed'[c + 1] = sent[j].len
      BY <1>1, <2>1, <2>2 DEF Completed
    <3> QED
      BY <3>1, <3>5, <3>6
  <2>4. ChannelState' = ChannelState
    <3>1. ~Wedged'
      BY <1>4, HdrLenAssumption DEF Wedged, NewPacket, PrefixLen
    <3>2. ~Wedged
      BY <1>1, <3>1, WedgedStep
    <3> QED
      BY <1>1, <3>1, <3>2 DEF ChannelState, Torn, Whole
  <2>5. CASE ChannelState = "broken"
    BY <1>1, <2>1, <2>3, <2>4, <2>5, GarbleStep
  <2>6. CASE ChannelState # "broken"
    <3>1. \A k \in Nat : NoTearUpTo(k)'
      BY <1>1, <2>6 DEF ChannelState, NoTearUpTo, Torn, Whole
    <3>2. /\ c + 1 <= Len(sent) /\ sent[c + 1].put = PktLen(sent[c + 1].len)
          /\ rec = [first |-> sent[c + 1].start, len |-> sent[c + 1].len]
      <4>1. c + 1 \in 1..Len(completed')
        BY <1>1, <2>2
      <4>2. CompletedIntact'
        BY <1>1 DEF IInv
      <4>3. \A k \in 1..Len(completed') :
              /\ k <= Len(sent') /\ sent'[k].put = PktLen(sent'[k].len)
              /\ completed'[k] = [first |-> sent'[k].start, len |-> sent'[k].len]
        BY <1>1, <2>2, <3>1, <4>2 DEF CompletedIntact, Whole
      <4> QED
        BY <1>1, <2>2, <4>1, <4>3
    <3>3. sent[j].len = sent[c + 1].len
      BY <2>1, <3>2
    <3>4. c + 1 \in 1..Finished
      <4>1. Len(sent) \in Nat /\ (sending => ~Whole(Len(sent)))
        BY DEF IInv, TypeOK, Layout
      <4>2. sending => c + 1 # Len(sent)
        BY <3>2, <4>1 DEF Whole
      <4> QED
        BY <1>1, <3>2, <4>1, <4>2 DEF Finished
    <3>5. Accepted[c + 1] = sent[j].len /\ Len(Accepted) = Finished /\ Finished \in Nat
      BY <3>3, <3>4, ViewTypes DEF IInv, Accepted
    <3>6. Len(Completed) < Len(Accepted)
      BY <1>1, <2>3, <3>4, <3>5
    <3> QED
      BY <1>1, <2>3, <2>4, <2>6, <3>5, <3>6, CompleteStep
  <2> QED
    BY <2>5, <2>6
<1> QED
  BY <1>2, <1>3, <1>4

\* Every step of the connection is a step of the channel or none.
LEMMA NextStep == IInv /\ [Next]_vars => ChannelStep
<1> SUFFICES ASSUME IInv, [Next]_vars PROVE ChannelStep
  OBVIOUS
<1>1. CASE UNCHANGED vars
  <2>1. UNCHANGED <<sent, sending, completed, delivered, fate, link, cur>>
    BY <1>1 DEF vars, senderVars, streamVars, recvVars, appVars
  <2> QED
    BY <2>1 DEF ChannelStep, Accepted, Completed, Finished, ChannelState, Torn, Whole, Wedged
<1>2. CASE SendFails \/ Network
  BY <1>2, CutStep
<1>3. ASSUME NEW j \in 1..Len(sent), RebuildPayload(j) PROVE ChannelStep
  BY <1>3, RebuildPayloadStep
<1>4. ASSUME NEW j \in 1..Len(sent), RebuildThrows(j) PROVE ChannelStep
  <2>1. Receiver /\ completed' = completed /\ delivered' = delivered
    BY <1>4 DEF RebuildThrows, Receiver, appVars
  <2> QED
    BY <2>1, QuietStep
<1>5. ASSUME NEW n \in 1..BuffSize, Receive(n) PROVE ChannelStep
  <2>1. Receiver /\ completed' = completed /\ delivered' = delivered
    BY <1>5 DEF Receive, Receiver, appVars
  <2> QED
    BY <2>1, QuietStep
<1>6. CASE ReceiveError \/ ReceiveEof \/ RebuildShortPrefix \/ RebuildHeader
           \/ RebuildGarbles \/ RebuildCrashes
  <2>1. Receiver
    BY <1>6 DEF Receiver
  <2>2. completed' = completed /\ delivered' = delivered
    BY <1>6 DEF ReceiveError, ReceiveEof, RebuildShortPrefix, RebuildHeader, RebuildGarbles,
                RebuildCrashes, recvVars, appVars
  <2> QED
    BY <2>1, <2>2, QuietStep
<1> QED
  BY <1>1, <1>2, <1>3, <1>4, <1>5, <1>6, SendPktStep, SendSomeStep, DeliverStep
     DEF Next, Sender, Receiver

\* A new connection is a new channel.
LEMMA InitChannel == Init => Channel!Init
<1> SUFFICES ASSUME Init PROVE Channel!Init
  OBVIOUS
<1>1. /\ sent = <<>> /\ completed = <<>> /\ sending = FALSE /\ delivered = {}
      /\ fate = "ok" /\ link = "up" /\ Len(sent) = 0 /\ Len(completed) = 0
  BY DEF Init
<1>2. ChannelState = "sound"
  BY <1>1 DEF ChannelState, Wedged
<1>3. Accepted = <<>> /\ Completed = <<>>
  BY <1>1 DEF Accepted, Completed, Finished
<1> QED
  BY <1>1, <1>2, <1>3 DEF Channel!Init, Accepted, Completed

\* A connection implements the abstract channel: however the stream is cut, the
\* packets completed are the packets accepted, in order and once each, until a
\* tear or a failure of rebuild breaks it.
THEOREM Refinement == Spec => ImplementsChannel
<1>1. IInv /\ [Next]_vars => [Channel!Next]_(Channel!vars)
  BY NextStep DEF ChannelStep, Channel!vars, Accepted, Completed
<1> QED
  BY <1>1, InitChannel, Inductive, PTL DEF Spec, ImplementsChannel, Channel!Spec
=============================================================================
