-------------------------- MODULE PeerLink_proofs --------------------------
(***************************************************************************)
(* Proofs about PeerLink for every header length, buffer size, kernel      *)
(* buffering, set of payload lengths and number of packets: IInv is an     *)
(* inductive invariant, and the properties of recv_pkt follow from it.     *)
(***************************************************************************)
EXTENDS PeerLink, TLAPS

\* The packets sent are records of naturals.
LEMMA SentTypes ==
  ASSUME TypeOK
  PROVE  /\ Len(sent) \in Nat
         /\ \A j \in 1..Len(sent) : /\ sent[j] \in SentRec
                                    /\ sent[j].start \in Nat
                                    /\ sent[j].len \in Nat
                                    /\ sent[j].len \in PayloadLens
                                    /\ sent[j].put \in Nat
                                    /\ PktLen(sent[j].len) \in Nat
                                    /\ PktLen(sent[j].len) >= HdrLen
<1>1. Len(sent) \in Nat /\ \A j \in 1..Len(sent) : sent[j] \in SentRec
  BY DEF TypeOK
<1>2. HdrLen \in Nat /\ \A l \in PayloadLens : l \in Nat /\ HdrLen + l \in Nat /\ HdrLen + l >= HdrLen
  BY HdrLenAssumption, LinkAssumption
<1>3. \A j \in 1..Len(sent) :
        sent[j].start \in Nat /\ sent[j].len \in PayloadLens /\ sent[j].put \in Nat
  BY <1>1 DEF SentRec
<1> QED
  BY <1>1, <1>2, <1>3 DEF PktLen

\* Written is the end of the last packet.
LEMMA WrittenType ==
  ASSUME TypeOK
  PROVE  /\ Written \in Nat
         /\ \A k \in 1..Len(sent) : k = Len(sent) => Written = sent[k].start + sent[k].put
         /\ Len(sent) = 0 => Written = 0
<1>1. CASE sent = <<>>
  BY <1>1 DEF Written
<1>2. CASE sent # <<>>
  BY <1>2, SentTypes DEF Written, TypeOK
<1> QED
  BY <1>1, <1>2

\* More bytes of a framed header or of the payload.
LEMMA AdvancedType ==
  ASSUME NEW p \in PacketRec, NEW n \in Nat
  PROVE  /\ Advanced(p, n) \in PacketRec
         /\ Advanced(p, n).first = p.first
         /\ Advanced(p, n).read = p.read + n
         /\ Advanced(p, n).full = HdrLen
BY DEF Advanced, PacketRec

\* A packet of which anything was written is found by the position it starts at.
LEMMA Unique ==
  ASSUME TypeOK, Layout, NEW i \in 1..Len(sent), NEW j \in 1..Len(sent),
         sent[i].start = sent[j].start, sent[i].put > 0, sent[j].put > 0
  PROVE  i = j
  BY SentTypes DEF Layout

\* What CompletedIntact says of one packet.
LEMMA CompletedWhole ==
  ASSUME IInv, NEW k \in 1..Len(completed), NoTearUpTo(k)
  PROVE  /\ k \in 1..Len(sent) /\ Whole(k)
         /\ completed[k] = [first |-> sent[k].start, len |-> sent[k].len]
<1>1. Len(completed) \in Nat /\ Len(sent) \in Nat
  BY DEF IInv, TypeOK
<1>2. /\ k <= Len(sent) /\ Whole(k)
      /\ completed[k] = [first |-> sent[k].start, len |-> sent[k].len]
  BY DEF IInv, CompletedIntact
<1> QED
  BY <1>1, <1>2

-----------------------------------------------------------------------------
(* Steps of the sender and of the network *)

\* What the receiver knows stays true while it does nothing, whatever is sent
\* or lost: packets only grow, and what is whole or torn stays so.
LEMMA ReceiverIdle ==
  ASSUME IInv, TypeOK', UNCHANGED recvVars, UNCHANGED appVars,
         Len(sent) <= Len(sent'),
         \A j \in 1..Len(sent) : /\ sent'[j].start = sent[j].start
                                 /\ sent'[j].len = sent[j].len
                                 /\ sent'[j].put >= sent[j].put
                                 /\ Torn(j) => Torn(j)'
                                 /\ Whole(j) => Whole(j)'
  PROVE  /\ BufferBounds' /\ CurrentShape' /\ CompletedIntact' /\ Aligned'
         /\ NewestDelivered' /\ BrokenOnlyBySplitOrTear'
<1> USE DEF recvVars, appVars
<1>1. /\ Len(sent) \in Nat /\ Len(sent') \in Nat
      /\ HdrLen \in Nat /\ HdrLen > 3
      /\ \A j \in 1..Len(sent) : /\ j \in 1..Len(sent')
                                 /\ sent[j].put \in Nat /\ sent'[j].put \in Nat
  <2>1. /\ Len(sent) \in Nat /\ Len(sent') \in Nat
        /\ \A j \in 1..Len(sent') : sent'[j] \in SentRec
    BY DEF IInv, TypeOK
  <2>2. \A j \in 1..Len(sent) : j \in 1..Len(sent')
    BY <2>1
  <2> QED
    BY <2>1, <2>2, HdrLenAssumption, SentTypes DEF IInv, SentRec, PrefixLen
<1>2. Wedged => Wedged'
  <2>1. SUFFICES ASSUME Wedged PROVE Wedged'
    OBVIOUS
  <2>2. PICK j \in 1..Len(sent) : /\ cur.read >= HdrLen
                                  /\ sent[j].start = cur.first
                                  /\ sent[j].put >= HdrLen /\ sent[j].len = 0
    BY <2>1 DEF Wedged
  <2>3. sent'[j].put >= HdrLen
    BY <1>1, <2>2
  <2> QED
    BY <1>1, <2>2, <2>3 DEF Wedged
<1>3. BufferBounds'
  BY <1>2 DEF IInv, BufferBounds, Left
<1>4. CurrentShape'
  <2>1. cur.full = HdrLen =>
          \E j \in 1..Len(sent') :
            /\ sent'[j].start = cur.first /\ sent'[j].put >= PrefixLen
            /\ cur.read <= PktLen(sent'[j].len)
    <3>1. SUFFICES ASSUME cur.full = HdrLen
                   PROVE  \E j \in 1..Len(sent') :
                            /\ sent'[j].start = cur.first /\ sent'[j].put >= PrefixLen
                            /\ cur.read <= PktLen(sent'[j].len)
      OBVIOUS
    <3>2. PICK j \in 1..Len(sent) : /\ sent[j].start = cur.first
                                    /\ sent[j].put >= PrefixLen
                                    /\ cur.read <= PktLen(sent[j].len)
      BY <3>1 DEF IInv, CurrentShape
    <3>3. sent'[j].put >= PrefixLen
      BY <1>1, <3>2 DEF PrefixLen
    <3> QED
      BY <1>1, <3>2, <3>3
  <2> QED
    BY <1>2, <2>1 DEF IInv, CurrentShape, Position, Cursor, Left
<1>5. \A k \in Nat : NoTearUpTo(k)' => NoTearUpTo(k)
  BY <1>1 DEF NoTearUpTo
<1>6. \A k \in 1..Len(completed) : NoTearUpTo(k)' =>
        /\ k \in 1..Len(sent) /\ Whole(k) /\ Whole(k)'
        /\ completed[k] = [first |-> sent[k].start, len |-> sent[k].len]
  <2>1. \A k \in 1..Len(completed) : k \in Nat
    BY DEF IInv, TypeOK
  <2> QED
    BY <1>1, <1>5, <2>1, CompletedWhole
<1>7. CompletedIntact'
  <2>1. \A k \in 1..Len(completed) : NoTearUpTo(k)' =>
          /\ k <= Len(sent') /\ Whole(k)'
          /\ completed[k] = [first |-> sent'[k].start, len |-> sent'[k].len]
    <3>1. TAKE k \in 1..Len(completed)
    <3>2. HAVE NoTearUpTo(k)'
    <3>3. /\ k \in 1..Len(sent) /\ Whole(k)'
          /\ completed[k] = [first |-> sent[k].start, len |-> sent[k].len]
      BY <1>6, <3>2
    <3>4. sent'[k].start = sent[k].start /\ sent'[k].len = sent[k].len /\ k <= Len(sent')
      BY <1>1, <3>3
    <3> QED
      BY <3>3, <3>4
  <2> QED
    BY <2>1 DEF CompletedIntact
<1>8. Aligned'
  <2>1. Len(completed) \in Nat
    BY DEF IInv, TypeOK
  <2>2. NoTearUpTo(Len(completed))' => EndOf(Len(completed))' = EndOf(Len(completed))
    <3>1. CASE Len(completed) = 0
      BY <3>1 DEF EndOf
    <3>2. CASE Len(completed) # 0
      <4>1. Len(completed) \in 1..Len(completed)
        BY <2>1, <3>2
      <4> QED
        BY <1>6, <3>2, <4>1 DEF EndOf
    <3> QED
      BY <3>1, <3>2
  <2> QED
    BY <1>5, <2>1, <2>2 DEF IInv, Aligned, Position, Cursor, Left
<1>9. NewestDelivered'
  BY <1>2 DEF IInv, NewestDelivered
<1>10. BrokenOnlyBySplitOrTear'
  BY <1>1 DEF IInv, BrokenOnlyBySplitOrTear, NoTear
<1> QED
  BY <1>3, <1>4, <1>7, <1>8, <1>9, <1>10

\* SendPkt preserves the invariant: the new packet starts where Written ends.
LEMMA SendPktInv ==
  ASSUME IInv, NEW l \in PayloadLens, SendPkt(l)
  PROVE  IInv'
<1> DEFINE new == [start |-> Written, len |-> l, put |-> 0]
<1>1. /\ Written \in Nat /\ Len(sent) \in Nat /\ l \in Nat /\ HdrLen \in Nat /\ HdrLen > 0
      /\ new \in SentRec /\ sent' = Append(sent, new) /\ sending' /\ ~sending
  BY LinkAssumption, HdrLenAssumption, WrittenType, SentTypes
     DEF IInv, SendPkt, SentRec, PrefixLen
<1>2. /\ Len(sent') = Len(sent) + 1 /\ sent' \in Seq(SentRec)
      /\ \A j \in 1..Len(sent) : sent'[j] = sent[j]
      /\ sent'[Len(sent) + 1] = new
  BY <1>1 DEF IInv, TypeOK
<1>3. TypeOK'
  BY <1>1, <1>2 DEF IInv, TypeOK, SendPkt, streamVars, recvVars, appVars
<1>4. Written' = Written
  <2>1. sent' # <<>> /\ sent'[Len(sent')].start = Written /\ sent'[Len(sent')].put = 0
    BY <1>1, <1>2
  <2> QED
    BY <1>1, <2>1 DEF Written
<1>5. Layout'
  <2>1. \A j \in 1..Len(sent) : sent[j].start + sent[j].put <= Written
    <3>1. TAKE j \in 1..Len(sent)
    <3>2. Len(sent) \in 1..Len(sent) /\ Written = sent[Len(sent)].start + sent[Len(sent)].put
      BY <1>1, WrittenType DEF IInv
    <3>3. j = Len(sent) \/ sent[j].start + sent[j].put <= sent[Len(sent)].start
      BY <1>1, <3>2 DEF IInv, Layout
    <3> QED
      BY <3>2, <3>3, SentTypes DEF IInv
  <2>2. \A j \in 1..Len(sent') : sent'[j].put <= PktLen(sent'[j].len)
    BY <1>1, <1>2, SentTypes DEF IInv, Layout, PktLen
  <2>3. \A j \in 1..Len(sent') :
          sent'[j].start = IF j = 1 THEN 0 ELSE sent'[j-1].start + sent'[j-1].put
    <3>1. \A j \in 1..Len(sent) : j # 1 => j - 1 \in 1..Len(sent)
      BY <1>1
    <3>2. Len(sent) # 0 => Written = sent[Len(sent)].start + sent[Len(sent)].put
      BY <1>1, WrittenType DEF IInv
    <3> QED
      BY <1>1, <1>2, <3>1, <3>2, WrittenType DEF IInv, Layout
  <2>4. \A i, j \in 1..Len(sent') : i < j => sent'[i].start + sent'[i].put <= sent'[j].start
    BY <1>1, <1>2, <2>1 DEF IInv, Layout
  <2>5. sent' # <<>> /\ ~Whole(Len(sent))'
    BY <1>1, <1>2 DEF Whole, PktLen
  <2>6. ~(sent'[Len(sent')].put = PktLen(sent'[Len(sent')].len))
    BY <1>1, <1>2 DEF PktLen
  <2> QED
    BY <2>2, <2>3, <2>4, <2>5, <2>6 DEF Layout, Whole
<1>6. StreamBounds'
  BY <1>4 DEF IInv, StreamBounds, SendPkt, streamVars, recvVars
<1>7. \A j \in 1..Len(sent) : (Torn(j) => Torn(j)') /\ (Whole(j) => Whole(j)')
  BY <1>1, <1>2 DEF Torn, Whole
<1> QED
  BY <1>1, <1>2, <1>3, <1>5, <1>6, <1>7, SentTypes, ReceiverIdle DEF IInv, SendPkt

\* SendSome preserves the invariant: the last packet grows, and with it the stream.
LEMMA SendSomeInv ==
  ASSUME IInv, NEW n \in 1..SockCap, SendSome(n)
  PROVE  IInv'
<1> DEFINE L == Len(sent)
<1>1. /\ L \in Nat /\ L > 0 /\ sending
      /\ sent[L] \in SentRec /\ sent[L].put \in Nat /\ sent[L].start \in Nat
      /\ PktLen(sent[L].len) \in Nat /\ n \in Nat /\ n > 0
      /\ sent[L].put + n <= PktLen(sent[L].len)
      /\ sent' = [sent EXCEPT ![L].put = @ + n]
  <2>1. L \in Nat /\ sending /\ sent # <<>>
    BY DEF IInv, TypeOK, Layout, SendSome
  <2>2. L \in 1..L
    BY <2>1 DEF IInv, TypeOK
  <2>3. n \in Nat /\ n > 0
    BY LinkAssumption
  <2> QED
    BY <2>1, <2>2, <2>3, SentTypes DEF IInv, SendSome
<1>2. /\ Len(sent') = L /\ sent' \in Seq(SentRec)
      /\ \A j \in 1..L : /\ sent'[j].start = sent[j].start /\ sent'[j].len = sent[j].len
                         /\ j # L => sent'[j] = sent[j]
      /\ sent'[L].put = sent[L].put + n
  <2> DEFINE new == [sent[L] EXCEPT !.put = @ + n]
  <2>1. new \in SentRec /\ new.start = sent[L].start /\ new.len = sent[L].len
        /\ new.put = sent[L].put + n
    BY <1>1 DEF SentRec
  <2>2. sent' = [sent EXCEPT ![L] = new]
    BY <1>1
  <2>3. sent \in Seq(SentRec) /\ L \in 1..L
    BY <1>1 DEF IInv, TypeOK
  <2> HIDE DEF new
  <2>4. /\ Len(sent') = L /\ sent' \in Seq(SentRec) /\ sent'[L] = new
        /\ \A j \in 1..L : j # L => sent'[j] = sent[j]
    BY <2>1, <2>2, <2>3
  <2> QED
    BY <2>1, <2>4
<1>3. TypeOK'
  BY <1>1, <1>2 DEF IInv, TypeOK, SendSome, recvVars, appVars
<1>4. Written' = Written + n
  <2>1. sent' # <<>> /\ sent # <<>>
    BY <1>1, <1>2
  <2> QED
    BY <1>1, <1>2, <2>1 DEF Written
<1>5. Layout'
  <2>1. \A j \in 1..L : sent'[j].put <= PktLen(sent'[j].len)
    BY <1>1, <1>2 DEF IInv, Layout
  <2>2. \A j \in 1..L :
          sent'[j].start = IF j = 1 THEN 0 ELSE sent'[j-1].start + sent'[j-1].put
    <3>1. \A j \in 1..L : j # 1 => j - 1 \in 1..L /\ j - 1 # L
      BY <1>1
    <3> QED
      BY <1>1, <1>2, <3>1 DEF IInv, Layout
  <2>3. \A i, j \in 1..L : i < j => sent'[i].start + sent'[i].put <= sent'[j].start
    <3>1. \A i, j \in 1..L : i < j => i # L
      BY <1>1
    <3> QED
      BY <1>2, <3>1 DEF IInv, Layout
  <2>4. sent' # <<>> /\ L \in 1..L
    BY <1>1, <1>2
  <2>5. sending' => sent[L].put + n < PktLen(sent[L].len)
    BY DEF SendSome
  <2>6. sending' => ~(sent'[L].put = PktLen(sent'[L].len))
    <3>1. sent'[L].len = sent[L].len
      BY <1>2, <2>4
    <3> QED
      BY <1>1, <1>2, <2>5, <3>1
  <2> QED
    BY <1>2, <2>1, <2>2, <2>3, <2>4, <2>6 DEF Layout, Whole
<1>6. StreamBounds'
  BY <1>1, <1>4, WrittenType DEF IInv, TypeOK, StreamBounds, SendSome, recvVars
<1>7. \A j \in 1..L : /\ (Torn(j) => Torn(j)') /\ (Whole(j) => Whole(j)')
                      /\ sent'[j].put >= sent[j].put
  BY <1>1, <1>2, SentTypes DEF IInv, Layout, Torn, Whole
<1> QED
  BY <1>1, <1>2, <1>3, <1>5, <1>6, <1>7, ReceiverIdle DEF IInv, SendSome

\* Steps that end or break what is being sent, and leave the packets alone.
LEMMA CutInv ==
  ASSUME IInv, UNCHANGED <<sent, recvVars, appVars>>, sending' = FALSE,
         link' \in {"up", "fin", "rst", "rstseen"}, avail' \in taken..avail,
         link' = "up" => avail' = avail /\ link = "up"
  PROVE  IInv'
<1>1. avail' \in Nat /\ taken <= avail' /\ avail' <= avail
  BY DEF IInv, TypeOK
<1>2. TypeOK'
  BY <1>1 DEF IInv, TypeOK, recvVars, appVars
<1>3. Layout'
  BY DEF IInv, Layout, Whole
<1>4. StreamBounds'
  <2>1. Written' = Written /\ Written \in Nat /\ avail \in Nat
    BY WrittenType DEF Written, IInv, TypeOK
  <2> QED
    BY <1>1, <2>1 DEF IInv, StreamBounds, recvVars
<1>5. \A j \in 1..Len(sent) : /\ (Torn(j) => Torn(j)') /\ (Whole(j) => Whole(j)')
                              /\ sent[j].put >= sent[j].put
                              /\ sent'[j] = sent[j]
  BY SentTypes DEF IInv, Torn, Whole
<1>6. Len(sent) <= Len(sent') /\ UNCHANGED recvVars /\ UNCHANGED appVars
  BY DEF IInv, TypeOK
<1>7. \A j \in 1..Len(sent) : /\ sent'[j].start = sent[j].start
                              /\ sent'[j].len = sent[j].len
                              /\ sent'[j].put >= sent[j].put
                              /\ Torn(j) => Torn(j)'
                              /\ Whole(j) => Whole(j)'
  BY <1>5
<1> QED
  BY <1>2, <1>3, <1>4, <1>6, <1>7, ReceiverIdle DEF IInv

\* The sender and the network preserve the invariant.
LEMMA SenderNetworkInv ==
  ASSUME IInv, Sender \/ Network
  PROVE  IInv'
<1>0. taken \in Nat /\ avail \in Nat /\ taken <= avail /\ avail \in taken..avail
  BY DEF IInv, TypeOK, StreamBounds
<1>1. ASSUME NEW l \in PayloadLens, SendPkt(l) PROVE IInv'
  BY <1>1, SendPktInv
<1>2. ASSUME NEW n \in 1..SockCap, SendSome(n) PROVE IInv'
  BY <1>2, SendSomeInv
<1>3. CASE SendFails
  BY <1>0, <1>3, CutInv DEF SendFails, streamVars
<1>4. CASE PeerCloses
  BY <1>0, <1>4, CutInv DEF PeerCloses
<1>5. ASSUME NEW kept \in taken..avail, PeerResets(kept) PROVE IInv'
  BY <1>5, CutInv DEF PeerResets
<1> QED
  BY <1>1, <1>2, <1>3, <1>4, <1>5 DEF Sender, Network

-----------------------------------------------------------------------------
(* Where the receiver stands in the stream *)

\* If anything was written behind the last completed packet, it belongs to the
\* packet sent next.
LEMMA NextPacket ==
  ASSUME IInv, NoTearUpTo(Len(completed)), EndOf(Len(completed)) < Written
  PROVE  /\ Len(completed) + 1 \in 1..Len(sent)
         /\ sent[Len(completed) + 1].start = EndOf(Len(completed))
<1> DEFINE c == Len(completed)
<1>1. c \in Nat /\ Len(sent) \in Nat /\ TypeOK /\ Written \in Nat
  BY WrittenType DEF IInv, TypeOK
<1>2. CASE c = 0
  <2>1. Len(sent) # 0 /\ EndOf(c) = 0
    BY <1>1, <1>2, WrittenType DEF EndOf
  <2> QED
    BY <1>1, <1>2, <2>1 DEF IInv, Layout
<1>3. CASE c # 0
  <2>1. c \in 1..c
    BY <1>1, <1>3
  <2>2. c \in 1..Len(sent) /\ Whole(c)
    BY <1>1, <2>1, CompletedWhole
  <2>3. EndOf(c) = sent[c].start + sent[c].put
    BY <1>3, <2>2 DEF EndOf, Whole
  <2>4. c # Len(sent)
    BY <1>1, <2>2, <2>3, WrittenType
  <2>5. c + 1 \in 1..Len(sent) /\ c + 1 # 1 /\ c + 1 - 1 = c
    BY <1>1, <2>2, <2>4
  <2> QED
    BY <2>3, <2>5 DEF IInv, Layout
<1> QED
  BY <1>2, <1>3

\* A packet that starts where the last completed one ends is the next one.
LEMMA ThisPacket ==
  ASSUME IInv, NoTearUpTo(Len(completed) + 1),
         NEW j \in 1..Len(sent), sent[j].start = EndOf(Len(completed)), sent[j].put > 0
  PROVE  j = Len(completed) + 1
<1> DEFINE c == Len(completed)
<1>1. c \in Nat /\ Len(sent) \in Nat /\ TypeOK /\ NoTearUpTo(c) /\ HdrLen > 0 /\ HdrLen \in Nat
  BY HdrLenAssumption DEF IInv, TypeOK, NoTearUpTo, PrefixLen
<1>2. /\ sent[j].start \in Nat /\ sent[j].put \in Nat
      /\ j \in Nat /\ j >= 1 /\ j <= Len(sent)
  BY <1>1, SentTypes
<1>3. j > c
  <2>1. CASE c = 0
    BY <1>2, <2>1
  <2>2. CASE c # 0
    <3>1. c \in 1..c
      BY <1>1, <2>2
    <3>2. c \in 1..Len(sent) /\ Whole(c)
      BY <1>1, <3>1, CompletedWhole
    <3>3. EndOf(c) = sent[c].start + sent[c].put
      BY <2>2, <3>2 DEF EndOf, Whole
    <3>4. sent[c].start \in Nat /\ sent[c].put \in Nat /\ sent[c].put > 0
      BY <1>1, <3>2, SentTypes DEF Whole
    <3>5. j < c => sent[j].start + sent[j].put <= sent[c].start
      BY <3>2 DEF IInv, Layout
    <3> QED
      BY <1>1, <1>2, <3>3, <3>4, <3>5
  <2> QED
    BY <2>1, <2>2
<1>4. ASSUME j > c + 1 PROVE FALSE
  <2>1. c + 1 \in 1..Len(sent) /\ c + 1 < j /\ c + 1 # Len(sent)
    BY <1>1, <1>2, <1>4
  <2>2. Whole(c + 1)
    BY <1>1, <2>1 DEF NoTearUpTo, Torn
  <2>3. /\ sent[c + 1].start \in Nat /\ sent[c + 1].put \in Nat /\ sent[c + 1].put > 0
    BY <1>1, <2>1, <2>2, SentTypes DEF Whole
  <2>4. sent[c + 1].start + sent[c + 1].put <= sent[j].start
    BY <2>1 DEF IInv, Layout
  <2>5. sent[c + 1].start = EndOf(c)
    <3>1. EndOf(c) < Written
      <4>1. j = Len(sent) \/ sent[j].start + sent[j].put <= sent[Len(sent)].start
        BY <1>1, <1>2 DEF IInv, Layout
      <4>2. Len(sent) \in 1..Len(sent) /\ sent[Len(sent)].start \in Nat /\ sent[Len(sent)].put \in Nat
        BY <1>1, <1>2, SentTypes
      <4>3. Written = sent[Len(sent)].start + sent[Len(sent)].put
        BY <1>1, <4>2, WrittenType
      <4> QED
        BY <1>2, <4>1, <4>2, <4>3
    <3> QED
      BY <1>1, <3>1, NextPacket
  <2> QED
    BY <2>3, <2>4, <2>5
<1> QED
  BY <1>1, <1>2, <1>3, <1>4

\* A packet that is not torn has in the stream every byte up to Written.
LEMMA Filled ==
  ASSUME TypeOK, NEW j \in 1..Len(sent), ~Torn(j), NEW n \in Nat,
         n <= PktLen(sent[j].len), sent[j].start + n <= Written
  PROVE  sent[j].put >= n
<1>1. CASE Whole(j)
  BY <1>1, SentTypes DEF Whole
<1>2. CASE j = Len(sent)
  BY <1>2, SentTypes, WrittenType
<1> QED
  BY <1>1, <1>2 DEF Torn

\* The receiver in the loop of recv_pkt.
LEMMA Parsing ==
  ASSUME IInv, pc = "parse", fate = "ok"
  PROVE  /\ HdrLen \in Nat /\ HdrLen > 3
         /\ Left \in Nat /\ Left > 0 /\ Cursor \in Nat
         /\ Cursor + Left = taken /\ taken \in Nat /\ taken <= Written /\ Written \in Nat
         /\ Position = Cursor
         /\ pos \in Nat /\ len \in Nat /\ pos + Left = len /\ len <= BuffSize
         /\ BuffSize \in Nat /\ BuffSize > 0
         /\ Current \in PacketRec
         /\ Current.read \in Nat /\ Current.first \in Nat
         /\ Current.read = cur.read /\ Current.full = cur.full
         /\ cur.read = 0 => cur.full = 0 /\ Current.first = Cursor
         /\ cur.read # 0 => Current = cur
         /\ ~Wedged => Current.first + Current.read = Cursor
         /\ NoTearUpTo(Len(completed)) => Current.first = EndOf(Len(completed))
<1>1. /\ HdrLen \in Nat /\ HdrLen > 3 /\ BuffSize \in Nat /\ BuffSize > 0
  BY HdrLenAssumption, LinkAssumption DEF PrefixLen
<1>2. /\ pos \in Nat /\ len \in Nat /\ taken \in Nat /\ len <= BuffSize
      /\ cur \in PacketRec /\ pos < len /\ Left <= taken /\ Left = len - pos
  BY <1>1 DEF IInv, TypeOK, BufferBounds, Left
<1>3. Left \in Nat /\ Left > 0 /\ Cursor \in Nat /\ Cursor + Left = taken /\ pos + Left = len
  BY <1>2 DEF Cursor
<1>4. taken <= Written /\ Written \in Nat
  BY <1>2, WrittenType DEF IInv, StreamBounds, TypeOK
<1>5. cur.first \in Nat /\ cur.read \in Nat /\ cur.full \in {0, HdrLen}
  BY <1>2 DEF PacketRec
<1>6. cur.read = 0 => cur.full = 0
  BY <1>5 DEF IInv, CurrentShape, PrefixLen
<1>7. /\ Current \in PacketRec
      /\ Current.read \in Nat /\ Current.first \in Nat
      /\ Current.read = cur.read /\ Current.full = cur.full
      /\ cur.read = 0 => Current.first = Cursor
      /\ cur.read # 0 => Current = cur
  BY <1>1, <1>2, <1>3, <1>5, <1>6 DEF Current, NewPacket, PacketRec
<1>8. Position = Cursor
  BY DEF Position
<1>9. ~Wedged => Current.first + Current.read = Cursor
  BY <1>3, <1>5, <1>7, <1>8 DEF IInv, CurrentShape
<1>10. NoTearUpTo(Len(completed)) => Current.first = EndOf(Len(completed))
  BY <1>7, <1>8 DEF IInv, Aligned
<1> QED
  BY <1>1, <1>2, <1>3, <1>4, <1>6, <1>7, <1>8, <1>9, <1>10

-----------------------------------------------------------------------------
(* Steps of the receiver *)

\* What a step that neither sends nor completes a packet leaves as it was.
LEMMA SentKept ==
  ASSUME IInv, UNCHANGED senderVars, UNCHANGED completed
  PROVE  /\ Layout' /\ CompletedIntact'
         /\ Written' = Written
         /\ \A k : EndOf(k)' = EndOf(k)
         /\ \A k : NoTearUpTo(k)' = NoTearUpTo(k)
<1>1. Layout'
  BY DEF IInv, Layout, Whole, senderVars
<1>2. CompletedIntact'
  BY DEF IInv, CompletedIntact, NoTearUpTo, Torn, Whole, senderVars
<1>3. Written' = Written /\ \A k : EndOf(k)' = EndOf(k)
  BY DEF Written, EndOf, senderVars
<1>4. \A k : NoTearUpTo(k)' = NoTearUpTo(k)
  BY DEF NoTearUpTo, Torn, Whole, senderVars
<1> QED
  BY <1>1, <1>2, <1>3, <1>4

\* CurrentShape of the next state needs only its last conjunct shown while the
\* current packet stays what it is.
LEMMA ShapeKept ==
  ASSUME IInv, UNCHANGED senderVars, UNCHANGED cur,
         fate' = "ok" /\ cur.read > 0 /\ ~Wedged => cur.first + cur.read = Position'
  PROVE  CurrentShape' /\ Wedged' = Wedged
  BY DEF IInv, CurrentShape, Wedged, senderVars

\* Receive preserves the invariant: the chunk begins where the last one ended.
LEMMA ReceiveInv ==
  ASSUME IInv, NEW n \in 1..BuffSize, Receive(n)
  PROVE  IInv'
<1>1. /\ pc = "poll" /\ open /\ fate = "ok" /\ fate' = "ok"
      /\ n <= BuffSize - pos /\ n <= avail - taken
      /\ taken' = taken + n /\ len' = n
      /\ pc' = IF pos < n THEN "parse" ELSE "deliver"
      /\ UNCHANGED <<pos, cur, completed, open, sent, sending, link, avail, delivered, again>>
  BY DEF Receive, Polled, InFlight, senderVars, streamVars, appVars
<1>2. /\ BuffSize \in Nat /\ n \in Nat /\ n > 0 /\ HdrLen \in Nat /\ HdrLen > 3
      /\ pos \in Nat /\ taken \in Nat /\ avail \in Nat /\ pos < BuffSize
      /\ cur.read \in Nat
  BY LinkAssumption, HdrLenAssumption DEF IInv, TypeOK, BufferBounds, PacketRec, PrefixLen
<1>3. TypeOK'
  BY <1>1, <1>2 DEF IInv, TypeOK
<1>4. pos = 0 \/ Wedged
  BY <1>1 DEF IInv, BufferBounds
<1>5. Wedged => cur.read > 0
  BY <1>2 DEF Wedged
<1>6. pos = 0 => Position' = Position
  BY <1>1, <1>2 DEF Position, Cursor, Left
<1>7. CurrentShape' /\ Wedged' = Wedged
  <2>1. ~Wedged /\ cur.read > 0 => cur.first + cur.read = Position
    BY <1>1 DEF IInv, CurrentShape
  <2> QED
    BY <1>1, <1>4, <1>6, <2>1, ShapeKept DEF senderVars
<1>8. Layout' /\ CompletedIntact'
  BY <1>1, SentKept DEF senderVars
<1>9. StreamBounds'
  BY <1>1, <1>2, SentKept DEF IInv, StreamBounds, senderVars
<1>10. BufferBounds'
  BY <1>1, <1>2, <1>4, <1>7 DEF BufferBounds, Left
<1>11. Aligned'
  <2>1. fate = "ok" /\ NoTearUpTo(Len(completed)) =>
          EndOf(Len(completed)) = IF cur.read = 0 THEN Position' ELSE cur.first
    BY <1>1, <1>4, <1>5, <1>6 DEF IInv, Aligned
  <2>2. NoTearUpTo(Len(completed))' = NoTearUpTo(Len(completed))
        /\ EndOf(Len(completed))' = EndOf(Len(completed))
    BY <1>1, SentKept DEF senderVars
  <2> QED
    BY <1>1, <2>1, <2>2 DEF Aligned
<1>12. NewestDelivered' /\ BrokenOnlyBySplitOrTear'
  BY <1>1 DEF NewestDelivered, BrokenOnlyBySplitOrTear
<1> QED
  BY <1>3, <1>7, <1>8, <1>9, <1>10, <1>11, <1>12 DEF IInv

\* ReceiveError preserves the invariant.
LEMMA ReceiveErrorInv ==
  ASSUME IInv, ReceiveError
  PROVE  IInv'
<1>1. link = "rst" /\ sending = FALSE /\ taken \in Nat /\ avail \in taken..avail
  BY DEF IInv, TypeOK, StreamBounds, ReceiveError
<1> QED
  BY <1>1, CutInv DEF ReceiveError, senderVars

\* ReceiveEof preserves the invariant.
LEMMA ReceiveEofInv ==
  ASSUME IInv, ReceiveEof
  PROVE  IInv'
<1>1. /\ pc = "poll" /\ fate = "ok" /\ fate' = "ok" /\ open' = FALSE /\ len' = 0
      /\ pc' = "deliver"
      /\ UNCHANGED <<taken, pos, cur, completed, sent, sending, link, avail, delivered, again>>
  BY DEF ReceiveEof, Polled, senderVars, streamVars, appVars
<1>2. TypeOK'
  <2>1. 0 \in 0..BuffSize
    BY LinkAssumption
  <2> QED
    BY <1>1, <2>1 DEF IInv, TypeOK
<1>3. Position' = Position
  BY <1>1 DEF Position
<1>4. CurrentShape' /\ Wedged' = Wedged
  <2>1. ~Wedged /\ cur.read > 0 => cur.first + cur.read = Position
    BY <1>1 DEF IInv, CurrentShape
  <2> QED
    BY <1>1, <1>3, <2>1, ShapeKept DEF senderVars
<1>5. Layout' /\ CompletedIntact'
  BY <1>1, SentKept DEF senderVars
<1>6. StreamBounds'
  BY <1>1, SentKept DEF IInv, StreamBounds, senderVars
<1>7. BufferBounds'
  BY <1>1, <1>4 DEF IInv, BufferBounds
<1>8. Aligned'
  BY <1>1, <1>3, SentKept DEF IInv, Aligned, senderVars
<1>9. NewestDelivered' /\ BrokenOnlyBySplitOrTear'
  BY <1>1 DEF NewestDelivered, BrokenOnlyBySplitOrTear
<1> QED
  BY <1>2, <1>4, <1>5, <1>6, <1>7, <1>8, <1>9 DEF IInv

\* Deliver preserves the invariant, and re-establishes NewestDelivered.
LEMMA DeliverInv ==
  ASSUME IInv, Deliver
  PROVE  IInv'
<1>1. /\ pc = "deliver" /\ fate = "ok" /\ fate' = "ok" /\ pc' = "poll"
      /\ delivered' = IF Len(completed) > 0 THEN delivered \cup {Len(completed)} ELSE delivered
      /\ again' = (again \/ Len(completed) \in delivered)
      /\ UNCHANGED <<taken, pos, len, cur, completed, open, sent, sending, link, avail>>
  BY DEF Deliver, Newest, senderVars, streamVars
<1>2. Len(completed) \in Nat
  BY DEF IInv, TypeOK
<1>3. TypeOK'
  BY <1>1, <1>2 DEF IInv, TypeOK
<1>4. Position' = Position
  BY <1>1 DEF Position
<1>5. CurrentShape' /\ Wedged' = Wedged
  <2>1. ~Wedged /\ cur.read > 0 => cur.first + cur.read = Position
    BY <1>1 DEF IInv, CurrentShape
  <2> QED
    BY <1>1, <1>4, <2>1, ShapeKept DEF senderVars
<1>6. Layout' /\ CompletedIntact'
  BY <1>1, SentKept DEF senderVars
<1>7. StreamBounds'
  BY <1>1, SentKept DEF IInv, StreamBounds, senderVars
<1>8. BufferBounds'
  BY <1>1, <1>5 DEF IInv, BufferBounds
<1>9. Aligned'
  BY <1>1, <1>4, SentKept DEF IInv, Aligned, senderVars
<1>10. NewestDelivered'
  <2>1. completed # <<>> => Len(completed) > 0
    BY <1>2 DEF IInv, TypeOK
  <2> QED
    BY <1>1, <2>1 DEF NewestDelivered
<1>11. BrokenOnlyBySplitOrTear'
  BY <1>1 DEF BrokenOnlyBySplitOrTear
<1> QED
  BY <1>3, <1>5, <1>6, <1>7, <1>8, <1>9, <1>10, <1>11 DEF IInv

\* The end of a turn of the loop, of which n bytes were consumed.
LEMMA ConsumedInv ==
  ASSUME IInv, pc = "parse", fate = "ok", NEW n \in Nat, n <= Left,
         Consumed(pos + n), UNCHANGED <<taken, len, fate>>, UNCHANGED senderVars
  PROVE  /\ BufferBounds'
         /\ Position' = Cursor + n /\ Cursor + n <= taken
         /\ pos' \in Nat /\ pc' \in {"parse", "deliver"}
<1>1. /\ pos' = IF pos + n < len THEN pos + n ELSE 0
      /\ pc' = IF pos + n < len THEN "parse" ELSE "deliver"
  BY DEF Consumed
<1>0. /\ pos \in Nat /\ len \in Nat /\ taken \in Nat /\ pos + Left = len /\ len <= BuffSize
      /\ BuffSize \in Nat /\ BuffSize > 0 /\ Left \in Nat /\ Cursor + Left = taken
      /\ Cursor \in Nat
  BY Parsing
<1>2. CASE pos + n < len
  <2>1. pos' = pos + n /\ pc' = "parse"
    BY <1>1, <1>2
  <2>2. Left' = Left - n /\ Left' > 0 /\ Left' <= taken'
    BY <1>0, <1>2, <2>1 DEF Left
  <2>3. Position' = Cursor + n
    BY <1>0, <2>1, <2>2 DEF Position, Cursor
  <2> QED
    BY <1>0, <1>2, <2>1, <2>2, <2>3 DEF BufferBounds
<1>3. CASE ~(pos + n < len)
  <2>1. pos' = 0 /\ pc' = "deliver" /\ n = Left
    BY <1>0, <1>1, <1>3
  <2>2. Position' = Cursor + n
    BY <1>0, <2>1 DEF Position
  <2> QED
    BY <1>0, <2>1, <2>2 DEF BufferBounds
<1> QED
  BY <1>2, <1>3

\* A turn of the loop that completes no packet: what is left to show is the new
\* shape of the current one.
LEMMA PendingInv ==
  ASSUME IInv, pc = "parse", fate = "ok", NEW n \in Nat, n <= Left, n > 0,
         Consumed(pos + n), UNCHANGED <<taken, len, completed, open, fate>>,
         UNCHANGED senderVars, UNCHANGED streamVars, UNCHANGED appVars,
         cur' \in PacketRec, cur'.first = Current.first, cur'.read = Current.read + n,
         ~Wedged,
         \/ cur'.full = 0 /\ cur'.read < PrefixLen
         \/ /\ cur'.full = HdrLen /\ cur'.read >= PrefixLen
            /\ \E j \in 1..Len(sent) :
                 /\ sent[j].start = cur'.first /\ sent[j].put >= PrefixLen
                 /\ cur'.read <= PktLen(sent[j].len)
  PROVE  IInv'
<1> USE DEF senderVars, streamVars, appVars
<1>1. /\ BufferBounds' /\ Position' = Cursor + n /\ pos' \in Nat
      /\ pc' \in {"parse", "deliver"}
  BY ConsumedInv
<1>2. TypeOK'
  BY <1>1 DEF IInv, TypeOK
<1>3. Layout' /\ CompletedIntact'
  BY SentKept
<1>4. StreamBounds'
  BY SentKept DEF IInv, StreamBounds
<1>5. /\ Current.first + Current.read = Cursor /\ cur'.read > 0
      /\ Current.first \in Nat /\ Current.read \in Nat /\ Cursor \in Nat
      /\ HdrLen \in Nat /\ HdrLen # 0
  <2>1. /\ Current.first + Current.read = Cursor /\ HdrLen \in Nat /\ HdrLen > 3
        /\ Current.first \in Nat /\ Current.read \in Nat /\ Cursor \in Nat
    BY Parsing
  <2> QED
    BY <2>1
<1>6. CurrentShape'
  <2>1. cur'.first + cur'.read = Position'
    BY <1>1, <1>5
  <2> QED
    BY <1>5, <2>1 DEF CurrentShape
<1>7. Aligned'
  <2>1. NoTearUpTo(Len(completed)) => Current.first = EndOf(Len(completed))
    BY Parsing
  <2>2. NoTearUpTo(Len(completed))' = NoTearUpTo(Len(completed))
        /\ EndOf(Len(completed))' = EndOf(Len(completed))
    BY SentKept
  <2> QED
    BY <1>5, <2>1, <2>2 DEF Aligned
<1>8. NewestDelivered' /\ BrokenOnlyBySplitOrTear'
  BY <1>1 DEF NewestDelivered, BrokenOnlyBySplitOrTear
<1> QED
  BY <1>1, <1>2, <1>3, <1>4, <1>6, <1>7, <1>8 DEF IInv

\* A lost prefix leaves a current packet of one or two bytes and no header.
LEMMA RebuildShortPrefixInv ==
  ASSUME IInv, RebuildShortPrefix
  PROVE  IInv'
<1>1. /\ pc = "parse" /\ fate = "ok" /\ Consumed(len)
      /\ Current.full = 0 /\ Current.read + Left < PrefixLen
      /\ cur' = [Current EXCEPT !.read = @ + Left]
      /\ UNCHANGED <<taken, len, completed, open, fate>>
      /\ UNCHANGED senderVars /\ UNCHANGED streamVars /\ UNCHANGED appVars
  BY DEF RebuildShortPrefix, LosesPrefix
<1>2. /\ cur' \in PacketRec /\ cur'.first = Current.first
      /\ cur'.read = Current.read + Left /\ cur'.full = 0
  <2>1. Current \in [first : Nat, read : Nat, full : {0, HdrLen}] /\ Left \in Nat
    BY <1>1, Parsing DEF PacketRec
  <2> QED
    BY <1>1, <2>1 DEF PacketRec
<1>3. pos + Left = len /\ Left \in Nat /\ Left > 0
  BY <1>1, Parsing
<1>4. ~Wedged
  BY <1>1, Parsing DEF Wedged, PrefixLen
<1> QED
  BY <1>1, <1>2, <1>3, <1>4, PendingInv

\* The header under way was framed from the first bytes of a packet.
LEMMA FramedPacket ==
  ASSUME IInv, pc = "parse", fate = "ok",
         HeaderFramed(Current, Left, Genuine(Cursor, PrefixLen))
  PROVE  /\ \E j \in 1..Len(sent) :
              /\ sent[j].start = Current.first /\ sent[j].put >= PrefixLen
              /\ Current.read <= PktLen(sent[j].len)
         /\ Current.read + Left >= PrefixLen
<1>1. CASE Current.full = HdrLen
  <2>1. cur.full = HdrLen /\ Current = cur
    BY <1>1, Parsing
  <2> QED
    BY <2>1, Parsing DEF IInv, CurrentShape, PrefixLen
<1>2. CASE Current.full = 0 /\ Current.read = 0 /\ Left >= PrefixLen /\ Genuine(Cursor, PrefixLen)
  <2>1. PICK j \in 1..Len(sent) : sent[j].start = Cursor /\ sent[j].put >= PrefixLen
    BY <1>2 DEF Genuine
  <2>2. Current.first = Cursor /\ Current.read <= PktLen(sent[j].len)
    BY <1>2, Parsing, SentTypes DEF IInv
  <2> QED
    BY <1>2, <2>1, <2>2, Parsing DEF PrefixLen
<1> QED
  BY <1>1, <1>2 DEF HeaderFramed

\* Header bytes up to the end of the chunk keep the current packet in step with the
\* stream.
LEMMA RebuildHeaderInv ==
  ASSUME IInv, RebuildHeader
  PROVE  IInv'
<1>1. /\ pc = "parse" /\ fate = "ok" /\ Consumed(len)
      /\ HeaderFramed(Current, Left, Genuine(Cursor, PrefixLen))
      /\ Current.read + Left <= HdrLen
      /\ cur' = Advanced(Current, Left)
      /\ UNCHANGED <<taken, len, completed, open, fate>>
      /\ UNCHANGED senderVars /\ UNCHANGED streamVars /\ UNCHANGED appVars
  BY DEF RebuildHeader, HeaderPending
<1>2. /\ cur' \in PacketRec /\ cur'.first = Current.first
      /\ cur'.read = Current.read + Left /\ cur'.full = HdrLen
  BY <1>1, Parsing, AdvancedType
<1>3. pos + Left = len /\ Left \in Nat /\ Left > 0
  BY <1>1, Parsing
<1>4. ~Wedged
  BY <1>1, Parsing DEF Wedged
<1>5. PICK j \in 1..Len(sent) : sent[j].start = Current.first /\ sent[j].put >= PrefixLen
  BY <1>1, FramedPacket
<1>6. cur'.read >= PrefixLen /\ cur'.read <= PktLen(sent[j].len)
  <2>1. Current.read + Left >= PrefixLen /\ Current.read \in Nat /\ Left \in Nat
    BY <1>1, FramedPacket, Parsing
  <2>2. HdrLen \in Nat /\ PktLen(sent[j].len) \in Nat /\ PktLen(sent[j].len) >= HdrLen
    BY <1>1, Parsing, SentTypes DEF IInv
  <2> QED
    BY <1>1, <1>2, <2>1, <2>2
<1> QED
  BY <1>1, <1>2, <1>3, <1>4, <1>5, <1>6, PendingInv

\* The packet whose length field the complete header holds.
LEMMA AnnouncedPacket ==
  ASSUME IInv, pc = "parse", fate = "ok",
         HeaderFramed(Current, Left, Genuine(Cursor, PrefixLen)),
         NEW j \in 1..Len(sent), sent[j].start = Current.first, sent[j].put >= HdrLen
  PROVE  /\ Current.read <= PktLen(sent[j].len)
         /\ Wedged => sent[j].len = 0
<1>0. HdrLen \in Nat /\ HdrLen > 0 /\ TypeOK /\ Layout
  BY Parsing DEF IInv
<1>1. \A i \in 1..Len(sent) : sent[i].start \in Nat /\ sent[i].put \in Nat
  BY <1>0, SentTypes
<1>2. PICK i \in 1..Len(sent) : /\ sent[i].start = Current.first /\ sent[i].put >= PrefixLen
                                /\ Current.read <= PktLen(sent[i].len)
  BY FramedPacket
<1>3. i = j
  BY <1>0, <1>1, <1>2, Unique DEF PrefixLen
<1>4. ASSUME Wedged PROVE sent[j].len = 0
  <2>1. PICK w \in 1..Len(sent) : /\ cur.read >= HdrLen /\ sent[w].start = cur.first
                                  /\ sent[w].put >= HdrLen /\ sent[w].len = 0
    BY <1>4 DEF Wedged
  <2>2. sent[w].start = Current.first
    <3>1. cur.read # 0
      BY <1>0, <2>1
    <3> QED
      BY <2>1, <3>1, Parsing
  <2> QED
    BY <1>0, <1>1, <2>1, <2>2, Unique
<1> QED
  BY <1>2, <1>3, <1>4

\* Bytes of the current packet that are in the stream up to a position.
LEMMA PutUpTo ==
  ASSUME TypeOK, Layout, NEW j \in 1..Len(sent), ~Torn(j),
         sent[j].start + PktLen(sent[j].len) <= Written
  PROVE  Whole(j)
<1>1. sent[j].put >= PktLen(sent[j].len)
  BY Filled, SentTypes
<1>2. sent[j].put <= PktLen(sent[j].len)
  BY DEF Layout
<1> QED
  BY <1>1, <1>2, SentTypes DEF Whole

\* Payload bytes keep the current packet in step with the stream, and a completed
\* one is the next that was sent.
LEMMA RebuildPayloadInv ==
  ASSUME IInv, NEW j \in 1..Len(sent), RebuildPayload(j)
  PROVE  IInv'
<1> DEFINE p == Current
           n == PacketTake(p, Left, sent[j].len)
           done == p.read + n = PktLen(sent[j].len)
           c == Len(completed)
           rec == [first |-> p.first, len |-> sent[j].len]
<1>1. /\ pc = "parse" /\ fate = "ok"
      /\ HeaderFramed(p, Left, Genuine(Cursor, PrefixLen))
      /\ sent[j].start = p.first /\ sent[j].put >= HdrLen /\ sent[j].len > 0
      /\ cur' = IF done THEN NewPacket(0) ELSE Advanced(p, n)
      /\ completed' = IF done THEN Append(completed, rec) ELSE completed
      /\ Consumed(pos + n)
      /\ UNCHANGED <<taken, len, open, fate>>
      /\ UNCHANGED senderVars /\ UNCHANGED streamVars /\ UNCHANGED appVars
  BY DEF RebuildPayload
<1>2. /\ HdrLen \in Nat /\ HdrLen > 3 /\ Left \in Nat /\ Left > 0
      /\ p \in PacketRec /\ p.read \in Nat /\ p.first \in Nat
      /\ TypeOK /\ Layout /\ c \in Nat /\ completed \in Seq(DoneRec)
      /\ sent[j].start \in Nat /\ sent[j].len \in PayloadLens /\ sent[j].put \in Nat
      /\ PktLen(sent[j].len) \in Nat /\ PktLen(sent[j].len) >= HdrLen
  <2>1. TypeOK /\ Layout
    BY DEF IInv
  <2>2. c \in Nat /\ completed \in Seq(DoneRec)
    BY <2>1 DEF TypeOK
  <2> QED
    BY <1>1, <2>1, <2>2, Parsing, SentTypes
<1>3. p.read <= PktLen(sent[j].len) /\ ~Wedged
  BY <1>1, <1>2, AnnouncedPacket
<1>4. n \in Nat /\ n <= Left /\ (~done => n = Left) /\ n = (IF done THEN PktLen(sent[j].len) - p.read ELSE Left)
  BY <1>2, <1>3 DEF PacketTake
<1>5. p.first + p.read = Cursor
  BY <1>1, <1>3, Parsing
<1>6. CASE ~done
  <2>1. cur' = Advanced(p, n) /\ completed' = completed /\ n = Left
    BY <1>1, <1>4, <1>6
  <2>2. /\ cur' \in PacketRec /\ cur'.first = p.first /\ cur'.read = p.read + n
        /\ cur'.full = HdrLen
    BY <1>2, <1>4, <2>1, AdvancedType
  <2>3. p.read + Left >= PrefixLen
    BY <1>1, FramedPacket
  <2>4. cur'.read >= PrefixLen /\ cur'.read <= PktLen(sent[j].len)
    BY <1>2, <1>3, <1>4, <2>1, <2>2, <2>3 DEF PacketTake
  <2>5. sent[j].put >= PrefixLen /\ n > 0
    BY <1>1, <1>2, <2>1 DEF PrefixLen
  <2> HIDE DEF p, n, done
  <2> QED
    BY <1>1, <1>3, <1>4, <2>1, <2>2, <2>4, <2>5, PendingInv DEF p
<1>7. CASE done
  <2>1. cur' = NewPacket(0) /\ completed' = Append(completed, rec)
    BY <1>1, <1>7
  <2>2. /\ BufferBounds' /\ Position' = Cursor + n /\ Cursor + n <= taken
        /\ pos' \in Nat /\ pc' \in {"parse", "deliver"}
    BY <1>1, <1>4, ConsumedInv
  <2>3. cur' \in PacketRec /\ cur'.read = 0 /\ cur'.full = 0
    BY <2>1 DEF NewPacket, PacketRec
  <2>4. /\ rec \in DoneRec /\ completed' \in Seq(DoneRec)
        /\ Len(completed') = c + 1 /\ completed'[c + 1] = rec
        /\ \A k \in 1..c : completed'[k] = completed[k]
    <3>1. rec \in DoneRec
      BY <1>2 DEF DoneRec
    <3> QED
      BY <1>2, <2>1, <3>1
  <2>5. TypeOK'
    BY <1>1, <2>2, <2>3, <2>4 DEF IInv, TypeOK, senderVars, streamVars, appVars
  <2>6. Layout'
    BY <1>1 DEF IInv, Layout, Whole, senderVars
  <2>7. StreamBounds'
    BY <1>1 DEF IInv, StreamBounds, Written, senderVars, streamVars
  <2>8. \A k : /\ NoTearUpTo(k)' = NoTearUpTo(k)
               /\ EndOf(k)' = EndOf(k)
               /\ Whole(k)' = Whole(k)
    BY <1>1 DEF NoTearUpTo, Torn, Whole, EndOf, senderVars
  <2>9. p.first + PktLen(sent[j].len) = Position' /\ Position' <= Written
    <3>1. taken <= Written /\ Written \in Nat /\ taken \in Nat /\ Cursor \in Nat
      BY <1>1, Parsing
    <3>2. n = PktLen(sent[j].len) - p.read
      BY <1>4, <1>7
    <3>3. Position' \in Nat /\ Position' = Cursor + n /\ Position' <= taken
      BY <1>4, <2>2, <3>1
    <3>4. PktLen(sent[j].len) \in Nat /\ p.first \in Nat /\ p.read \in Nat /\ n \in Nat
      BY <1>2, <1>4
    <3> HIDE DEF n, p, done
    <3>5. p.first + PktLen(sent[j].len) = (p.first + p.read) + n
      BY <3>2, <3>4
    <3>6. p.first + PktLen(sent[j].len) = Position'
      BY <1>5, <3>3, <3>5
    <3> QED
      BY <3>1, <3>3, <3>6
  <2>10. ASSUME NoTearUpTo(c + 1) PROVE j = c + 1 /\ Whole(j)
    <3>1. NoTearUpTo(c)
      BY <1>2, <2>10 DEF NoTearUpTo
    <3>2. p.first = EndOf(c)
      BY <1>1, <3>1, Parsing
    <3>3. j = c + 1
      BY <1>1, <1>2, <2>10, <3>2, ThisPacket
    <3>4. ~Torn(j)
      BY <1>2, <2>10, <3>3 DEF NoTearUpTo
    <3> QED
      BY <1>1, <1>2, <2>9, <3>3, <3>4, PutUpTo
  <2>11. CompletedIntact'
    <3>1. ASSUME NEW k \in 1..Len(completed'), NoTearUpTo(k)'
          PROVE  /\ k <= Len(sent) /\ Whole(k)
                 /\ completed'[k] = [first |-> sent[k].start, len |-> sent[k].len]
      <4>1. CASE k \in 1..c
        <5>1. NoTearUpTo(k)
          BY <2>8, <3>1
        <5>2. /\ k \in 1..Len(sent) /\ Whole(k)
              /\ completed[k] = [first |-> sent[k].start, len |-> sent[k].len]
          BY <4>1, <5>1, CompletedWhole
        <5> QED
          BY <1>2, <2>4, <4>1, <5>2
      <4>2. CASE k = c + 1
        <5>1. NoTearUpTo(c + 1)
          BY <2>8, <3>1, <4>2
        <5> QED
          BY <1>1, <2>4, <2>10, <4>2, <5>1
      <4> QED
        BY <1>2, <2>4, <4>1, <4>2
    <3>2. sent' = sent
      BY <1>1 DEF senderVars
    <3> QED
      BY <2>8, <3>1, <3>2 DEF CompletedIntact
  <2>12. CurrentShape'
    BY <1>2, <2>3 DEF CurrentShape, PrefixLen
  <2>13. Aligned'
    <3>1. NoTearUpTo(c + 1) => EndOf(c + 1) = Position'
      <4>1. c + 1 # 0
        BY <1>2
      <4> QED
        BY <1>1, <2>9, <2>10, <4>1 DEF EndOf
    <3> QED
      BY <2>3, <2>4, <2>8, <3>1 DEF Aligned
  <2>14. NewestDelivered' /\ BrokenOnlyBySplitOrTear'
    BY <1>1, <2>2 DEF NewestDelivered, BrokenOnlyBySplitOrTear
  <2> QED
    BY <2>2, <2>5, <2>6, <2>7, <2>11, <2>12, <2>13, <2>14 DEF IInv
<1> QED
  BY <1>6, <1>7

\* A packet with no payload leaves the receiver wedged.
LEMMA RebuildThrowsInv ==
  ASSUME IInv, NEW j \in 1..Len(sent), RebuildThrows(j)
  PROVE  IInv'
<1> DEFINE p == Current
           n == HeaderTake(p, Left)
<1>1. /\ pc = "parse" /\ fate = "ok" /\ fate' = "ok"
      /\ HeaderFramed(p, Left, Genuine(Cursor, PrefixLen))
      /\ ~(p.read + Left <= HdrLen)
      /\ sent[j].start = p.first /\ sent[j].put >= HdrLen /\ sent[j].len = 0
      /\ cur' = Advanced(p, n) /\ pos' = pos + n /\ pc' = "poll"
      /\ UNCHANGED <<taken, len, completed, open, fate>>
      /\ UNCHANGED senderVars /\ UNCHANGED streamVars /\ UNCHANGED appVars
  BY DEF RebuildThrows, HeaderPending
<1>2. /\ HdrLen \in Nat /\ HdrLen > 3 /\ Left \in Nat /\ pos \in Nat /\ len \in Nat
      /\ pos + Left = len /\ len <= BuffSize /\ BuffSize \in Nat
      /\ p \in PacketRec /\ p.read \in Nat
      /\ PktLen(sent[j].len) = HdrLen
  BY <1>1, Parsing DEF PktLen
<1>3. p.read <= HdrLen
  BY <1>1, <1>2, AnnouncedPacket
<1>4. n \in Nat /\ n < Left /\ p.read + n = HdrLen
  BY <1>1, <1>2, <1>3 DEF HeaderTake
<1>5. /\ cur' \in PacketRec /\ cur'.first = p.first /\ cur'.read = HdrLen /\ cur'.full = HdrLen
  BY <1>1, <1>2, <1>4, AdvancedType
<1> HIDE DEF p, n
<1>6. Wedged'
  BY <1>1, <1>2, <1>5 DEF Wedged, senderVars
<1>7. TypeOK'
  BY <1>1, <1>2, <1>4, <1>5 DEF IInv, TypeOK, senderVars, streamVars, appVars
<1>8. Layout' /\ CompletedIntact'
  BY <1>1, SentKept
<1>9. StreamBounds'
  BY <1>1, SentKept DEF IInv, StreamBounds, senderVars, streamVars
<1>10. BufferBounds'
  BY <1>1, <1>2, <1>4, <1>6 DEF BufferBounds
<1>11. CurrentShape'
  <2>1. sent[j].put >= PrefixLen /\ HdrLen <= PktLen(sent[j].len) /\ HdrLen >= PrefixLen
    <3>1. sent[j].put \in Nat
      BY SentTypes DEF IInv
    <3> QED
      BY <1>1, <1>2, <3>1 DEF PrefixLen
  <2>2. sent' = sent /\ HdrLen # 0
    BY <1>1, <1>2 DEF senderVars
  <2> QED
    BY <1>1, <1>5, <1>6, <2>1, <2>2 DEF CurrentShape
<1>12. Aligned'
  <2>1. NoTearUpTo(Len(completed)) => p.first = EndOf(Len(completed))
    BY <1>1, Parsing DEF p
  <2>2. NoTearUpTo(Len(completed))' = NoTearUpTo(Len(completed))
        /\ EndOf(Len(completed))' = EndOf(Len(completed))
    BY <1>1, SentKept
  <2> QED
    BY <1>1, <1>2, <1>5, <2>1, <2>2 DEF Aligned
<1>13. NewestDelivered' /\ BrokenOnlyBySplitOrTear'
  BY <1>1, <1>6 DEF NewestDelivered, BrokenOnlyBySplitOrTear
<1> QED
  BY <1>7, <1>8, <1>9, <1>10, <1>11, <1>12, <1>13 DEF IInv

\* With no packet torn and no prefix lost, the byte at hand is either inside a
\* header or payload that was framed, or the first byte of a packet, and what
\* is left of the chunk holds that packet's bytes.
LEMMA InStep ==
  ASSUME IInv, pc = "parse", fate = "ok", NoTear,
         ~(cur.full = 0 /\ cur.read \in 1..(PrefixLen - 1))
  PROVE  /\ cur.read = 0 => /\ StartsPacket(Cursor)
                            /\ Left >= PrefixLen => Genuine(Cursor, PrefixLen)
         /\ HeaderFramed(Current, Left, Genuine(Cursor, PrefixLen)) /\ ~HeaderPending(Current, Left)
              => Genuine(Current.first, HdrLen)
         /\ Current.full = 0 => cur.read = 0
<1> DEFINE c == Len(completed)
<1>1. /\ HdrLen \in Nat /\ HdrLen > 3 /\ Left \in Nat /\ Left > 0 /\ Cursor \in Nat
      /\ Cursor + Left <= Written /\ Written \in Nat
      /\ Current.read \in Nat /\ Current.read = cur.read /\ Current.full = cur.full
      /\ TypeOK
  BY Parsing DEF IInv
<1>2. NoTearUpTo(c)
  BY DEF NoTear, NoTearUpTo
<1>3. Current.full = 0 => cur.read = 0
  BY <1>1 DEF IInv, CurrentShape, PrefixLen
<1>4. ASSUME cur.read = 0
      PROVE  \E j \in 1..Len(sent) :
               /\ sent[j].start = Cursor
               /\ sent[j].put > 0
               /\ Left >= PrefixLen => sent[j].put >= PrefixLen
               /\ Left >= HdrLen => sent[j].put >= HdrLen
  <2>1. EndOf(c) = Cursor
    BY <1>2, <1>4, Parsing
  <2>2. c + 1 \in 1..Len(sent) /\ sent[c + 1].start = Cursor
    BY <1>1, <1>2, <2>1, NextPacket
  <2>3. ~Torn(c + 1) /\ PktLen(sent[c + 1].len) \in Nat /\ PktLen(sent[c + 1].len) >= HdrLen
    BY <1>1, <2>2, SentTypes DEF NoTear
  <2>4. ASSUME NEW m \in Nat, m <= Left, m <= HdrLen PROVE sent[c + 1].put >= m
    BY <1>1, <2>2, <2>3, <2>4, Filled
  <2>5. sent[c + 1].put >= 1
    BY <1>1, <2>4
  <2>6. Left >= 3 => sent[c + 1].put >= 3
    BY <1>1, <2>4
  <2>7. Left >= HdrLen => sent[c + 1].put >= HdrLen
    BY <1>1, <2>4
  <2>8. sent[c + 1].put \in Nat
    BY <1>1, <2>2, SentTypes
  <2> QED
    BY <2>2, <2>5, <2>6, <2>7, <2>8 DEF PrefixLen
<1>5. cur.read = 0 => StartsPacket(Cursor) /\ (Left >= PrefixLen => Genuine(Cursor, PrefixLen))
  BY <1>4 DEF StartsPacket, Genuine
<1>6. ASSUME HeaderFramed(Current, Left, Genuine(Cursor, PrefixLen)), ~HeaderPending(Current, Left)
      PROVE  Genuine(Current.first, HdrLen)
  <2>1. Current.read + Left > HdrLen
    BY <1>1, <1>6 DEF HeaderPending
  <2>2. CASE cur.read = 0
    <3>1. Current.first = Cursor /\ Left >= HdrLen
      BY <1>1, <2>1, <2>2, Parsing
    <3> QED
      BY <1>4, <2>2, <3>1 DEF Genuine
  <2>3. CASE cur.read # 0 /\ Wedged
    <3>1. Current = cur
      BY <2>3, Parsing
    <3> QED
      BY <2>3, <3>1 DEF Wedged, Genuine
  <2>4. CASE cur.read # 0 /\ ~Wedged
    <3>1. Current.first + Current.read = Cursor /\ Current.first \in Nat
      BY <2>4, Parsing
    <3>2. PICK j \in 1..Len(sent) : sent[j].start = Current.first
      BY <1>6, FramedPacket
    <3>3. ~Torn(j) /\ PktLen(sent[j].len) >= HdrLen
      BY <1>1, SentTypes DEF NoTear
    <3>4. sent[j].start + HdrLen <= Written
      BY <1>1, <2>1, <3>1, <3>2
    <3>5. sent[j].put >= HdrLen
      BY <1>1, <3>3, <3>4, Filled
    <3> QED
      BY <3>2, <3>5 DEF Genuine
  <2> QED
    BY <2>2, <2>3, <2>4
<1> QED
  BY <1>3, <1>5, <1>6

\* Losing the framing or the process changes nothing else.
LEMMA FateInv ==
  ASSUME IInv, fate = "ok", pc = "parse", fate' \in {"garbled", "crash"},
         UNCHANGED <<taken, pos, len, cur, completed, pc, open>>,
         UNCHANGED senderVars, UNCHANGED streamVars, UNCHANGED appVars,
         (cur.full = 0 /\ cur.read \in 1..(PrefixLen - 1)) \/ ~NoTear
  PROVE  IInv'
<1>1. TypeOK'
  BY DEF IInv, TypeOK, senderVars, streamVars, appVars
<1>2. Layout' /\ CompletedIntact'
  BY SentKept
<1>3. StreamBounds'
  BY SentKept DEF IInv, StreamBounds, senderVars, streamVars
<1>4. BufferBounds'
  BY DEF IInv, BufferBounds, Left
<1>5. CurrentShape'
  BY ShapeKept
<1>6. Aligned' /\ NewestDelivered'
  BY DEF Aligned, NewestDelivered
<1>7. BrokenOnlyBySplitOrTear'
  BY DEF BrokenOnlyBySplitOrTear, NoTear, Torn, Whole, senderVars
<1> QED
  BY <1>1, <1>2, <1>3, <1>4, <1>5, <1>6, <1>7 DEF IInv

\* Garbling presupposes a lost prefix or a torn packet.
LEMMA RebuildGarblesInv ==
  ASSUME IInv, RebuildGarbles
  PROVE  IInv'
<1>1. (cur.full = 0 /\ cur.read \in 1..(PrefixLen - 1)) \/ ~NoTear
  <2>1. SUFFICES ASSUME NoTear, ~(cur.full = 0 /\ cur.read \in 1..(PrefixLen - 1))
                 PROVE  FALSE
    OBVIOUS
  <2>2. pc = "parse" /\ fate = "ok"
    BY DEF RebuildGarbles
  <2>3. ASSUME NEW starts, MisreadsPrefix(Current, Left, len, starts, Genuine(Cursor, PrefixLen))
        PROVE  FALSE
    <3>1. cur.read = 0 /\ Current.read = 0
      BY <2>1, <2>2, <2>3, InStep, Parsing DEF MisreadsPrefix
    <3>2. Left >= PrefixLen /\ ~Genuine(Cursor, PrefixLen)
      BY <2>2, <2>3, <3>1, Parsing DEF MisreadsPrefix
    <3> QED
      BY <2>1, <2>2, <3>1, <3>2, InStep
  <2> QED
    BY <2>1, <2>2, <2>3, InStep DEF RebuildGarbles
<1> QED
  BY <1>1, FateInv DEF RebuildGarbles

\* A null header presupposes a lost prefix or a torn packet.
LEMMA RebuildCrashesInv ==
  ASSUME IInv, RebuildCrashes
  PROVE  IInv'
<1>1. (cur.full = 0 /\ cur.read \in 1..(PrefixLen - 1)) \/ ~NoTear
  <2>1. SUFFICES ASSUME NoTear, ~(cur.full = 0 /\ cur.read \in 1..(PrefixLen - 1))
                 PROVE  FALSE
    OBVIOUS
  <2>2. pc = "parse" /\ fate = "ok"
    BY DEF RebuildCrashes
  <2>3. PICK starts \in MayStart(Cursor) : Current.full = 0 /\ ~TriesHeader(Current, len, starts)
    BY DEF RebuildCrashes, DereferencesNull
  <2>4. StartsPacket(Cursor)
    BY <2>1, <2>2, <2>3, InStep
  <2>5. starts = TRUE
    BY <2>3, <2>4 DEF MayStart
  <2> QED
    BY <2>3, <2>5 DEF TriesHeader
<1> QED
  BY <1>1, FateInv DEF RebuildCrashes

\* The receiver preserves the invariant.
LEMMA ReceiverInv ==
  ASSUME IInv, Receiver
  PROVE  IInv'
<1>1. ASSUME NEW n \in 1..BuffSize, Receive(n) PROVE IInv'
  BY <1>1, ReceiveInv
<1>2. ASSUME NEW j \in 1..Len(sent), RebuildPayload(j) \/ RebuildThrows(j) PROVE IInv'
  BY <1>2, RebuildPayloadInv, RebuildThrowsInv
<1> QED
  BY <1>1, <1>2, ReceiveErrorInv, ReceiveEofInv, RebuildShortPrefixInv, RebuildHeaderInv,
     RebuildGarblesInv, RebuildCrashesInv, DeliverInv DEF Receiver
-----------------------------------------------------------------------------
(* What is left of the stream when it ends *)

\* A packet with a payload does not stay current once it is complete.
Unfinished ==
  cur.full = HdrLen =>
    \E j \in 1..Len(sent) :
      /\ sent[j].start = cur.first /\ sent[j].put >= PrefixLen
      /\ sent[j].len = 0 \/ cur.read < PktLen(sent[j].len)

\* A close loses nothing of the stream, and the receiver closes its socket when
\* it has read and parsed all that arrived.
Drained ==
  /\ link = "fin" => avail = Written
  /\ ~open => link \in {"fin", "rstseen"} /\ taken = avail /\ pc # "parse"

EofInv == Unfinished /\ Drained

\* Nothing is sent, received or left over at first.
LEMMA EofInit == Init => EofInv
<1> SUFFICES ASSUME Init PROVE EofInv
  OBVIOUS
<1>1. cur.full = 0 /\ HdrLen # 0
  BY HdrLenAssumption DEF Init, NewPacket, PrefixLen
<1> QED
  BY <1>1 DEF Init, EofInv, Unfinished, Drained

\* A packet that grows or is followed by another is as unfinished as it was.
LEMMA UnfinishedSender ==
  ASSUME IInv, Unfinished, Sender \/ Network
  PROVE  Unfinished'
<1>1. /\ HdrLen \in Nat /\ HdrLen > 3 /\ Len(sent) \in Nat /\ sent \in Seq(SentRec) /\ TypeOK
  BY HdrLenAssumption DEF IInv, TypeOK, PrefixLen
<1>2. cur' = cur
  BY DEF Sender, Network, SendPkt, SendSome, SendFails, PeerCloses, PeerResets, recvVars
<1>3. /\ \A j \in 1..Len(sent) : /\ j \in 1..Len(sent')
                                 /\ sent'[j].start = sent[j].start /\ sent'[j].len = sent[j].len
                                 /\ sent[j].put >= PrefixLen => sent'[j].put >= PrefixLen
  <2>1. ASSUME NEW l \in PayloadLens, SendPkt(l)
        PROVE  \A j \in 1..Len(sent) : j \in 1..Len(sent') /\ sent'[j] = sent[j]
    <3>1. sent' = Append(sent, [start |-> Written, len |-> l, put |-> 0])
      BY <2>1 DEF SendPkt
    <3> QED
      BY <1>1, <3>1
  <2>2. ASSUME NEW n \in 1..SockCap, SendSome(n), NEW j \in 1..Len(sent)
        PROVE  /\ j \in 1..Len(sent')
               /\ sent'[j].start = sent[j].start /\ sent'[j].len = sent[j].len
               /\ sent[j].put >= PrefixLen => sent'[j].put >= PrefixLen
    <3> DEFINE L == Len(sent)
               new == [sent[L] EXCEPT !.put = sent[L].put + n]
    <3>1. sent' = [sent EXCEPT ![L] = new] /\ n \in Nat /\ n > 0 /\ L \in 1..L
      BY <1>1, <2>2, LinkAssumption DEF SendSome
    <3>2. sent[L] \in SentRec /\ sent[L].put \in Nat
      BY <1>1, <3>1, SentTypes
    <3>3. /\ new.start = sent[L].start /\ new.len = sent[L].len /\ new.put = sent[L].put + n
          /\ new \in SentRec
      BY <3>1, <3>2 DEF SentRec
    <3>4. new.put >= sent[L].put
      BY <3>1, <3>2, <3>3
    <3> HIDE DEF new
    <3>5. Len(sent') = L /\ (j # L => sent'[j] = sent[j]) /\ (j = L => sent'[j] = new)
      BY <1>1, <3>1, <3>3
    <3>6. sent[L].put >= PrefixLen => new.put >= PrefixLen
      BY <3>1, <3>2, <3>3 DEF PrefixLen
    <3>7. CASE j = L
      BY <3>3, <3>5, <3>6, <3>7
    <3>8. CASE j # L
      BY <3>5, <3>8
    <3> QED
      BY <3>7, <3>8
  <2>3. CASE SendFails \/ Network
    BY <2>3 DEF SendFails, Network, PeerCloses, PeerResets
  <2> QED
    BY <2>1, <2>2, <2>3 DEF Sender
<1>4. SUFFICES ASSUME cur.full = HdrLen
               PROVE  \E j \in 1..Len(sent') :
                        /\ sent'[j].start = cur.first /\ sent'[j].put >= PrefixLen
                        /\ sent'[j].len = 0 \/ cur.read < PktLen(sent'[j].len)
  BY <1>2 DEF Unfinished
<1>5. PICK j \in 1..Len(sent) : /\ sent[j].start = cur.first /\ sent[j].put >= PrefixLen
                                /\ sent[j].len = 0 \/ cur.read < PktLen(sent[j].len)
  BY <1>4 DEF Unfinished
<1> QED
  BY <1>3, <1>5

\* rebuild stops inside a packet, behind an empty one, or makes room for the next.
LEMMA UnfinishedReceiver ==
  ASSUME IInv, Unfinished, Receiver
  PROVE  Unfinished'
<1>1. sent' = sent /\ HdrLen # 0 /\ HdrLen \in Nat
  <2>1. HdrLen # 0 /\ HdrLen \in Nat
    BY HdrLenAssumption DEF PrefixLen
  <2>2. ASSUME NEW n \in 1..BuffSize, Receive(n) PROVE sent' = sent
    BY <2>2 DEF Receive, senderVars
  <2>3. ASSUME NEW j \in 1..Len(sent), RebuildPayload(j) \/ RebuildThrows(j) PROVE sent' = sent
    BY <2>3 DEF RebuildPayload, RebuildThrows, senderVars
  <2>4. CASE ReceiveError \/ ReceiveEof \/ Deliver
    BY <2>1, <2>4 DEF ReceiveError, ReceiveEof, Deliver, senderVars
  <2>5. CASE RebuildShortPrefix
    BY <2>1, <2>5 DEF RebuildShortPrefix, senderVars
  <2>6. CASE RebuildHeader
    BY <2>1, <2>6 DEF RebuildHeader, senderVars
  <2>7. CASE RebuildGarbles
    BY <2>1, <2>7 DEF RebuildGarbles, senderVars
  <2>8. CASE RebuildCrashes
    BY <2>1, <2>8 DEF RebuildCrashes, senderVars
  <2> QED
    BY <2>1, <2>2, <2>3, <2>4, <2>5, <2>6, <2>7, <2>8 DEF Receiver
<1>2. CASE cur' = cur
  BY <1>1, <1>2 DEF Unfinished
<1>3. CASE cur'.full = 0
  BY <1>1, <1>3 DEF Unfinished
<1>4. SUFFICES ASSUME NEW j \in 1..Len(sent), pc = "parse", fate = "ok",
                      \/ RebuildHeader
                      \/ RebuildPayload(j) /\ cur' # NewPacket(0)
                      \/ RebuildThrows(j)
               PROVE  \E i \in 1..Len(sent) :
                        /\ sent[i].start = cur'.first /\ sent[i].put >= PrefixLen
                        /\ sent[i].len = 0 \/ cur'.read < PktLen(sent[i].len)
  <2>1. CASE RebuildShortPrefix
    <3>1. /\ pc = "parse" /\ fate = "ok" /\ Current.full = 0
          /\ cur' = [Current EXCEPT !.read = Current.read + Left]
      BY <2>1 DEF RebuildShortPrefix, LosesPrefix
    <3>2. cur'.full = 0
      BY <3>1, Parsing DEF PacketRec
    <3> QED
      BY <1>3, <3>2
  <2>2. CASE RebuildHeader
    <3>1. pc = "parse" /\ fate = "ok" /\ HeaderFramed(Current, Left, Genuine(Cursor, PrefixLen))
      BY <2>2 DEF RebuildHeader
    <3>2. \E j \in 1..Len(sent) : TRUE
      BY <3>1, FramedPacket
    <3> QED
      BY <1>1, <1>4, <2>2, <3>1, <3>2 DEF Unfinished
  <2>3. ASSUME NEW j \in 1..Len(sent), RebuildPayload(j) \/ RebuildThrows(j) PROVE Unfinished'
    <3>1. pc = "parse" /\ fate = "ok"
      BY <2>3 DEF RebuildPayload, RebuildThrows
    <3>2. CASE cur' = NewPacket(0)
      BY <1>3, <3>2 DEF NewPacket
    <3>3. CASE cur' # NewPacket(0)
      BY <1>1, <1>4, <2>3, <3>1, <3>3 DEF Unfinished
    <3> QED
      BY <3>2, <3>3
  <2>4. CASE \/ \E n \in 1..BuffSize : Receive(n)
             \/ ReceiveError \/ ReceiveEof \/ RebuildGarbles \/ RebuildCrashes \/ Deliver
    BY <1>2, <2>4 DEF Receive, ReceiveError, ReceiveEof, RebuildGarbles, RebuildCrashes, Deliver,
       recvVars
  <2> QED
    BY <2>1, <2>2, <2>3, <2>4 DEF Receiver
<1>5. CASE RebuildHeader
  <2>1. /\ HeaderFramed(Current, Left, Genuine(Cursor, PrefixLen))
        /\ Current.read + Left <= HdrLen
        /\ cur' = Advanced(Current, Left)
    BY <1>5 DEF RebuildHeader, HeaderPending
  <2>2. cur'.first = Current.first /\ cur'.read = Current.read + Left
    BY <1>4, <2>1, Parsing, AdvancedType
  <2>3. PICK i \in 1..Len(sent) : sent[i].start = Current.first /\ sent[i].put >= PrefixLen
    BY <1>4, <2>1, FramedPacket
  <2>4. sent[i].len \in Nat /\ PktLen(sent[i].len) = HdrLen + sent[i].len
    BY SentTypes DEF IInv, PktLen
  <2>5. Current.read \in Nat /\ Left \in Nat
    BY <1>4, Parsing
  <2>6. sent[i].len = 0 \/ cur'.read < PktLen(sent[i].len)
    BY <1>1, <2>1, <2>2, <2>4, <2>5
  <2> QED
    BY <2>2, <2>3, <2>6
<1>6. CASE RebuildPayload(j) /\ cur' # NewPacket(0)
  <2> DEFINE n == PacketTake(Current, Left, sent[j].len)
  <2>1. /\ HeaderFramed(Current, Left, Genuine(Cursor, PrefixLen))
        /\ sent[j].start = Current.first /\ sent[j].put >= HdrLen
        /\ Current.read + n # PktLen(sent[j].len)
        /\ cur' = Advanced(Current, n)
    BY <1>6 DEF RebuildPayload
  <2>2. Current.read \in Nat /\ Left \in Nat /\ HdrLen > 3 /\ Current \in PacketRec
    BY <1>4, Parsing
  <2>3. Current.read <= PktLen(sent[j].len)
    BY <1>4, <2>1, AnnouncedPacket
  <2>4. PktLen(sent[j].len) \in Nat /\ sent[j].put \in Nat
    BY SentTypes DEF IInv
  <2>5. n \in Nat /\ Current.read + n < PktLen(sent[j].len)
    BY <2>1, <2>2, <2>3, <2>4 DEF PacketTake
  <2> HIDE DEF n
  <2>6. cur'.first = Current.first /\ cur'.read = Current.read + n
    BY <2>1, <2>2, <2>5, AdvancedType
  <2>7. sent[j].put >= PrefixLen
    BY <1>1, <2>1, <2>2, <2>4 DEF PrefixLen
  <2> QED
    BY <2>1, <2>5, <2>6, <2>7
<1>7. CASE RebuildThrows(j)
  <2>1. /\ sent[j].start = Current.first /\ sent[j].put >= HdrLen /\ sent[j].len = 0
        /\ cur' = Advanced(Current, HeaderTake(Current, Left))
    BY <1>7 DEF RebuildThrows
  <2>2. sent[j].put \in Nat /\ HdrLen > 3
    BY <1>4, Parsing, SentTypes DEF IInv
  <2>3. sent[j].put >= PrefixLen
    BY <1>1, <2>1, <2>2 DEF PrefixLen
  <2> QED
    BY <2>1, <2>3 DEF Advanced
<1> QED
  BY <1>4, <1>5, <1>6, <1>7

\* After the end of the stream nothing is sent, received or parsed any more.
LEMMA DrainedStep ==
  ASSUME IInv, Drained, Next
  PROVE  Drained'
<1>1. link = "up" => avail = Written /\ open
  BY DEF IInv, StreamBounds, Drained
<1>2. sent' = sent => Written' = Written
  BY DEF Written
<1>3. ASSUME NEW l \in PayloadLens, SendPkt(l) PROVE Drained'
  BY <1>1, <1>3 DEF SendPkt, Drained, streamVars, recvVars
<1>4. ASSUME NEW n \in 1..SockCap, SendSome(n) PROVE Drained'
  BY <1>1, <1>4 DEF SendSome, Drained, recvVars
<1>5. CASE SendFails \/ Network
  BY <1>1, <1>2, <1>5 DEF SendFails, Network, PeerCloses, PeerResets, Drained, streamVars, recvVars
<1>6. ASSUME NEW n \in 1..BuffSize, Receive(n) PROVE Drained'
  BY <1>2, <1>6 DEF Receive, Polled, Drained, senderVars, streamVars
<1>7. CASE ReceiveError
  BY <1>2, <1>7 DEF ReceiveError, Polled, Drained, senderVars, recvVars
<1>8. CASE ReceiveEof
  <2>1. avail - taken = 0 /\ avail \in Nat /\ taken \in Nat
    BY <1>8 DEF ReceiveEof, EofSeen, InFlight, IInv, TypeOK
  <2>2. taken = avail
    BY <2>1
  <2> QED
    BY <1>2, <1>8, <2>2 DEF ReceiveEof, EofSeen, Drained, senderVars, streamVars
<1>9. ASSUME pc = "parse", open, UNCHANGED <<sent, link, avail, open>> PROVE Drained'
  BY <1>2, <1>9 DEF Drained
<1>10. pc = "parse" => open
  BY DEF Drained
<1>11. CASE RebuildShortPrefix \/ RebuildHeader \/ RebuildGarbles \/ RebuildCrashes
  BY <1>9, <1>10, <1>11 DEF RebuildShortPrefix, RebuildHeader, RebuildGarbles, RebuildCrashes,
     senderVars, streamVars
<1>12. ASSUME NEW j \in 1..Len(sent), RebuildPayload(j) \/ RebuildThrows(j) PROVE Drained'
  BY <1>9, <1>10, <1>12 DEF RebuildPayload, RebuildThrows, senderVars, streamVars
<1>13. CASE Deliver
  BY <1>2, <1>13 DEF Deliver, Drained, senderVars, streamVars
<1> QED
  BY <1>3, <1>4, <1>5, <1>6, <1>7, <1>8, <1>11, <1>12, <1>13 DEF Next, Sender, Receiver

\* Every step of the sender, the network and recv_pkt keeps it.
LEMMA EofNext == IInv /\ EofInv /\ [Next]_vars => EofInv'
<1> SUFFICES ASSUME IInv, EofInv, [Next]_vars PROVE EofInv'
  OBVIOUS
<1>1. CASE Next
  BY <1>1, UnfinishedSender, UnfinishedReceiver, DrainedStep DEF EofInv, Next
<1>2. CASE UNCHANGED vars
  BY <1>2 DEF vars, senderVars, streamVars, recvVars, EofInv, Unfinished, Drained, Written
<1> QED
  BY <1>1, <1>2

\* If every packet was sent whole and has a payload, none can be missing: the one
\* behind the last completed would have all its bytes in the stream, and the
\* receiver, which has parsed every byte, would be inside it.
LEMMA NothingMissing ==
  ASSUME IInv, EofInv, ~open, fate = "ok", link = "fin", NoTear, NoEmpty
  PROVE  Len(completed) = Len(sent)
<1> DEFINE c == Len(completed)
<1>1. /\ c \in Nat /\ Len(sent) \in Nat /\ TypeOK /\ Layout /\ HdrLen \in Nat /\ HdrLen > 3
      /\ Written \in Nat /\ cur.read \in Nat /\ cur.first \in Nat /\ cur.full \in {0, HdrLen}
  BY HdrLenAssumption, WrittenType DEF IInv, TypeOK, PacketRec, PrefixLen
<1>2. Position = Written /\ NoTearUpTo(c)
  BY DEF EofInv, Drained, Position, NoTear, NoTearUpTo
<1>3. ~Wedged
  BY SentTypes, <1>1 DEF Wedged, NoEmpty
<1>4. c <= Len(sent)
  <2>1. CASE c = 0
    BY <1>1, <2>1
  <2>2. CASE c # 0
    <3>1. c \in 1..c
      BY <1>1, <2>2
    <3>2. c \in 1..Len(sent)
      BY <1>2, <3>1, CompletedWhole
    <3> QED
      BY <1>1, <3>2
  <2> QED
    BY <2>1, <2>2
<1>5. SUFFICES ASSUME c < Len(sent) PROVE FALSE
  BY <1>1, <1>4
<1> DEFINE k == c + 1
<1>6. /\ k \in 1..Len(sent) /\ sent[k].start \in Nat /\ sent[k].put \in Nat
      /\ PktLen(sent[k].len) \in Nat /\ PktLen(sent[k].len) >= HdrLen
  BY <1>1, <1>5, SentTypes
<1>7. Whole(k)
  BY <1>6 DEF NoTear, Torn, IInv, StreamBounds
<1>8. sent[k].start + sent[k].put <= Written
  <2>1. Len(sent) \in 1..Len(sent) /\ Written = sent[Len(sent)].start + sent[Len(sent)].put
    BY <1>1, <1>6, WrittenType
  <2>2. sent[Len(sent)].start \in Nat /\ sent[Len(sent)].put \in Nat
    BY <1>1, <2>1, SentTypes
  <2>3. k = Len(sent) \/ sent[k].start + sent[k].put <= sent[Len(sent)].start
    BY <1>1, <1>6, <2>1 DEF Layout
  <2> QED
    BY <1>6, <2>1, <2>2, <2>3
<1>8a. \A j \in 1..Len(sent) : sent[j].start = IF j = 1 THEN 0 ELSE sent[j-1].start + sent[j-1].put
  BY <1>1 DEF Layout
<1>9. sent[k].start = EndOf(c)
  <2>1. CASE c = 0
    <3>1. k = 1
      BY <2>1
    <3> HIDE DEF k
    <3> QED
      BY <1>6, <1>8a, <2>1, <3>1 DEF EndOf
  <2>2. CASE c # 0
    <3>1. c \in 1..c /\ k # 1 /\ k - 1 = c
      BY <1>1, <2>2
    <3>2. c \in 1..Len(sent) /\ Whole(c)
      BY <1>1, <1>2, <3>1, CompletedWhole
    <3>3. sent[k].start = sent[k - 1].start + sent[k - 1].put
      <4> HIDE DEF k
      <4> QED
        BY <1>6, <1>8a, <3>1
    <3> QED
      BY <2>2, <3>1, <3>2, <3>3 DEF EndOf, Whole
  <2> QED
    BY <2>1, <2>2
<1>10. EndOf(c) = IF cur.read = 0 THEN Written ELSE cur.first
  BY <1>2 DEF IInv, Aligned
<1> HIDE DEF c, k
<1>11. sent[k].start + PktLen(sent[k].len) <= Written
  BY <1>7, <1>8 DEF Whole
<1>12. CASE cur.read = 0
  BY <1>1, <1>6, <1>9, <1>10, <1>11, <1>12
<1>13. CASE cur.read # 0
  <2>1. cur.first = sent[k].start /\ cur.first + cur.read = Written
    BY <1>1, <1>2, <1>3, <1>9, <1>10, <1>13 DEF IInv, CurrentShape
  <2>2. cur.read >= PktLen(sent[k].len)
    BY <1>1, <1>6, <1>11, <2>1
  <2>3. cur.full = HdrLen
    BY <1>1, <1>6, <2>2 DEF IInv, CurrentShape, PrefixLen
  <2>4. PICK j \in 1..Len(sent) : /\ sent[j].start = cur.first /\ sent[j].put >= PrefixLen
                                  /\ sent[j].len = 0 \/ cur.read < PktLen(sent[j].len)
    BY <2>3 DEF EofInv, Unfinished
  <2>5. sent[j].put > 0 /\ sent[k].put > 0
    <3>1. sent[j].put \in Nat
      BY <1>1, SentTypes
    <3> QED
      BY <1>1, <1>6, <1>7, <2>4, <3>1 DEF PrefixLen, Whole
  <2>6. j = k
    BY <1>1, <1>6, <2>1, <2>4, <2>5, Unique
  <2>7. sent[k].len \in Nat /\ sent[k].len # 0
    BY <1>1, <1>6, SentTypes DEF NoEmpty
  <2> QED
    BY <1>1, <1>6, <2>2, <2>4, <2>6, <2>7
<1> QED
  BY <1>12, <1>13
-----------------------------------------------------------------------------
(* The theorems *)

\* The invariant holds initially.
LEMMA InitInv == Init => IInv
<1> SUFFICES ASSUME Init PROVE IInv
  OBVIOUS
<1>1. /\ HdrLen \in Nat /\ HdrLen > 3 /\ BuffSize \in Nat /\ BuffSize > 0
  BY HdrLenAssumption, LinkAssumption DEF PrefixLen
<1>2. /\ sent = <<>> /\ Len(sent) = 0 /\ completed = <<>> /\ Len(completed) = 0
      /\ sent \in Seq(SentRec) /\ completed \in Seq(DoneRec)
  BY DEF Init
<1>3. cur = [first |-> 0, read |-> 0, full |-> 0] /\ cur \in PacketRec
  BY DEF Init, NewPacket, PacketRec
<1>4. TypeOK
  <2>1. 0 \in 0..BuffSize /\ 0 \in Nat
    BY <1>1
  <2> QED
    BY <1>2, <1>3, <2>1 DEF Init, TypeOK
<1>5. Layout /\ CompletedIntact
  BY <1>2 DEF Init, Layout, CompletedIntact
<1>6. StreamBounds
  BY <1>2 DEF Init, StreamBounds, Written
<1>7. BufferBounds
  BY <1>1 DEF Init, BufferBounds
<1>8. CurrentShape
  BY <1>1, <1>3 DEF Init, CurrentShape, PrefixLen
<1>9. Aligned
  BY <1>2, <1>3 DEF Init, Aligned, EndOf, Position
<1>10. NewestDelivered /\ BrokenOnlyBySplitOrTear
  BY DEF Init, NewestDelivered, BrokenOnlyBySplitOrTear
<1> QED
  BY <1>4, <1>5, <1>6, <1>7, <1>8, <1>9, <1>10 DEF IInv

\* Every step preserves the invariant.
LEMMA NextInv == IInv /\ [Next]_vars => IInv'
<1> SUFFICES ASSUME IInv, [Next]_vars PROVE IInv'
  OBVIOUS
<1>1. CASE UNCHANGED vars
  <2>1. /\ UNCHANGED <<sent, sending, link, avail, taken, pos, len, cur, completed, pc, open,
                       fate, delivered, again>>
    BY <1>1 DEF vars, senderVars, streamVars, recvVars, appVars
  <2>2. TypeOK' /\ Layout' /\ StreamBounds' /\ BufferBounds' /\ CurrentShape'
    BY <2>1 DEF IInv, TypeOK, Layout, Whole, StreamBounds, Written, BufferBounds, Left,
                CurrentShape, Wedged, Position, Cursor
  <2>3. CompletedIntact' /\ Aligned' /\ NewestDelivered' /\ BrokenOnlyBySplitOrTear'
    BY <2>1 DEF IInv, CompletedIntact, Aligned, NewestDelivered, BrokenOnlyBySplitOrTear,
                NoTearUpTo, NoTear, Torn, Whole, EndOf, Position, Cursor, Left, Wedged
  <2> QED
    BY <2>2, <2>3 DEF IInv
<1> QED
  BY <1>1, SenderNetworkInv, ReceiverInv DEF Next

\* No step undoes an empty packet whose header is complete, or completes another.
LEMMA WedgedStep == IInv /\ [Next]_vars => (Wedged => Wedged' /\ completed' = completed)
<1> SUFFICES ASSUME IInv, [Next]_vars, Wedged PROVE Wedged' /\ completed' = completed
  OBVIOUS
<1>1. PICK w \in 1..Len(sent) : /\ cur.read >= HdrLen /\ sent[w].start = cur.first
                                /\ sent[w].put >= HdrLen /\ sent[w].len = 0
  BY DEF Wedged
<1>2. /\ HdrLen \in Nat /\ HdrLen > 3 /\ TypeOK /\ cur.read \in Nat /\ Len(sent) \in Nat
      /\ sent \in Seq(SentRec)
  BY HdrLenAssumption DEF IInv, TypeOK, PacketRec, PrefixLen
<1>3. ASSUME UNCHANGED sent, UNCHANGED cur, UNCHANGED completed
      PROVE  Wedged' /\ completed' = completed
  BY <1>3 DEF Wedged
<1>4. CASE UNCHANGED vars
  BY <1>3, <1>4 DEF vars, senderVars, recvVars
<1>5. ASSUME NEW l \in PayloadLens, SendPkt(l) PROVE Wedged' /\ completed' = completed
  <2>1. sent' = Append(sent, [start |-> Written, len |-> l, put |-> 0])
    BY <1>5 DEF SendPkt
  <2>2. Len(sent') = Len(sent) + 1 /\ sent'[w] = sent[w]
    BY <1>2, <2>1
  <2> QED
    BY <1>1, <1>2, <1>5, <2>2 DEF Wedged, SendPkt, recvVars
<1>6. ASSUME NEW n \in 1..SockCap, SendSome(n) PROVE Wedged' /\ completed' = completed
  <2> DEFINE L == Len(sent)
             new == [sent[L] EXCEPT !.put = @ + n]
  <2>1. sent' = [sent EXCEPT ![L] = new] /\ n \in Nat /\ L \in 1..L
    BY <1>2, <1>6, LinkAssumption DEF SendSome
  <2>2. sent[L] \in SentRec /\ sent[w].put \in Nat
    BY <1>2, <2>1, SentTypes
  <2>3. new.start = sent[L].start /\ new.len = sent[L].len /\ new.put = sent[L].put + n
        /\ new \in SentRec
    BY <2>1, <2>2 DEF SentRec
  <2> HIDE DEF new
  <2>4. Len(sent') = L /\ (w # L => sent'[w] = sent[w]) /\ (w = L => sent'[w] = new)
    BY <1>2, <2>1, <2>3
  <2>5. /\ sent'[w].start = sent[w].start /\ sent'[w].len = sent[w].len
        /\ sent'[w].put >= HdrLen
    <3>1. CASE w = L
      <4>1. sent'[w] = new /\ sent[L] = sent[w]
        BY <2>4, <3>1
      <4>2. new.start = sent[w].start /\ new.len = sent[w].len /\ new.put = sent[w].put + n
        BY <2>3, <4>1
      <4> QED
        BY <1>1, <1>2, <2>1, <2>2, <4>1, <4>2
    <3>2. CASE w # L
      BY <1>1, <2>4, <3>2
    <3> QED
      BY <3>1, <3>2
  <2> QED
    BY <1>1, <1>6, <2>4, <2>5 DEF Wedged, SendSome, recvVars
<1>7. CASE SendFails \/ Network
  BY <1>3, <1>7 DEF SendFails, Network, PeerCloses, PeerResets, recvVars
<1>8. ASSUME NEW n \in 1..BuffSize, Receive(n) PROVE Wedged' /\ completed' = completed
  BY <1>3, <1>8 DEF Receive, senderVars
<1>9. CASE ReceiveError \/ ReceiveEof \/ RebuildGarbles \/ RebuildCrashes \/ Deliver
  BY <1>3, <1>9 DEF ReceiveError, ReceiveEof, RebuildGarbles, RebuildCrashes, Deliver,
                    senderVars, recvVars
<1>10. CASE RebuildShortPrefix
  BY <1>1, <1>2, <1>10, Parsing DEF RebuildShortPrefix, LosesPrefix, PrefixLen
<1>11. CASE RebuildHeader
  BY <1>1, <1>2, <1>11, Parsing DEF RebuildHeader, HeaderPending
<1>12. ASSUME NEW j \in 1..Len(sent), RebuildPayload(j) PROVE FALSE
  BY <1>12, AnnouncedPacket, SentTypes DEF RebuildPayload, IInv
<1>13. ASSUME NEW j \in 1..Len(sent), RebuildThrows(j) PROVE Wedged' /\ completed' = completed
  <2>1. /\ pc = "parse" /\ fate = "ok" /\ sent' = sent /\ completed' = completed
        /\ cur' = Advanced(Current, HeaderTake(Current, Left))
    BY <1>13 DEF RebuildThrows, senderVars
  <2>2. Current = cur /\ Current \in PacketRec /\ Left \in Nat
    BY <1>1, <1>2, <2>1, Parsing
  <2>3. HeaderTake(Current, Left) = 0
    BY <1>1, <1>2, <2>2 DEF HeaderTake
  <2>4. cur'.first = cur.first /\ cur'.read = cur.read
    <3>1. cur' = Advanced(cur, 0) /\ cur \in PacketRec
      BY <2>1, <2>2, <2>3
    <3>2. Advanced(cur, 0).first = cur.first /\ Advanced(cur, 0).read = cur.read + 0
      BY <3>1, AdvancedType
    <3> QED
      BY <1>2, <3>1, <3>2
  <2> QED
    BY <1>1, <2>1, <2>4 DEF Wedged
<1> QED
  BY <1>4, <1>5, <1>6, <1>7, <1>8, <1>9, <1>10, <1>11, <1>12, <1>13
     DEF Next, Sender, Receiver

\* IInv is an inductive invariant of the connection.
THEOREM Inductive == Spec => []IInv
BY InitInv, NextInv, PTL DEF Spec

\* Every variable of the connection keeps its type.
THEOREM TypeCorrect == Spec => []TypeOK
<1>1. IInv => TypeOK
  BY DEF IInv
<1> QED
  BY <1>1, Inductive, PTL

\* The k-th packet rebuilt is the k-th packet sent as long as none up to it was
\* torn, for every cutting of the stream into chunks.
THEOREM FramingCorrect == Spec => []CompletedIntact
<1>1. IInv => CompletedIntact
  BY DEF IInv
<1> QED
  BY <1>1, Inductive, PTL

\* Between calls of recv_pkt the receive buffer is empty, or an empty packet
\* holds it; there is always room for another recv.
THEOREM BufferAlwaysReady == Spec => []BufferReady
<1>1. IInv => BufferReady
  BY DEF IInv, BufferReady, BufferBounds
<1> QED
  BY <1>1, Inductive, PTL

\* recv_pkt does not return without handing over what it completed last.
THEOREM DeliveryCorrect == Spec => []NewestDelivered
<1>1. IInv => NewestDelivered
  BY DEF IInv
<1> QED
  BY <1>1, Inductive, PTL

\* The receiver can lose its framing, or crash, only behind a prefix that a
\* chunk boundary split or a packet that was torn.
THEOREM BrokenOnlyThen == Spec => []BrokenOnlyBySplitOrTear
<1>1. IInv => BrokenOnlyBySplitOrTear
  BY DEF IInv
<1> QED
  BY <1>1, Inductive, PTL

\* recv_pkt closes its socket only behind the last packet: a peer that closed after
\* sending only whole packets with a payload has had every one of them rebuilt.
THEOREM NothingLostAtEof == Spec => []AllRebuiltAtEof
<1>1. IInv /\ EofInv => AllRebuiltAtEof
  BY NothingMissing DEF AllRebuiltAtEof
<1>2. Init => EofInv
  BY EofInit
<1>3. IInv /\ EofInv /\ [Next]_vars => EofInv'
  BY EofNext
<1>4. Spec => []EofInv
  BY <1>2, <1>3, Inductive, PTL DEF Spec
<1> QED
  BY <1>1, <1>4, Inductive, PTL

\* A packet with no payload ends reception on the connection for good.
THEOREM EmptyPacketIsFatal == Spec => EmptyPacketEndsReception
BY WedgedStep, Inductive, PTL DEF Spec, EmptyPacketEndsReception
=============================================================================
