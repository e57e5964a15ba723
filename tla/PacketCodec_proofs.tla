-------------------------- MODULE PacketCodec_proofs --------------------------
(***************************************************************************)
(* Proofs about what a packet says about itself, for bytes of any even     *)
(* number of values in which hdr_len can be written, for every set of      *)
(* fields, every length of a payload or file, every integer and every      *)
(* precision of a float.                                                   *)
(***************************************************************************)
EXTENDS PacketCodec, Serializer_proofs, SequenceTheorems

\* What build leaves in the Packet and on the wire.
Built ==
  outcome # "none" =>
    /\ pkt.fields \in FieldSet /\ pkt.payload_len \in 0..(Limit(4) - 1)
    /\ outcome # "undefined" =>
         /\ pkt.pkt_len = PktLen(FullHdrLen, pkt.payload_len)
         /\ pkt.pkt_len = FullHdrLen + pkt.payload_len
         /\ size < Limit(4) => pkt.payload_len = size
    /\ outcome = "built" => wire = Header(pkt.fields, pkt.payload_len)

\* The bytes of an integer, until they are deserialized.
Written ==
  /\ call.kind = "int" => call.num \in Int /\ call.width \in Nat /\ call.width > 0
  /\ buff # <<>> => call.kind = "int" /\ buff = Serialized(call.num, call.width)

IInv ==
  /\ Built /\ Written
  /\ FieldsSurvive /\ IntsSurvive /\ FloatReadsBack

(***************************************************************************)
(* Packets                                                                 *)
(***************************************************************************)

\* The bytes of a non-negative number are a sequence of numbers.
LEMMA SerializedType ==
  ASSUME NEW num \in Int, NEW w \in Nat
  PROVE  /\ Serialized(num, w) \in Seq(Int) /\ Len(Serialized(num, w)) = w
         /\ w > 0 => Serialized(num, w) # <<>>
<1>1. \A k \in 1..w : Serialized(num, w)[k] \in 0..(Base - 1)
  BY NextByte
<1>2. Serialized(num, w) = [k \in 1..w |-> Serialized(num, w)[k]]
  BY DEF Serialized
<1>3. Serialized(num, w) \in [1..w -> Int]
  BY <1>1, <1>2, BaseAssumption
<1> QED  BY <1>3

\* What is written behind something else.
LEMMA Behind ==
  ASSUME NEW s \in Seq(Int), NEW t \in Seq(Int)
  PROVE  /\ s \o t \in Seq(Int) /\ Len(s \o t) = Len(s) + Len(t)
         /\ \A i \in 1..Len(s) : (s \o t)[i] = s[i]
         /\ \A i \in 1..Len(t) : (s \o t)[Len(s) + i] = t[i]
<1>1. /\ s \o t \in Seq(Int) /\ Len(s \o t) = Len(s) + Len(t)
      /\ \A i \in 1..(Len(s) + Len(t)) :
           (s \o t)[i] = IF i <= Len(s) THEN s[i] ELSE t[i - Len(s)]
  BY ConcatProperties
<1>2. Len(s) \in Nat /\ Len(t) \in Nat
  OBVIOUS
<1>3. ASSUME NEW i \in 1..Len(s)
      PROVE  (s \o t)[i] = s[i]
  BY <1>1, <1>2
<1>4. ASSUME NEW i \in 1..Len(t)
      PROVE  (s \o t)[Len(s) + i] = t[i]
  <2>1. Len(s) + i \in 1..(Len(s) + Len(t)) /\ ~(Len(s) + i <= Len(s))
        /\ (Len(s) + i) - Len(s) = i
    BY <1>2
  <2> QED  BY <1>1, <2>1
<1> QED  BY <1>1, <1>3, <1>4

\* And how it is taken out again.
LEMMA TakenOut ==
  ASSUME NEW s \in Seq(Int), NEW t \in Seq(Int), NEW m \in Nat,
         m + Len(t) <= Len(s), \A i \in 1..Len(t) : s[m + i] = t[i]
  PROVE  SubSeq(s, m + 1, m + Len(t)) = t
<1> DEFINE n == Len(t)
           u == SubSeq(s, m + 1, m + n)
<1>1. n \in Nat /\ Len(s) \in Nat
  OBVIOUS
<1>2. \A i \in (m + 1)..(m + n) : s[i] \in Int
  BY <1>1
<1>3. m + 1 \in Int /\ m + n \in Int
  BY <1>1
<1>4. /\ u \in Seq(Int) /\ Len(u) = IF m + 1 <= m + n THEN (m + n) - (m + 1) + 1 ELSE 0
      /\ \A i \in 1..((m + n) - (m + 1) + 1) : u[i] = s[(m + 1) + i - 1]
  BY <1>2, <1>3, SubSeqProperties
<1> HIDE DEF u
<1>5. Len(u) = n /\ \A i \in 1..n : u[i] = s[m + i]
  BY <1>1, <1>4
<1>6. \A i \in 1..Len(u) : u[i] = t[i]
  BY <1>5
<1> QED  BY <1>4, <1>5, <1>6, SeqEqual DEF u

\* Where the parts of a header are.
LEMMA HeaderParts ==
  ASSUME NEW fields \in FieldSet, NEW n \in Nat
  PROVE  LET h == Header(fields, n) IN
         /\ h[4] = fields.type /\ h[5] = fields.charset /\ h[6] = fields.encoding
         /\ h[7] = fields.encryption /\ h[8] = fields.compression
         /\ SubSeq(h, 2, 3) = Serialized(HdrLen, 2)
         /\ SubSeq(h, 9, 12) = Serialized(n, 4)
<1> DEFINE a == Serialized(HdrLen, 2)
           b == Serialized(n, 4)
           c == <<fields.type, fields.charset, fields.encoding, fields.encryption,
                  fields.compression>>
           h == Header(fields, n)
<1>1. a \in Seq(Int) /\ Len(a) = 2 /\ b \in Seq(Int) /\ Len(b) = 4
  <2>1. HdrLen \in Int /\ n \in Int /\ 2 \in Nat /\ 4 \in Nat
    BY DEF HdrLen
  <2>2. a \in Seq(Int) /\ Len(a) = 2
    BY <2>1, SerializedType
  <2>3. b \in Seq(Int) /\ Len(b) = 4
    BY <2>1, SerializedType
  <2> QED  BY <2>2, <2>3
<1>2. c \in Seq(Int) /\ Len(c) = 5
  BY CodecAssumption, BaseAssumption DEF FieldSet
<1>3. <<StartSymbol>> \in Seq(Int) /\ Len(<<StartSymbol>>) = 1
  BY BaseAssumption DEF StartSymbol
<1>4. h = ((<<StartSymbol>> \o a) \o c) \o b
  BY DEF Header
<1> HIDE DEF a, b, c, h
<1> DEFINE s == <<StartSymbol>>
<1>5. s \in Seq(Int) /\ Len(s) = 1 /\ h = ((s \o a) \o c) \o b
  BY <1>3, <1>4
<1> HIDE DEF s
<1> DEFINE sa == s \o a
           sac == sa \o c
<1>6. h = sac \o b
  BY <1>5
<1>7. /\ sa \in Seq(Int) /\ Len(sa) = 3
      /\ \A i \in 1..2 : sa[1 + i] = a[i]
  <2>1. /\ sa \in Seq(Int) /\ Len(sa) = Len(s) + Len(a)
        /\ \A i \in 1..Len(a) : sa[Len(s) + i] = a[i]
    BY <1>1, <1>5, Behind
  <2> HIDE DEF sa
  <2> QED  BY <1>1, <1>5, <2>1
<1> HIDE DEF sa
<1>8. /\ sac \in Seq(Int) /\ Len(sac) = 8
      /\ \A i \in 1..3 : sac[i] = sa[i]
      /\ \A i \in 1..5 : sac[3 + i] = c[i]
  <2>1. /\ sac \in Seq(Int) /\ Len(sac) = Len(sa) + Len(c)
        /\ \A i \in 1..Len(sa) : sac[i] = sa[i]
        /\ \A i \in 1..Len(c) : sac[Len(sa) + i] = c[i]
    BY <1>2, <1>7, Behind
  <2> HIDE DEF sac
  <2> QED  BY <1>2, <1>7, <2>1
<1> HIDE DEF sac
<1>9. /\ h \in Seq(Int) /\ Len(h) = 12
      /\ \A i \in 1..8 : h[i] = sac[i]
      /\ \A i \in 1..4 : h[8 + i] = b[i]
  <2>1. sac \in Seq(Int) /\ b \in Seq(Int)
    BY <1>1, <1>8
  <2>2. /\ sac \o b \in Seq(Int) /\ Len(sac \o b) = Len(sac) + Len(b)
        /\ \A i \in 1..Len(sac) : (sac \o b)[i] = sac[i]
        /\ \A i \in 1..Len(b) : (sac \o b)[Len(sac) + i] = b[i]
    BY ONLY <2>1, Behind
  <2>3. /\ h \in Seq(Int) /\ Len(h) = Len(sac) + Len(b)
        /\ \A i \in 1..Len(sac) : h[i] = sac[i]
        /\ \A i \in 1..Len(b) : h[Len(sac) + i] = b[i]
    BY <1>6, <2>2
  <2> QED  BY <1>1, <1>8, <2>3
<1>10. SubSeq(h, 2, 3) = a
  <2>1. \A i \in 1..2 : h[1 + i] = a[i]
    BY <1>7, <1>8, <1>9
  <2>2. SubSeq(h, 1 + 1, 1 + Len(a)) = a
    BY <1>1, <1>9, <2>1, TakenOut
  <2> QED  BY <1>1, <2>2
<1>11. SubSeq(h, 9, 12) = b
  <2>1. SubSeq(h, 8 + 1, 8 + Len(b)) = b
    BY <1>1, <1>9, TakenOut
  <2> QED  BY <1>1, <2>1
<1>12. h[4] = c[1] /\ h[5] = c[2] /\ h[6] = c[3] /\ h[7] = c[4] /\ h[8] = c[5]
  BY <1>8, <1>9
<1>13. /\ c[1] = fields.type /\ c[2] = fields.charset /\ c[3] = fields.encoding
       /\ c[4] = fields.encryption /\ c[5] = fields.compression
  BY DEF c
<1> QED  BY <1>10, <1>11, <1>12, <1>13 DEF a, b, h

\* Both of the lengths that a header holds come back.
LEMMA LengthsReturn ==
  ASSUME NEW n \in 0..(Limit(4) - 1)
  PROVE  /\ Unsigned(Deserialized(Serialized(HdrLen, 2)), 2) = HdrLen
         /\ Unsigned(Deserialized(Serialized(n, 4)), 4) = n
<1>1. Limit(2) \in Nat /\ Limit(4) \in Nat
  BY LimitFacts
<1>2. HdrLen \in 0..(Limit(2) - 1) /\ HdrLen \in Int /\ n \in Int
  BY <1>1, CodecAssumption DEF HdrLen
<1>3. /\ Deserialized(Serialized(HdrLen, 2)) = Signed(HdrLen, 2)
      /\ Deserialized(Serialized(n, 4)) = Signed(n, 4)
  BY <1>2, RoundTrip
<1>4. /\ Unsigned(Signed(HdrLen, 2), 2) = Unsigned(HdrLen, 2)
      /\ Unsigned(Signed(n, 4), 4) = Unsigned(n, 4)
  BY <1>2, UnsignedUndoes
<1>5. Unsigned(HdrLen, 2) = HdrLen /\ Unsigned(n, 4) = n
  BY <1>1, <1>2, SmallRemainder DEF Unsigned
<1> QED  BY <1>3, <1>4, <1>5

\* A Packet is built from n bytes, or from the low bytes of their number.
LEMMA BuildInv ==
  ASSUME IInv, outcome = "none", NEW fields \in FieldSet, NEW n \in 0..(Limit(4) - 1),
         NEW file, size' < Limit(4) => n = size', Build(fields, n, file)
  PROVE  IInv'
<1>1. UNCHANGED numberVars
  BY DEF Build
<1>2. /\ pkt'.fields = fields /\ pkt'.payload_len = n
      /\ pkt'.pkt_len = PktLen(FullHdrLen, n) /\ wire' = Header(fields, n)
      /\ outcome' = IF PktLen(FullHdrLen, n) = FullHdrLen + n THEN "built" ELSE "undefined"
  BY DEF Build, PacketOf
<1>3. Built'
  BY <1>2 DEF Built
<1>4. FieldsSurvive'
  BY <1>2 DEF FieldsSurvive
<1>5. Written' /\ IntsSurvive' /\ FloatReadsBack'
  BY <1>1 DEF IInv, Written, IntsSurvive, FloatReadsBack, numberVars
<1> QED  BY <1>3, <1>4, <1>5 DEF IInv

\* The constructors: given a payload, a file, or the name of no file.
LEMMA ConstructInv ==
  ASSUME IInv, Construct
  PROVE  IInv'
<1>1. Limit(4) \in Nat /\ Limit(4) > 0 /\ Limit(4) = 2 * (Limit(4) \div 2)
      /\ Limit(4) \div 2 \in Nat
  BY LimitFacts
<1>2. PICK fields \in FieldSet :
        \/ \E n \in PayloadLens : FromPayload(fields, n)
        \/ \E n \in FileSizes : FromFile(fields, n)
  BY DEF Construct
<1>3. outcome = "none"
  BY DEF Construct
<1>4. ASSUME NEW n \in PayloadLens, FromPayload(fields, n)
      PROVE  IInv'
  <2>1. n \in 0..(Limit(4) - 1)
    <3>1. n \in 0..(Limit(4) \div 2 - 1)
      BY CodecAssumption
    <3> DEFINE h == Limit(4) \div 2
               d == Limit(4)
    <3> HIDE DEF h, d
    <3>2. h \in Nat /\ d = 2 * h /\ n \in 0..(h - 1)
      BY <1>1, <3>1 DEF h, d
    <3>3. n \in 0..(d - 1)
      BY <3>2
    <3> QED  BY <3>3 DEF d
  <2>2. size' = n /\ Build(fields, n, FALSE)
    BY <1>4 DEF FromPayload
  <2> QED  BY <1>3, <2>1, <2>2, BuildInv
<1>5. ASSUME NEW n \in FileSizes, FromFile(fields, n)
      PROVE  IInv'
  <2>1. n \in Nat
    BY CodecAssumption
  <2>2. CASE size' = n /\ Build(fields, Unsigned(n, 4), TRUE)
    <3>1. Unsigned(n, 4) \in 0..(Limit(4) - 1)
      BY <1>1, <2>1, Division DEF Unsigned
    <3>2. size' < Limit(4) => Unsigned(n, 4) = size'
      BY <1>1, <2>1, <2>2, SmallRemainder DEF Unsigned
    <3> QED  BY <1>3, <2>2, <3>1, <3>2, BuildInv
  <2>3. CASE size' = 0 /\ Build(fields, 0, TRUE)
    <3>1. 0 \in 0..(Limit(4) - 1)
      BY <1>1
    <3>2. size' < Limit(4) => 0 = size'
      BY <2>3
    <3> QED  BY <1>3, <2>3, <3>1, <3>2, BuildInv
  <2> QED  BY <1>5, <2>2, <2>3 DEF FromFile
<1> QED  BY <1>2, <1>4, <1>5

\* rebuild_header: of what was built, only an empty packet is refused.
LEMMA RebuildHeaderInv ==
  ASSUME IInv, RebuildHeader
  PROVE  IInv'
<1> DEFINE n == pkt.payload_len
           hdrLen == Unsigned(Deserialized(SubSeq(wire, 2, 3)), 2)
           payloadLen == Unsigned(Deserialized(SubSeq(wire, 9, 12)), 4)
           pktLen == PktLen(hdrLen + 3, payloadLen)
           fields == [type |-> wire[4], charset |-> wire[5], encoding |-> wire[6],
                      encryption |-> wire[7], compression |-> wire[8]]
<1>1. /\ outcome = "built" /\ UNCHANGED <<pkt, size, wire, numberVars>>
      /\ IF hdrLen <= 0 \/ payloadLen <= 0 \/ pktLen < hdrLen + 3
         THEN outcome' = "thrown" /\ UNCHANGED got
         ELSE /\ outcome' = "rebuilt"
              /\ got' = PacketOf(fields, payloadLen, pktLen, fields.type = GenericFile)
  BY DEF RebuildHeader
<1>2. /\ pkt.fields \in FieldSet /\ n \in 0..(Limit(4) - 1)
      /\ pkt.pkt_len = PktLen(FullHdrLen, n) /\ pkt.pkt_len = FullHdrLen + n
      /\ wire = Header(pkt.fields, n)
  BY <1>1 DEF IInv, Built
<1>3. Limit(4) \in Nat /\ n \in Nat
  BY <1>2, LimitFacts
<1>4. hdrLen = HdrLen /\ payloadLen = n
  BY <1>2, <1>3, HeaderParts, LengthsReturn
<1>5. fields = pkt.fields
  <2>1. /\ wire[4] = pkt.fields.type /\ wire[5] = pkt.fields.charset
        /\ wire[6] = pkt.fields.encoding /\ wire[7] = pkt.fields.encryption
        /\ wire[8] = pkt.fields.compression
    BY <1>2, <1>3, HeaderParts
  <2> QED  BY <1>2, <2>1 DEF FieldSet
<1> HIDE DEF hdrLen, payloadLen, pktLen, fields
<1>6. hdrLen + 3 = FullHdrLen /\ hdrLen > 0
  BY <1>4 DEF HdrLen, FullHdrLen
<1>7. pktLen = FullHdrLen + n
  BY <1>2, <1>4, <1>6 DEF pktLen
<1>8. pktLen >= hdrLen + 3
  BY <1>3, <1>6, <1>7 DEF FullHdrLen
<1>9. outcome' \in {"thrown", "rebuilt"}
  BY <1>1
<1>10. Built'
  BY <1>1, <1>9 DEF IInv, Built
<1>11. outcome' = "thrown" <=> n = 0
  <2>1. ~(hdrLen <= 0) /\ ~(pktLen < hdrLen + 3)
    BY <1>3, <1>4, <1>6, <1>7, <1>8 DEF FullHdrLen, HdrLen
  <2>2. payloadLen <= 0 <=> n = 0
    BY <1>3, <1>4
  <2> QED  BY <1>1, <2>1, <2>2
<1>12. FieldsSurvive'
  <2>1. ASSUME outcome' = "rebuilt"
        PROVE  /\ got'.payload_len > 0
               /\ got'.fields = pkt'.fields /\ got'.payload_len = pkt'.payload_len
               /\ got'.pkt_len = pkt'.pkt_len
               /\ size' < Limit(4) => got'.payload_len = size'
    <3>1. got' = PacketOf(fields, payloadLen, pktLen, fields.type = GenericFile)
      BY <1>1, <2>1
    <3>2. got'.fields = pkt.fields /\ got'.payload_len = n /\ got'.pkt_len = FullHdrLen + n
      BY <1>4, <1>5, <1>7, <3>1 DEF PacketOf
    <3>3. n > 0
      BY <1>3, <1>11, <2>1
    <3>4. size < Limit(4) => n = size
      BY <1>1 DEF IInv, Built
    <3> QED  BY <1>1, <1>2, <3>2, <3>3, <3>4
  <2>2. outcome' = "thrown" => pkt'.payload_len = 0
    BY <1>1, <1>11
  <2> QED  BY <2>1, <2>2 DEF FieldsSurvive
<1>13. Written' /\ IntsSurvive' /\ FloatReadsBack'
  BY <1>1 DEF IInv, Written, IntsSurvive, FloatReadsBack, numberVars
<1> QED  BY <1>10, <1>11, <1>12, <1>13 DEF IInv

(***************************************************************************)
(* Numbers                                                                 *)
(***************************************************************************)

\* serialize_int.
LEMMA SerializeIntInv ==
  ASSUME IInv, NEW num \in Int, NEW w \in Nat, w > 0, SerializeInt(num, w)
  PROVE  IInv'
<1>1. /\ call' = [kind |-> "int", num |-> num, width |-> w]
      /\ buff' = Serialized(num, w) /\ UNCHANGED <<pkt, size, wire, got, outcome>>
  BY DEF SerializeInt, packetVars
<1>2. buff' # <<>>
  BY <1>1, SerializedType
<1>3. /\ call'.kind = "int" /\ call'.num = num /\ call'.width = w
  BY <1>1
<1>4. Written' /\ IntsSurvive' /\ FloatReadsBack'
  BY <1>1, <1>2, <1>3 DEF Written, IntsSurvive, FloatReadsBack
<1>5. Built' /\ FieldsSurvive'
  BY <1>1 DEF IInv, Built, FieldsSurvive
<1> QED  BY <1>4, <1>5 DEF IInv

\* deserialize_int.
LEMMA DeserializeIntInv ==
  ASSUME IInv, DeserializeInt
  PROVE  IInv'
<1>1. /\ buff # <<>> /\ result' = Deserialized(buff) /\ buff' = <<>>
      /\ UNCHANGED call /\ UNCHANGED <<pkt, size, wire, got, outcome>>
  BY DEF DeserializeInt, packetVars
<1>2. /\ call.kind = "int" /\ call.num \in Int /\ call.width \in Nat /\ call.width > 0
      /\ buff = Serialized(call.num, call.width)
  BY <1>1 DEF IInv, Written
<1>3. result' = Signed(call.num, call.width)
  BY <1>1, <1>2, RoundTrip
<1>4. Unsigned(result', call.width) = Unsigned(call.num, call.width)
  BY <1>2, <1>3, UnsignedUndoes
<1>5. Written' /\ IntsSurvive' /\ FloatReadsBack'
  BY <1>1, <1>2, <1>3, <1>4 DEF IInv, Written, IntsSurvive, FloatReadsBack
<1>6. Built' /\ FieldsSurvive'
  BY <1>1 DEF IInv, Built, FieldsSurvive
<1> QED  BY <1>5, <1>6 DEF IInv

\* The significand has its bits and no more.
LEMMA SignificandFits ==
  ASSUME NEW a \in Nat, a > 0, NEW b \in Nat, b > 0, NEW n \in 0..((a * b) - 1)
  PROVE  n \div b \in 0..(a - 1)
<1> DEFINE q == n \div b
           r == n % b
<1>1. n \in Int /\ a * b \in Nat
  BY SMT
<1>2. q \in Int /\ r \in 0..(b - 1) /\ n = (b * q) + r
  BY <1>1, Division
<1> HIDE DEF q, r
<1>3. q >= 0
  <2> SUFFICES ASSUME q <= -1 PROVE FALSE
    BY <1>2
  <2>1. b * q <= -b
    BY <1>2, SMT
  <2> QED  BY <1>2, <2>1, SMT
<1>4. q <= a - 1
  <2> SUFFICES ASSUME q - a >= 0 PROVE FALSE
    BY <1>2
  <2>1. b * (q - a) >= 0
    BY <1>2, SMT
  <2>2. b * (q - a) = (b * q) - (b * a) /\ b * a = a * b
    BY <1>2, SMT
  <2> QED  BY <1>1, <1>2, <2>1, <2>2, SMT
<1> QED  BY <1>2, <1>3, <1>4 DEF q

\* The word of a number that k bits can hold has no others.
LEMMA BitsFit ==
  ASSUME NEW k \in Nat, NEW n \in 0..(Power(2, k) - 1)
  PROVE  Bits(n) \subseteq 0..(k - 1)
<1> SUFFICES ASSUME NEW i \in 0..(WordBits - 1), i >= k, (n \div Power(2, i)) % 2 = 1
             PROVE  FALSE
  BY WordAssumption DEF Bits
<1>1. i \in Nat /\ i - k \in Nat /\ k + (i - k) = i
  BY WordAssumption
<1>2. \A m \in Nat : Power(2, m) \in Nat /\ Power(2, m) > 0
  <2>1. 2 \in Nat /\ 2 > 0
    OBVIOUS
  <2> QED  BY <2>1, PowerType
<1>3. Power(2, k + (i - k)) = Power(2, k) * Power(2, i - k)
  BY <1>1, PowerSum
<1> DEFINE a == Power(2, k)
           b == Power(2, i - k)
           d == Power(2, i)
<1>4. a \in Nat /\ b \in Nat /\ b > 0 /\ d = a * b /\ n \in 0..(a - 1)
  BY <1>1, <1>2, <1>3
<1> SUFFICES ASSUME (n \div d) % 2 = 1 PROVE FALSE
  OBVIOUS
<1> HIDE DEF a, b, d
<1>5. a * b >= a
  BY <1>4, SMT
<1>6. d \in Nat /\ d > 0 /\ n \in 0..(d - 1)
  BY <1>4, <1>5
<1>7. n = (d * 0) + n
  BY <1>6, SMT
<1>8. n \div d = 0
  BY <1>6, <1>7, DivisionUnique
<1> QED  BY <1>8

\* Rounded towards zero, a fraction has the bits of the significand.
LEMMA FractionCut ==
  ASSUME NEW s \in 0..FracBits, NEW frac \in 0..(Power(2, FracBits) - 1)
  PROVE  LET cut == Power(2, FracBits - s)
             m == frac \div cut
         IN /\ m \in 0..(Power(2, s) - 1)
            /\ m * cut <= frac /\ frac < (m + 1) * cut
<1> DEFINE c == Power(2, FracBits - s)
           a == Power(2, s)
           m == frac \div c
           r == frac % c
<1>1. FracBits \in Nat /\ s \in Nat /\ FracBits - s \in Nat /\ s + (FracBits - s) = FracBits
  BY CodecAssumption
<1>2. a \in Nat /\ a > 0 /\ c \in Nat /\ c > 0
  <2>1. 2 \in Nat /\ 2 > 0
    OBVIOUS
  <2> QED  BY <1>1, <2>1, PowerType
<1>3. Power(2, s + (FracBits - s)) = a * c
  BY <1>1, PowerSum
<1>4. frac \in 0..((a * c) - 1)
  BY <1>1, <1>3
<1>5. m \in 0..(a - 1)
  <2> HIDE DEF a, c
  <2> QED  BY <1>2, <1>4, SignificandFits
<1>6. a * c \in Nat
  <2> HIDE DEF a, c
  <2> QED  BY <1>2, SMT
<1>7. frac \in Int
  <2> HIDE DEF a, c
  <2> QED  BY <1>4, <1>6
<1>8. r \in 0..(c - 1) /\ frac = (c * m) + r
  <2> HIDE DEF a, c
  <2> QED  BY <1>2, <1>7, Division
<1>9. m * c <= frac /\ frac < (m + 1) * c
  <2> HIDE DEF a, c, m, r
  <2>1. m \in Int /\ r \in Int /\ c \in Int
    BY <1>2, <1>5, <1>8
  <2>2. m * c = c * m /\ (m + 1) * c = (c * m) + c /\ c * m \in Int
    BY <2>1, SMT
  <2> QED  BY <1>2, <1>8, <2>1, <2>2
<1> QED  BY <1>5, <1>9

\* A sign, an exponent of n bits and a significand of s bits make up a word that
\* has room for all of them.
MadeOf(w, sign, e, m, n, s) ==
  /\ sign \in Words /\ e \in Words /\ m \in Words
  /\ n \in Nat /\ s \in Nat /\ n + s < WordBits - 1
  /\ e \subseteq 0..(n - 1) /\ m \subseteq 0..(s - 1)
  /\ \E x \in ShiftLeft(sign, 1 + n + s), y \in ShiftLeft(e, s) : w = x \cup y \cup m

\* The parts of such a word are what was put there.
LEMMA WordParts ==
  ASSUME NEW w, NEW sign, NEW e, NEW m, NEW n, NEW s, MadeOf(w, sign, e, m, n, s)
  PROVE  /\ sign = {0} => 1 + n + s \in w
         /\ Field(w, s, n) = e /\ Field(w, 0, s) = m
<1>0. PICK x \in ShiftLeft(sign, 1 + n + s), y \in ShiftLeft(e, s) : w = x \cup y \cup m
  BY DEF MadeOf
<1>a. /\ sign \in Words /\ e \in Words /\ m \in Words
      /\ n \in Nat /\ s \in Nat /\ n + s < WordBits - 1
      /\ e \subseteq 0..(n - 1) /\ m \subseteq 0..(s - 1)
  BY DEF MadeOf
<1> USE <1>a
<1>1. x = {i + (1 + n + s) : i \in sign} \cap 0..(WordBits - 1)
  <2>1. 1 + n + s < WordBits
    BY WordAssumption
  <2> QED  BY <2>1 DEF ShiftLeft
<1>2. y = {i + s : i \in e} \cap 0..(WordBits - 1)
  BY WordAssumption DEF ShiftLeft
<1>3. sign = {0} => 1 + n + s \in x
  BY <1>1, WordAssumption
<1>4. \A i \in x : i > n + s
  <2> SUFFICES ASSUME NEW i \in x PROVE i > n + s
    OBVIOUS
  <2>1. PICK j \in sign : i = j + (1 + n + s)
    BY <1>1
  <2>2. j \in 0..(WordBits - 1)
    BY DEF Words
  <2> QED  BY <2>1, <2>2, WordAssumption
<1>5. \A i \in 0..(n - 1) : (s + i \in y) <=> (i \in e)
  <2> SUFFICES ASSUME NEW i \in 0..(n - 1) PROVE (s + i \in y) <=> (i \in e)
    OBVIOUS
  <2>1. i + s = s + i /\ s + i \in 0..(WordBits - 1)
    BY WordAssumption
  <2>2. ASSUME s + i \in y PROVE i \in e
    <3>1. PICK j \in e : s + i = j + s
      BY <1>2, <2>2
    <3>2. j \in 0..(n - 1)
      OBVIOUS
    <3>3. j = i
      BY <3>1, <3>2
    <3> QED  BY <3>3
  <2>3. ASSUME i \in e PROVE s + i \in y
    BY <1>2, <2>1, <2>3
  <2> QED  BY <2>2, <2>3
<1>6. \A i \in y : i >= s
  <2> SUFFICES ASSUME NEW i \in y PROVE i >= s
    OBVIOUS
  <2>1. PICK j \in e : i = j + s
    BY <1>2
  <2>2. j \in 0..(n - 1)
    OBVIOUS
  <2> QED  BY <2>1, <2>2
<1>7. Field(w, s, n) = e
  <2>1. \A i \in 0..(n - 1) : s + i \notin x /\ s + i \notin m
    <3> SUFFICES ASSUME NEW i \in 0..(n - 1) PROVE s + i \notin x /\ s + i \notin m
      OBVIOUS
    <3>1. ~(s + i > n + s) /\ s + i \notin 0..(s - 1)
      OBVIOUS
    <3> QED  BY <1>4, <3>1
  <2>2. \A i \in 0..(n - 1) : (s + i \in w) <=> (i \in e)
    BY <1>0, <1>5, <2>1
  <2>3. \A i : i \in Field(w, s, n) <=> i \in 0..(n - 1) /\ s + i \in w
    BY DEF Field
  <2> QED  BY <2>2, <2>3
<1>8. Field(w, 0, s) = m
  <2>1. \A i \in 0..(s - 1) : i \notin x /\ i \notin y /\ 0 + i = i
    <3> SUFFICES ASSUME NEW i \in 0..(s - 1) PROVE i \notin x /\ i \notin y /\ 0 + i = i
      OBVIOUS
    <3>1. ~(i > n + s) /\ ~(i >= s)
      OBVIOUS
    <3> QED  BY <1>4, <1>6, <3>1
  <2>2. \A i \in 0..(s - 1) : (0 + i \in w) <=> (i \in m)
    BY <1>0, <2>1
  <2>3. \A i : i \in Field(w, 0, s) <=> i \in 0..(s - 1) /\ 0 + i \in w
    BY DEF Field
  <2> QED  BY <2>2, <2>3
<1> QED  BY <1>0, <1>3, <1>7, <1>8

\* The exponent of a normal number, biased, fits in its bits.
LEMMA ExponentFits ==
  ASSUME NEW q \in Precisions, NEW exp \in Exponents(q)
  PROVE  /\ q.exponent \in Nat /\ q.exponent > 0 /\ q.significand \in 0..FracBits
         /\ exp + PrecisionInfo(q).bias \in 0..(Power(2, q.exponent) - 1)
<1>1. q \in [exponent : Nat \ {0}, significand : 0..FracBits]
  BY CodecAssumption
<1>2. q.exponent \in Nat /\ q.exponent > 0 /\ q.significand \in 0..FracBits
  BY <1>1
<1> DEFINE h == Power(2, q.exponent - 1)
<1>3. h \in Nat /\ h > 0
  BY <1>2, PowerType
<1>4. Power(2, (q.exponent - 1) + 1) = 2 * h
  BY <1>2, PowerLaw
<1>5. (q.exponent - 1) + 1 = q.exponent
  BY <1>2
<1>6. PrecisionInfo(q).bias = h - 1
  BY DEF PrecisionInfo
<1>7. exp \in (1 - (h - 1))..(h - 1)
  BY <1>6 DEF Exponents
<1> HIDE DEF h
<1>8. exp + (h - 1) \in 0..((2 * h) - 1)
  BY <1>3, <1>7
<1> QED  BY <1>2, <1>4, <1>5, <1>6, <1>8

\* serialize_float.
LEMMA SerializeFloatInv ==
  ASSUME IInv, call = NoCall, NEW q \in Precisions, NEW neg \in BOOLEAN,
         NEW exp \in Exponents(q), NEW frac \in 0..(Power(2, FracBits) - 1),
         SerializeFloat(q, neg, exp, frac)
  PROVE  IInv'
<1> DEFINE p == PrecisionInfo(q)
           b == exp + p.bias
           m == frac \div Power(2, FracBits - p.significand)
<1>1. /\ call' = [kind |-> "float", p |-> q, neg |-> neg, exp |-> exp, frac |-> frac]
      /\ UNCHANGED <<buff, result>> /\ UNCHANGED <<pkt, size, wire, got, outcome>>
  BY DEF SerializeFloat, packetVars
<1>2. PICK sign \in SignOf(neg) : word' \in SerializedFloat(sign, exp, frac, FracBits, p)
  BY DEF SerializeFloat
<1>3. PICK x \in ShiftLeft(sign, p.total), y \in ShiftLeft(Bits(b), p.significand) :
        word' = x \cup y \cup Bits(m)
  BY <1>2 DEF SerializedFloat
<1>4. /\ p.exponent = q.exponent /\ p.significand = q.significand
      /\ p.total = 1 + q.exponent + q.significand
  BY DEF PrecisionInfo
<1>5. /\ sign \in Words /\ Bits(b) \in Words /\ Bits(m) \in Words
      /\ neg => sign = {0}
  BY <1>2, WordAssumption DEF SignOf, Words, Bits
<1>6. /\ q.exponent \in Nat /\ q.exponent > 0 /\ q.significand \in 0..FracBits
      /\ b \in 0..(Power(2, q.exponent) - 1)
  BY ExponentFits
<1>7. /\ m \in 0..(Power(2, q.significand) - 1)
      /\ m * Power(2, FracBits - q.significand) <= frac
      /\ frac < (m + 1) * Power(2, FracBits - q.significand)
  BY <1>4, <1>6, FractionCut
<1> HIDE DEF b, m
<1>8. q.significand \in Nat
  BY <1>6, CodecAssumption
<1>9. Bits(b) \subseteq 0..(q.exponent - 1) /\ Bits(m) \subseteq 0..(q.significand - 1)
  BY <1>6, <1>7, <1>8, BitsFit
<1>10. ASSUME p.total < WordBits
       PROVE  /\ neg => p.total \in word'
              /\ Field(word', p.significand, p.exponent) = Bits(b)
              /\ Field(word', 0, p.significand) = Bits(m)
  <2>1. q.exponent + q.significand < WordBits - 1
    BY <1>4, <1>6, <1>8, <1>10, WordAssumption
  <2>2. x \in ShiftLeft(sign, 1 + q.exponent + q.significand)
        /\ y \in ShiftLeft(Bits(b), q.significand)
    BY <1>3, <1>4
  <2> DEFINE w == x \cup y \cup Bits(m)
  <2>3. /\ sign = {0} => 1 + q.exponent + q.significand \in w
        /\ Field(w, q.significand, q.exponent) = Bits(b)
        /\ Field(w, 0, q.significand) = Bits(m)
    <3> DEFINE n == q.exponent
               s == q.significand
               e == Bits(b)
               f == Bits(m)
    <3>1. MadeOf(w, sign, e, f, n, s)
      BY <1>5, <1>6, <1>8, <1>9, <2>1, <2>2 DEF MadeOf
    <3> HIDE DEF n, s, e, f, w
    <3>2. /\ sign = {0} => 1 + n + s \in w
          /\ Field(w, s, n) = e /\ Field(w, 0, s) = f
      BY <3>1, WordParts
    <3> QED  BY <3>2 DEF n, s, e, f, w
  <2> QED  BY <1>2, <1>3, <1>4, <2>3 DEF SignOf
<1>11. FloatReadsBack'
  <2>1. /\ call'.p = q /\ call'.neg = neg /\ call'.exp = exp /\ call'.frac = frac
    BY <1>1
  <2>2. p.total < WordBits =>
          /\ neg => p.total \in word'
          /\ Field(word', p.significand, p.exponent) = Bits(exp + p.bias)
          /\ \E k \in 0..(Power(2, p.significand) - 1) :
               /\ Field(word', 0, p.significand) = Bits(k)
               /\ k * Power(2, FracBits - p.significand) <= frac
               /\ frac < (k + 1) * Power(2, FracBits - p.significand)
    <3> HIDE DEF p
    <3> QED  BY <1>4, <1>7, <1>10 DEF b
  <2> HIDE DEF p
  <2>3. p = PrecisionInfo(q)
    BY DEF p
  <2> QED  BY <2>1, <2>2, <2>3 DEF FloatReadsBack
<1>12. call.kind # "int" /\ buff = <<>>
  <2>1. call.kind = "none"
    BY DEF NoCall
  <2> QED  BY <2>1 DEF IInv, Written
<1>13. Written' /\ IntsSurvive'
  BY <1>1, <1>12 DEF Written, IntsSurvive
<1>14. Built' /\ FieldsSurvive'
  BY <1>1 DEF IInv, Built, FieldsSurvive
<1> QED  BY <1>11, <1>13, <1>14 DEF IInv

(***************************************************************************)
(* The theorems                                                            *)
(***************************************************************************)

\* No packet and no number at first.
LEMMA InitInv == Init => IInv
<1> SUFFICES ASSUME Init PROVE IInv
  OBVIOUS
<1>1. call.kind = "none" /\ buff = <<>> /\ outcome = "none"
  BY DEF Init, NoCall
<1> QED
  BY <1>1 DEF IInv, Built, Written, FieldsSurvive, IntsSurvive, FloatReadsBack

\* Every call keeps the invariant.
LEMMA NextInv == IInv /\ [Next]_vars => IInv'
<1> SUFFICES ASSUME IInv, [Next]_vars PROVE IInv'
  OBVIOUS
<1>1. CASE Construct
  BY <1>1, ConstructInv
<1>2. CASE RebuildHeader
  BY <1>2, RebuildHeaderInv
<1>3. CASE Serialize
  <2>1. ASSUME NEW num \in Ints(8), NEW w \in {2, 4, 8}, SerializeInt(num, w)
        PROVE  IInv'
    <3>1. Limit(8) \div 2 \in Nat
      BY LimitFacts
    <3>2. num \in Int
      BY <3>1 DEF Ints
    <3> QED  BY <2>1, <3>2, SerializeIntInv
  <2>2. ASSUME NEW q \in Precisions, NEW neg \in BOOLEAN, NEW exp \in Exponents(q),
               NEW frac \in 0..(Power(2, FracBits) - 1), SerializeFloat(q, neg, exp, frac)
        PROVE  IInv'
    BY <1>3, <2>2, SerializeFloatInv DEF Serialize
  <2> QED  BY <1>3, <2>1, <2>2 DEF Serialize
<1>4. CASE DeserializeInt
  BY <1>4, DeserializeIntInv
<1>5. CASE UNCHANGED vars
  BY <1>5 DEF vars, packetVars, numberVars, IInv, Built, Written, FieldsSurvive,
              IntsSurvive, FloatReadsBack
<1> QED  BY <1>1, <1>2, <1>3, <1>4, <1>5 DEF Next

\* The inductive invariant holds of every packet and every number.
THEOREM Inductive == Spec => []IInv
<1> QED  BY InitInv, NextInv, PTL DEF Spec

\* Every packet that build makes and that is not empty arrives with its fields and
\* with all that its constructor was given, if a uint can count that.
THEOREM HeaderSurvives == Spec => []FieldsSurvive
<1>1. IInv => FieldsSurvive
  BY DEF IInv
<1> QED  BY <1>1, Inductive, PTL

\* deserialize_int after serialize_int, for integers of any width in use.
THEOREM IntsAlwaysSurvive == Spec => []IntsSurvive
<1>1. IInv => IntsSurvive
  BY DEF IInv
<1> QED  BY <1>1, Inductive, PTL

\* The word of serialize_float can be read, for every precision that leaves room
\* for a sign in it.
THEOREM FloatAlwaysReadsBack == Spec => []FloatReadsBack
<1>1. IInv => FloatReadsBack
  BY DEF IInv
<1> QED  BY <1>1, Inductive, PTL
=============================================================================
