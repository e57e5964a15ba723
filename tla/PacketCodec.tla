----------------------------- MODULE PacketCodec -----------------------------
(***************************************************************************)
(* What a packet says about itself: the sender's Packet constructors and   *)
(* build turn the packet's fields into a header, and the receiver's        *)
(* rebuild_header turns the header back into fields (packet.cpp).  How the *)
(* bytes travel and in which chunks they arrive is the business of         *)
(* PeerLink; here the numbers have the width they have in the code: a      *)
(* payload length is a uint on both sides, a packet length an int.  An     *)
(* application may also use the encodings of Serializer by themselves.     *)
(***************************************************************************)
EXTENDS Serializer

CONSTANTS
  Types, CharSets, Encodings, Encryptions, Compressions,  \* values in use
  GenericFile,    \* PacketType::generic_file
  PayloadLens,    \* lengths of payloads given to the constructor
  FileSizes,      \* sizes of files attached
  Precisions,     \* num_exponent_bits and num_significand_bits of the precisions
  FracBits        \* bits of fraction in a long double

HdrLen == 9             \* hdr_len in build_header
FullHdrLen == 12        \* full_hdr_len in build_header

ASSUME CodecAssumption ==
  /\ HdrLen < Limit(2)
  /\ Types \cup CharSets \cup Encodings \cup Encryptions \cup Compressions \subseteq 0..(Base - 1)
  /\ GenericFile \in 0..(Base - 1)
  /\ PayloadLens \subseteq 0..(Limit(4) \div 2 - 1) /\ FileSizes \subseteq Nat
  /\ FracBits \in Nat
  /\ Precisions \subseteq [exponent : Nat \ {0}, significand : 0..FracBits]

VARIABLES
  pkt,      \* the Packet being sent: its fields, payload_len and pkt_len
  size,     \* bytes the user gave it as payload or file; 0 for a missing file
  wire,     \* the header on its way
  got,      \* the Packet being rebuilt
  outcome,  \* what became of it
  call,     \* the number an application serializes: an integer, a float, none
  buff,     \* the bytes of the integer
  result,   \* what deserialize_int returned
  word      \* what serialize_float returned

packetVars == <<pkt, size, wire, got, outcome>>
numberVars == <<call, buff, result, word>>
vars == <<packetVars, numberVars>>

StartSymbol == Base - 1 \* 0xFF

FieldSet == [type : Types, charset : CharSets, encoding : Encodings,
             encryption : Encryptions, compression : Compressions]
NoFields == [type |-> 0, charset |-> 0, encoding |-> 0, encryption |-> 0, compression |-> 0]
PacketOf(fields, payloadLen, pktLen, file) ==
  [fields |-> fields, payload_len |-> payloadLen, pkt_len |-> pktLen, attachment |-> file]
NoPacket == PacketOf(NoFields, 0, 0, FALSE)

\* pkt_len: the sum of a uint16_t and a uint is a uint, assigned to an int.
PktLen(fullHdrLen, payloadLen) == Signed(Unsigned(fullHdrLen + payloadLen, 4), 4)

\* Mutant: two fields change places.
HeaderSwapped(fields, payloadLen) ==
  <<StartSymbol>> \o Serialized(HdrLen, 2)
    \o <<fields.type, fields.charset, fields.encoding, fields.compression, fields.encryption>>
    \o Serialized(payloadLen, 4)

\* get_precision_info: SINGLE_PRECISION and the larger ones differ in their
\* bits only.  HALF_PRECISION, which has no case and leaves them to chance, is
\* left out, and so are the two whose significand is longer than a long double's.
PrecisionInfo(p) ==
  [exponent |-> p.exponent, significand |-> p.significand,
   total |-> 1 + p.exponent + p.significand, bias |-> Power(2, p.exponent - 1) - 1]

\* Exponents of the normal numbers of a precision.
Exponents(p) == (1 - PrecisionInfo(p).bias)..PrecisionInfo(p).bias

\* The words that sign may hold: 1 for a negative number, and what the stack held
\* for a positive one, to which serialize_float assigns none.
SignOf(neg) == IF neg THEN {{0}} ELSE Words

NoCall == [kind |-> "none"]

\* The header that build_header writes.
Header(fields, payloadLen) ==
  <<StartSymbol>> \o Serialized(HdrLen, 2)
    \o <<fields.type, fields.charset, fields.encoding, fields.encryption, fields.compression>>
    \o Serialized(payloadLen, 4)

Init ==
  /\ pkt = NoPacket /\ size = 0 /\ wire = <<>> /\ got = NoPacket
  /\ outcome = "none"
  /\ call = NoCall /\ buff = <<>> /\ result = 0 /\ word = {}
-----------------------------------------------------------------------------
(* A packet is built and rebuilt *)

\* build, once the payload is there.  When the length of the packet does not
\* fit an int, make_pkt copies beyond the buffer that it allocates.
Build(fields, payloadLen, file) ==
  LET pktLen == PktLen(FullHdrLen, payloadLen) IN
  /\ pkt' = PacketOf(fields, payloadLen, pktLen, file)
  /\ wire' = Header(fields, payloadLen)
  /\ outcome' = IF pktLen = FullHdrLen + payloadLen THEN "built" ELSE "undefined"
  /\ UNCHANGED <<got, numberVars>>

\* The constructor that is given a payload of n bytes.
FromPayload(fields, n) ==
  /\ outcome = "none"
  /\ size' = n
  /\ Build(fields, n, FALSE)

\* The constructor that is given a file: process_input_file keeps its size in a
\* uint, and leaves the payload empty if it cannot open the file.
FromFile(fields, n) ==
  /\ outcome = "none"
  /\ \/ size' = n /\ Build(fields, Unsigned(n, 4), TRUE)
     \/ size' = 0 /\ Build(fields, 0, TRUE)

\* rebuild_header on the whole header, and rebuild's pkt_len.  header_ready has
\* put full_hdr_len together from the prefix.  A packet that threw is of no use.
RebuildHeader ==
  LET hdrLen == Unsigned(Deserialized(SubSeq(wire, 2, 3)), 2)
      payloadLen == Unsigned(Deserialized(SubSeq(wire, 9, 12)), 4)
      pktLen == PktLen(hdrLen + 3, payloadLen)
      fields == [type |-> wire[4], charset |-> wire[5], encoding |-> wire[6],
                 encryption |-> wire[7], compression |-> wire[8]]
  IN
  /\ outcome = "built"
  /\ IF hdrLen <= 0 \/ payloadLen <= 0 \/ pktLen < hdrLen + 3
     THEN outcome' = "thrown" /\ UNCHANGED got
     ELSE /\ outcome' = "rebuilt"
          /\ got' = PacketOf(fields, payloadLen, pktLen, fields.type = GenericFile)
  /\ UNCHANGED <<pkt, size, wire, numberVars>>

Construct ==
  /\ outcome = "none" /\ call = NoCall
  /\ \E fields \in FieldSet :
       \/ \E n \in PayloadLens : FromPayload(fields, n)
       \/ \E n \in FileSizes : FromFile(fields, n)

-----------------------------------------------------------------------------
(* A number is serialized and deserialized *)

SerializeInt(num, w) ==
  /\ call' = [kind |-> "int", num |-> num, width |-> w]
  /\ buff' = Serialized(num, w)
  /\ UNCHANGED <<packetVars, result, word>>

DeserializeInt ==
  /\ buff # <<>>
  /\ result' = Deserialized(buff)
  /\ buff' = <<>>
  /\ UNCHANGED <<packetVars, call, word>>

\* A number that is not zero; zero is returned as it is.
SerializeFloat(p, neg, exp, frac) ==
  /\ call' = [kind |-> "float", p |-> p, neg |-> neg, exp |-> exp, frac |-> frac]
  /\ \E sign \in SignOf(neg) :
       word' \in SerializedFloat(sign, exp, frac, FracBits, PrecisionInfo(p))
  /\ UNCHANGED <<packetVars, buff, result>>

Serialize ==
  /\ outcome = "none" /\ call = NoCall
  /\ \/ \E num \in Ints(8), w \in {2, 4, 8} : SerializeInt(num, w)
     \/ \E p \in Precisions, neg \in BOOLEAN : \E exp \in Exponents(p) :
          \E frac \in 0..(Power(2, FracBits) - 1) : SerializeFloat(p, neg, exp, frac)

Next == Construct \/ RebuildHeader \/ Serialize \/ DeserializeInt

Spec == Init /\ [][Next]_vars
-----------------------------------------------------------------------------
\* Of the packets that build makes, rebuild_header refuses the empty ones and no
\* other, although it tests lengths that travelled as signed numbers; every other
\* arrives with the fields and the lengths of the sender's, and with all that the
\* constructor was given if the size of that fits a uint.
FieldsSurvive ==
  /\ outcome = "thrown" => pkt.payload_len = 0
  /\ outcome = "rebuilt" =>
       /\ got.payload_len > 0
       /\ got.fields = pkt.fields /\ got.payload_len = pkt.payload_len /\ got.pkt_len = pkt.pkt_len
       /\ size < Limit(4) => got.payload_len = size

\* What comes back is the number that went in, cut to the low bytes and read as
\* signed, and a cast to the unsigned type (as rebuild_header does with the
\* length of a payload) undoes the sign: no shift loses or smears a byte.
IntsSurvive ==
  call.kind = "int" /\ buff = <<>> =>
    /\ result = Signed(call.num, call.width)
    /\ Unsigned(result, call.width) = Unsigned(call.num, call.width)

\* The n bits of a word from bit lo on.
Field(w, lo, n) == {i \in 0..(n - 1) : lo + i \in w}

\* A normal number can be read back from its word, so long as the word is wider
\* than the precision (SINGLE_PRECISION; from DOUBLE_PRECISION on, the shift of
\* the sign is undefined): the exponent and the significand, rounded towards zero,
\* are in their own bits whatever sign held, and a negative number has its sign.
FloatReadsBack ==
  call.kind = "float" =>
    LET p == PrecisionInfo(call.p)
        cut == Power(2, FracBits - p.significand)
    IN p.total < WordBits =>
         /\ call.neg => p.total \in word
         /\ Field(word, p.significand, p.exponent) = Bits(call.exp + p.bias)
         /\ \E m \in 0..(Power(2, p.significand) - 1) :
              /\ Field(word, 0, p.significand) = Bits(m)
              /\ m * cut <= call.frac /\ call.frac < (m + 1) * cut
=============================================================================
