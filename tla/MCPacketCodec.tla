---------------------------- MODULE MCPacketCodec ----------------------------
(***************************************************************************)
(* With bytes of four values a uint is below 256 and an int below 128, so  *)
(* that every payload and every file up to just beyond the width of a uint *)
(* can be tried.                                                           *)
(***************************************************************************)
EXTENDS PacketCodec

\* Two values per field tell every field from its neighbours.
MCTypes == {1, 3}
MCFields == {1, 2}

MCPayloadLens == 0..(Limit(4) \div 2 - 1)
MCFileSizes == 0..(Limit(4) + FullHdrLen)

\* With words of 7 bits, a precision that leaves room for a sign above its own
\* bits, as SINGLE_PRECISION does, and one that does not, as DOUBLE_PRECISION.
MCPrecisions == {[exponent |-> 3, significand |-> 2], [exponent |-> 3, significand |-> 3]}
=============================================================================
