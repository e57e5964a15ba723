---------------------------- MODULE MCPeerLink ----------------------------
(***************************************************************************)
(* Small instances of PeerLink for TLC.  The header has 4 bytes instead of *)
(* 12: one more than the prefix, so that chunks end before, in, exactly    *)
(* behind and beyond both the prefix and the header.                       *)
(***************************************************************************)
EXTENDS PeerLink

\* No payload, one byte (the shortest a receiver accepts) and two, which a
\* chunk can split.
MCPayloadLens == {0, 1, 2}

\* The lengths for the runs about packets a receiver accepts.
MCFullPayloads == {1, 2}
=============================================================================
