---------------------------- MODULE MCAttachment ----------------------------
(***************************************************************************)
(* A small instance of Attachment for TLC: the threads of two servers,     *)
(* with two connections each, and attachments of different lengths.        *)
(***************************************************************************)
EXTENDS Attachment

CONSTANTS w1, w2, p1, p2

MCWriters == {w1, w2}
MCPeers == {p1, p2}
MCFileLens == 1..3
=============================================================================
