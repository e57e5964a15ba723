--------------------------- MODULE MCSocketHelper ---------------------------
(***************************************************************************)
(* A small instance of SocketHelper for TLC: two threads of the            *)
(* application beside the poll thread, and packets that a send call can    *)
(* split.                                                                  *)
(***************************************************************************)
EXTENDS SocketHelper

CONSTANTS u1, u2, poll

MCUsers == {u1, u2}
MCConnectors == {u1}
MCStoppers == {u2}
=============================================================================
