--------------------------- MODULE MCP2PurrServer ---------------------------
(***************************************************************************)
(* Small instances of P2PurrServer for TLC: at most MaxPeers sockets over  *)
(* the life of the server, and limits low enough to be reached.            *)
(***************************************************************************)
EXTENDS P2PurrServer
=============================================================================
