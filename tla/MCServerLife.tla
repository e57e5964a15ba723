---------------------------- MODULE MCServerLife ----------------------------
(***************************************************************************)
(* A small instance of ServerLife for TLC: two servers, so that one may    *)
(* follow another on the port or run beside it, and two connections, which *)
(* compete for their threads.                                              *)
(***************************************************************************)
EXTENDS ServerLife
=============================================================================
