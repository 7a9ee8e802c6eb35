--------------------------- MODULE MCSocketServer ---------------------------
(***************************************************************************)
(* Definitions for TLC: two servers and two requests, all of them any      *)
(* number of times.                                                        *)
(***************************************************************************)
EXTENDS SocketServer
=============================================================================
