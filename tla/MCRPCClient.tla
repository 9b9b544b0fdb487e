----------------------------- MODULE MCRPCClient -----------------------------
(* Small instances of RPCClient for TLC. *)
EXTENDS RPCClient

CONSTANTS c1, c2, c3, b1
=============================================================================
