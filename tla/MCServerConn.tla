----------------------------- MODULE MCServerConn ----------------------------
(* Small instances of ServerConn for TLC. *)
EXTENDS ServerConn

CONSTANTS k1, m1, m2, m3, m4, m5
=============================================================================
