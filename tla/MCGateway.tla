------------------------------ MODULE MCGateway ------------------------------
(* Small instances of Gateway for TLC. *)
EXTENDS Gateway

CONSTANTS h1, h2, b1   \* handlers and a heartbeat
=============================================================================
