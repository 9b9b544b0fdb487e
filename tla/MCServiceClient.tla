-------------------------- MODULE MCServiceClient ---------------------------
(* Small instances of ServiceClient for TLC. *)
EXTENDS ServiceClient

CONSTANTS c1, c2   \* callers

\* The Client is given a rate limiter and a circuit breaker, or neither.
AllOrNone == {{}, {"limiter", "breaker"}}
=============================================================================
