------------------------------- MODULE RPCCall -------------------------------
(***************************************************************************)
(* What RPCClient.Call promises each of its callers, with the connection,  *)
(* the goroutines and the wire protocol hidden: a call is started, the     *)
(* server may answer it, at most once, and Call returns exactly one        *)
(* result.  A call that returns without error was answered without one by  *)
(* the server, and only a call whose context has a deadline returns        *)
(* ErrTimeOut.                                                             *)
(* Nothing promises that a call which failed was not executed: an answer   *)
(* may exist for a call that timed out or was shut down.                   *)
(***************************************************************************)
CONSTANTS Calls,      \* the calls made by the users of one client
          Deadlined   \* those whose context has a deadline

VARIABLES started,    \* calls that Call or Go has been entered for
          served,     \* how the server answered each call
          result      \* what Call returned to each caller

vars == <<started, served, result>>

Results == {"none", "ok", "err", "timeout"}

Init == /\ started = {}
        /\ served = [c \in Calls |-> "none"]
        /\ result = [c \in Calls |-> "none"]

Start(c) == /\ c \notin started
            /\ started' = started \cup {c}
            /\ UNCHANGED <<served, result>>

Serve(c, a) == /\ c \in started
               /\ served[c] = "none"
               /\ served' = [served EXCEPT ![c] = a]
               /\ UNCHANGED <<started, result>>

Return(c, r) == /\ c \in started
                /\ result[c] = "none"
                /\ r \in Results \ {"none"}
                /\ r = "ok" => served[c] = "ok"
                /\ r = "timeout" => c \in Deadlined
                /\ result' = [result EXCEPT ![c] = r]
                /\ UNCHANGED <<started, served>>

Next == \E c \in Calls : \/ Start(c)
                         \/ \E a \in {"ok", "err"} : Serve(c, a)
                         \/ \E r \in Results : Return(c, r)

Spec == Init /\ [][Next]_vars
=============================================================================
