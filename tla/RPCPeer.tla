------------------------------- MODULE RPCPeer -------------------------------
(***************************************************************************)
(* What the two ends of RPC connections rely on from each other.  A client *)
(* asks each of its requests once; the server answers a request that was   *)
(* asked, at most once, in any order or never, and a heartbeat without an  *)
(* error.  RPCClient is written against such a server, and ServerConn is   *)
(* one.                                                                    *)
(***************************************************************************)
CONSTANT Requests    \* identities of requests

VARIABLES asked,     \* what each request was asked as
          answered   \* how it was answered

vars == <<asked, answered>>

Kinds   == {"no", "call", "heartbeat"}
Answers == {"none", "ok", "err"}

Init == /\ asked = [r \in Requests |-> "no"]
        /\ answered = [r \in Requests |-> "none"]

Ask(r, k) == /\ asked[r] = "no"
             /\ asked' = [asked EXCEPT ![r] = k]
             /\ UNCHANGED answered

Answer(r, a) == /\ asked[r] # "no"
                /\ answered[r] = "none"
                /\ asked[r] = "heartbeat" => a = "ok"
                /\ answered' = [answered EXCEPT ![r] = a]
                /\ UNCHANGED asked

Next == \E r \in Requests : \/ \E k \in Kinds \ {"no"} : Ask(r, k)
                            \/ \E a \in Answers \ {"none"} : Answer(r, a)

Spec == Init /\ [][Next]_vars
=============================================================================
