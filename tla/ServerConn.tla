----------------------------- MODULE ServerConn -----------------------------
(***************************************************************************)
(* The connections of an RPC server (server/easyconn.go) and the requests  *)
(* that arrive on them (handleRequest of server/server.go).  serveConn     *)
(* reads requests one after another, answers heartbeats itself and starts  *)
(* a goroutine for every other request.  All connections take their        *)
(* Message objects from one pool (protocol/pool.go), and a response shares *)
(* bytes with its request: the service path and method that Clone copies   *)
(* are strings over the data buffer of the request's Message.              *)
(*                                                                         *)
(* A request is named by its connection and sequence number.  Which        *)
(* service it calls and what the service computes are left out; looking    *)
(* the service up, decoding the arguments, the call and encoding the reply *)
(* may each fail.  Buffers are always large enough to be used again.       *)
(* A definition marked "Wrong" is a plausible bug in the one after it,     *)
(* kept to see that the properties below reject it; nothing uses it.       *)
(***************************************************************************)
EXTENDS Naturals

CONSTANTS
    Conns,    \* connections that clients make
    MaxSeq,   \* bound: requests on one connection
    Msgs,     \* bound: Message objects that are in use or pooled at a time
    NoMsg,    \* the nil *Message
    NoId      \* what a reset header and an unused buffer hold

Ids == Conns \X (1..MaxSeq)

ASSUME ServerAssumption == /\ MaxSeq \in Nat
                           /\ NoMsg \notin Msgs
                           /\ NoId \notin Ids

Kinds == {"call", "oneway", "heartbeat"}

VARIABLES
    line,     \* "up", "lost" when the peer is gone, "closed" by serveConn
    sent,     \* how many requests were written to each connection
    kind,     \* what kind each request is
    \* serveConn, one goroutine per connection
    rpc, rmsg,
    read,     \* how many requests it has decoded
    \* handleTrueRequest, one goroutine per request
    pc, req, res,
    \* Message objects
    pool,     \* how many times each of them is in msgPool
    hdr,      \* the request whose sequence number is in its header
    data,     \* the request whose bytes are in its data buffer
    \* what was written
    out,      \* the responses
    answers   \* history: how many responses carry each sequence number

connVars == <<line, sent, kind>>
readVars == <<rpc, rmsg, read>>
reqVars  == <<pc, req, res>>
msgVars  == <<pool, hdr, data>>
outVars  == <<out, answers>>
vars == <<connVars, readVars, reqVars, msgVars, outVars>>

Init == /\ line = [k \in Conns |-> "up"] /\ sent = [k \in Conns |-> 0]
        /\ kind = [i \in Ids |-> "none"]
        /\ rpc = [k \in Conns |-> "loop"] /\ rmsg = [k \in Conns |-> NoMsg]
        /\ read = [k \in Conns |-> 0]
        /\ pc = [i \in Ids |-> "none"]
        /\ req = [i \in Ids |-> NoMsg] /\ res = [i \in Ids |-> NoMsg]
        /\ pool = [m \in Msgs |-> 0]
        /\ hdr = [m \in Msgs |-> NoId] /\ data = [m \in Msgs |-> NoId]
        /\ out = {} /\ answers = [i \in Ids |-> 0]

-----------------------------------------------------------------------------
(* The pool.                                                               *)

Referenced == {rmsg[k] : k \in Conns} \cup {req[i] : i \in Ids} \cup {res[i] : i \in Ids}

\* GetPooledMsg: a message out of the pool, or a new one.
Get(m) == \/ pool[m] > 0 /\ pool' = [pool EXCEPT ![m] = @ - 1]
          \/ pool[m] = 0 /\ m \notin Referenced /\ UNCHANGED pool

\* FreeMsg: Reset clears the header and keeps the allocated data.
Free(m) == /\ pool' = [pool EXCEPT ![m] = @ + 1]
           /\ hdr' = [hdr EXCEPT ![m] = NoId]
           /\ UNCHANGED data

\* The response with the header of message h and the strings that lie in the
\* buffer of message d is written to connection k; where the peer is gone or
\* the connection is closed, the error is ignored.
Put(k, h, d) ==
    IF line[k] = "up"
    THEN /\ out' = out \cup {[conn |-> k, id |-> hdr[h], path |-> data[d]]}
         /\ answers' = [answers EXCEPT ![hdr[h]] = @ + 1]
    ELSE UNCHANGED outVars

-----------------------------------------------------------------------------
(* Clients and the network.                                                *)

Send(k, x) == /\ line[k] = "up"
              /\ sent[k] < MaxSeq
              /\ sent' = [sent EXCEPT ![k] = @ + 1]
              /\ kind' = [kind EXCEPT ![<<k, sent[k] + 1>>] = x]
              /\ UNCHANGED <<line, readVars, reqVars, msgVars, outVars>>

Lose(k) == /\ line[k] = "up"
           /\ line' = [line EXCEPT ![k] = "lost"]
           /\ UNCHANGED <<sent, kind, readVars, reqVars, msgVars, outVars>>

-----------------------------------------------------------------------------
(* serveConn.                                                              *)

\* Wrong: the requests of a connection are handled one after another.
LoopWaits(k) == /\ rpc[k] = "loop"
                /\ \A i \in Ids : i[1] = k => pc[i] \in {"none", "done"}
                /\ \E m \in Msgs : /\ Get(m)
                                   /\ rmsg' = [rmsg EXCEPT ![k] = m]
                /\ rpc' = [rpc EXCEPT ![k] = "read"]
                /\ UNCHANGED <<connVars, read, reqVars, hdr, data, outVars>>

Loop(k) == /\ rpc[k] = "loop"
           /\ \E m \in Msgs : /\ Get(m)
                              /\ rmsg' = [rmsg EXCEPT ![k] = m]
           /\ rpc' = [rpc EXCEPT ![k] = "read"]
           /\ UNCHANGED <<connVars, read, reqVars, hdr, data, outVars>>

Decode(k) ==
    LET i == <<k, read[k] + 1>> IN
    /\ rpc[k] = "read"
    /\ read[k] < sent[k]
    /\ read' = [read EXCEPT ![k] = @ + 1]
    /\ hdr' = [hdr EXCEPT ![rmsg[k]] = i]
    /\ data' = [data EXCEPT ![rmsg[k]] = i]
    /\ \/ /\ kind[i] = "heartbeat"
          /\ rpc' = [rpc EXCEPT ![k] = "beat"]
          /\ UNCHANGED <<rmsg, pc, req>>
       \/ /\ kind[i] # "heartbeat"
          /\ pc' = [pc EXCEPT ![i] = "extract"]
          /\ req' = [req EXCEPT ![i] = rmsg[k]]
          /\ rpc' = [rpc EXCEPT ![k] = "loop"]
          /\ rmsg' = [rmsg EXCEPT ![k] = NoMsg]
    /\ UNCHANGED <<connVars, res, pool, outVars>>

\* The peer is gone, or the read deadline passes: it is set before each read,
\* whatever requests are still being handled.
ReadFails(k) == /\ rpc[k] = "read"
                /\ rpc' = [rpc EXCEPT ![k] = "exit"]
                /\ rmsg' = [rmsg EXCEPT ![k] = NoMsg]
                /\ line' = [line EXCEPT ![k] = "closed"]
                /\ UNCHANGED <<sent, kind, read, reqVars, msgVars, outVars>>

WriteBeat(k) == /\ rpc[k] = "beat"
                /\ Put(k, rmsg[k], rmsg[k])
                /\ rpc' = [rpc EXCEPT ![k] = "beaten"]
                /\ UNCHANGED <<connVars, rmsg, read, reqVars, msgVars>>

\* Wrong: the loop goes on to handle the heartbeat as a request.
FreeBeatFallsThrough(k) ==
    LET i == <<k, read[k]>> IN
    /\ rpc[k] = "beaten"
    /\ Free(rmsg[k])
    /\ pc' = [pc EXCEPT ![i] = "extract"]
    /\ req' = [req EXCEPT ![i] = rmsg[k]]
    /\ rmsg' = [rmsg EXCEPT ![k] = NoMsg]
    /\ rpc' = [rpc EXCEPT ![k] = "loop"]
    /\ UNCHANGED <<connVars, read, res, outVars>>

FreeBeat(k) == /\ rpc[k] = "beaten"
               /\ Free(rmsg[k])
               /\ rmsg' = [rmsg EXCEPT ![k] = NoMsg]
               /\ rpc' = [rpc EXCEPT ![k] = "loop"]
               /\ UNCHANGED <<connVars, read, reqVars, outVars>>

-----------------------------------------------------------------------------
(* handleTrueRequest.                                                      *)

Goto(i, l) == pc' = [pc EXCEPT ![i] = l]

Extract(i) == /\ pc[i] = "extract"
              /\ Goto(i, "handle")
              /\ UNCHANGED <<connVars, readVars, req, res, msgVars, outVars>>

\* Wrong: the metadata is at fault, and the request is handled nevertheless.
ExtractFailsContinues(i) ==
    /\ pc[i] = "extract"
    /\ Free(req[i])
    /\ Goto(i, "handle")
    /\ UNCHANGED <<connVars, readVars, req, res, outVars>>

ExtractFails(i) == /\ pc[i] = "extract"
                   /\ Free(req[i])
                   /\ req' = [req EXCEPT ![i] = NoMsg]
                   /\ Goto(i, "done")
                   /\ UNCHANGED <<connVars, readVars, res, outVars>>

\* Wrong: the request is freed as soon as it has been cloned.
HandleRequestFrees(i) ==
    /\ pc[i] = "handle"
    /\ \E m \in Msgs : /\ pool[m] = 0 /\ m \notin Referenced
                       /\ pool' = [pool EXCEPT ![req[i]] = @ + 1]
                       /\ res' = [res EXCEPT ![i] = m]
                       /\ hdr' = [hdr EXCEPT ![m] = hdr[req[i]]]
    /\ \E l \in {"call", "error"} : Goto(i, l)
    /\ UNCHANGED <<connVars, readVars, req, data, outVars>>

\* handleRequest: the response is a clone with a header of its own; the
\* service, its method, the codec or the arguments may be at fault.
HandleRequest(i) ==
    /\ pc[i] = "handle"
    /\ \E m \in Msgs : /\ Get(m)
                       /\ res' = [res EXCEPT ![i] = m]
                       /\ hdr' = [hdr EXCEPT ![m] = hdr[req[i]]]
    /\ \E l \in {"call", "error"} : Goto(i, l)
    /\ UNCHANGED <<connVars, readVars, req, data, outVars>>

\* service.call returns, with an error also when the service panics, and the
\* reply is encoded.
ServiceReturns(i) == /\ pc[i] = "call"
                     /\ \E l \in {"write", "error"} : Goto(i, l)
                     /\ UNCHANGED <<connVars, readVars, req, res, msgVars, outVars>>

\* The response that handleError has prepared is dropped.
DropError(i) == /\ pc[i] = "error"
                /\ Free(req[i])
                /\ req' = [req EXCEPT ![i] = NoMsg]
                /\ res' = [res EXCEPT ![i] = NoMsg]
                /\ Goto(i, "done")
                /\ UNCHANGED <<connVars, readVars, outVars>>

WriteResponse(i) == /\ pc[i] = "write"
                    /\ Put(i[1], res[i], req[i])
                    /\ Goto(i, "freeReq")
                    /\ UNCHANGED <<connVars, readVars, req, res, msgVars>>

FreeReq(i) == /\ pc[i] = "freeReq"
              /\ Free(req[i])
              /\ req' = [req EXCEPT ![i] = NoMsg]
              /\ Goto(i, "freeRes")
              /\ UNCHANGED <<connVars, readVars, res, outVars>>

FreeRes(i) == /\ pc[i] = "freeRes"
              /\ Free(res[i])
              /\ res' = [res EXCEPT ![i] = NoMsg]
              /\ Goto(i, "done")
              /\ UNCHANGED <<connVars, readVars, req, outVars>>

-----------------------------------------------------------------------------
ServeConn(k) == \/ Loop(k) \/ Decode(k) \/ ReadFails(k)
                \/ WriteBeat(k) \/ FreeBeat(k)

HandleTrueRequest(i) == \/ Extract(i) \/ ExtractFails(i) \/ HandleRequest(i)
                        \/ DropError(i) \/ WriteResponse(i)
                        \/ FreeReq(i) \/ FreeRes(i)

Next == \/ \E k \in Conns : \/ \E x \in Kinds : Send(k, x)
                            \/ Lose(k)
                            \/ ServeConn(k)
        \/ \E i \in Ids : HandleTrueRequest(i) \/ ServiceReturns(i)

Spec == Init /\ [][Next]_vars

\* Goroutines are scheduled, and the peer reads what it is sent, so that a
\* write returns; a service need not return.
FairSpec == /\ Spec
            /\ \A k \in Conns : WF_vars(ServeConn(k))
            /\ \A i \in Ids : WF_vars(HandleTrueRequest(i))

-----------------------------------------------------------------------------
(* Properties.                                                             *)

Responses == [conn : Conns, id : Ids \cup {NoId}, path : Ids \cup {NoId}]

TypeOK ==
    /\ line \in [Conns -> {"up", "lost", "closed"}] /\ sent \in [Conns -> 0..MaxSeq]
    /\ kind \in [Ids -> Kinds \cup {"none"}]
    /\ rpc \in [Conns -> {"loop", "read", "beat", "beaten", "exit"}]
    /\ rmsg \in [Conns -> Msgs \cup {NoMsg}] /\ read \in [Conns -> 0..MaxSeq]
    /\ pc \in [Ids -> {"none", "extract", "handle", "call", "error", "write",
                       "freeReq", "freeRes", "done"}]
    /\ req \in [Ids -> Msgs \cup {NoMsg}] /\ res \in [Ids -> Msgs \cup {NoMsg}]
    /\ pool \in [Msgs -> Nat]
    /\ hdr \in [Msgs -> Ids \cup {NoId}] /\ data \in [Msgs -> Ids \cup {NoId}]
    /\ out \subseteq Responses /\ answers \in [Ids -> Nat]

\* A Message belongs to one goroutine, in one role, or is in the pool, once.
\* Each FreeMsg of easyconn.go has to come after the last use of the message,
\* on every path, and exactly once: two connections would share it otherwise.
Exclusive ==
    /\ \A m \in Msgs : pool[m] <= 1 /\ (pool[m] = 1 => m \notin Referenced)
    /\ \A k, l \in Conns : rmsg[k] = rmsg[l] /\ rmsg[k] # NoMsg => k = l
    /\ \A i, j \in Ids : req[i] = req[j] /\ req[i] # NoMsg => i = j
    /\ \A i, j \in Ids : res[i] = res[j] /\ res[i] # NoMsg => i = j
    /\ \A i, j \in Ids : req[i] = res[j] => req[i] = NoMsg
    /\ \A k \in Conns, i \in Ids : rmsg[k] \in {req[i], res[i]} => rmsg[k] = NoMsg

\* A response goes out on the connection of its request, under the sequence
\* number of its request, with the bytes of its request: not with those of
\* another one, of another client perhaps, that has taken over the buffer.
NoCrosstalk == \A w \in out : w.id \in Ids /\ w.path = w.id /\ w.conn = w.id[1]

\* Which of its variables a goroutine uses at each point.
Holding ==
    /\ \A k \in Conns : rmsg[k] # NoMsg <=> rpc[k] \in {"read", "beat", "beaten"}
    /\ \A i \in Ids :
         /\ req[i] # NoMsg <=> pc[i] \in {"extract", "handle", "call", "error",
                                          "write", "freeReq"}
         /\ res[i] # NoMsg <=> pc[i] \in {"call", "error", "write", "freeReq", "freeRes"}

\* What a goroutine has decoded or cloned stays in its messages while it
\* uses them.
OwnBytes ==
    /\ \A k \in Conns : rpc[k] = "beat" =>
         /\ hdr[rmsg[k]] = <<k, read[k]>> /\ data[rmsg[k]] = <<k, read[k]>>
    /\ \A i \in Ids :
         /\ req[i] # NoMsg => hdr[req[i]] = i /\ data[req[i]] = i
         /\ res[i] # NoMsg => hdr[res[i]] = i

\* Requests are sent, read and answered in this order.
Progress ==
    /\ \A k \in Conns : /\ read[k] <= sent[k]
                        /\ rpc[k] \in {"beat", "beaten"} =>
                               /\ read[k] > 0
                               /\ kind[<<k, read[k]>>] = "heartbeat"
                        /\ rpc[k] = "beat" => answers[<<k, read[k]>>] = 0
    /\ \A i \in Ids : /\ kind[i] # "none" <=> i[2] <= sent[i[1]]
                      /\ pc[i] # "none" => i[2] <= read[i[1]] /\ kind[i] # "heartbeat"
                      /\ answers[i] <= 1
                      /\ answers[i] = 1 => /\ i[2] <= read[i[1]]
                                           /\ \/ kind[i] = "heartbeat"
                                              \/ pc[i] \in {"freeReq", "freeRes", "done"}

\* The strengthening under which all of the above is inductive.
IInv == /\ TypeOK /\ Exclusive /\ NoCrosstalk /\ Holding /\ OwnBytes /\ Progress

\* The server answers what it was asked, once, and nothing else.
Asked    == [i \in Ids |-> CASE kind[i] = "none" -> "no"
                             [] kind[i] = "heartbeat" -> "heartbeat"
                             [] OTHER -> "call"]
Answered == [i \in Ids |-> CASE answers[i] = 0 -> "none"
                             [] answers[i] = 1 -> "ok"
                             [] OTHER -> "twice"]

Peer == INSTANCE RPCPeer WITH Requests <- Ids, asked <- Asked, answered <- Answered

ImplementsRPCPeer == Peer!Spec

\* Heartbeats are answered however long the services of the same connection
\* take: requests are handled outside the goroutine that reads them.
HeartbeatsAnswered ==
    \A i \in Ids : kind[i] = "heartbeat" ~> answers[i] > 0 \/ line[i[1]] # "up"

-----------------------------------------------------------------------------
(* Statements of the repository that the code does not live up to.         *)

\* "If true, server won't send responses" (IsOneway).  It sends them.
OnewayUnanswered == \A w \in out : kind[w.id] # "oneway"

\* ServerError is "an error that has been returned from the remote side":
\* the goroutine of a request that failed does not end before the response
\* that handleError has built is written, as long as the connection is up.
\* The response is dropped.  (A request whose metadata cannot be read fails
\* before there is a response at all: ExtractFails.)
FailuresAnswered ==
    [][\A i \in Ids :
         kind[i] = "call" /\ pc[i] = "error" /\ pc'[i] = "done"
             => answers'[i] > 0 \/ line[i[1]] # "up"]_vars
=============================================================================
