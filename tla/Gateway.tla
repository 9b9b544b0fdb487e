------------------------------- MODULE Gateway -------------------------------
(***************************************************************************)
(* The stand-alone gateway (gateway/): HTTP handlers turn requests to one  *)
(* service into RPC calls.  GetClient makes a Client for the service when  *)
(* it finds none; selectRPCClient of that Client makes an RPCClient for    *)
(* the node when it finds none that works; the RPCClients are relatives of *)
(* those in client/, with an input and a keepalive goroutine each.         *)
(*                                                                         *)
(* One service and one node.  A Message is modelled by its identity and by *)
(* whose request or response it holds, because Messages are shared:        *)
(* handlers take theirs from the pool of protocol/pool.go and free the     *)
(* response, which is the Message into which input decodes all responses   *)
(* of its connection.  The peer, the network, etcd and sync.Pool are the   *)
(* environment; time and the order of dial attempts are left out.          *)
(* A definition marked "Wrong" is a plausible bug in the one after it,     *)
(* kept to see that the properties below reject it; nothing uses it.       *)
(***************************************************************************)
EXTENDS Naturals, FiniteSets

CONSTANTS
    Handlers,     \* HTTP requests
    Beats,        \* heartbeats that keepalive goroutines send
    Nobody,       \* nil
    MaxClients,   \* bound: Clients and RPCClients that are made
    MaxMessages,  \* bound: Messages that are made
    MaxSeq,       \* bound: sequence numbers of a connection
    MaxBreaks     \* bound: connections that break

Callers  == Handlers \cup Beats
Clients  == 1..MaxClients
Messages == 1..MaxMessages
Seqs     == 1..MaxSeq

ASSUME GatewayAssumption ==
    /\ Handlers \cap Beats = {} /\ Nobody \notin Callers
    /\ MaxClients \in Nat \ {0} /\ MaxMessages \in Nat /\ MaxSeq \in Nat /\ MaxBreaks \in Nat

\* What a Message holds: the request of somebody or a response to it.
Contents == [kind : {"req", "res"}, of : Callers \cup {Nobody}, seq : 0..MaxSeq,
             hb : BOOLEAN, err : BOOLEAN]
Blank == [kind |-> "req", of |-> Nobody, seq |-> 0, hb |-> FALSE, err |-> FALSE]

VARIABLES
    clientMap,  \* the Client of the service, or 0
    made,       \* Clients made
    cached,     \* the RPCClient in each Client's cachedClient, or 0
    dialled,    \* RPCClients made
    rpc,        \* each RPCClient: status, connection, seq, pending, and input
    call,       \* each handler or heartbeat, and the Call it makes
    free,       \* how often each Message is in the pool
    used,       \* Messages made
    content,    \* of each Message
    wire,       \* requests on their way to the peer and not answered yet
    breaks,
    panicked,
    response,   \* what each handler has written, or Blank
    overlap     \* history: two calls were under way at a time

listVars == <<clientMap, made, cached>>
poolVars == <<free, used>>
netVars  == <<wire, breaks>>
vars == <<listVars, dialled, rpc, call, poolVars, content, netVars, panicked, response,
          overlap>>

\* The call of somebody who makes none yet, or no more.
NoCall(pc) == [pc |-> pc, req |-> 0, client |-> 0, rpc |-> 0, conn |-> 0, seq |-> 0,
               reply |-> 0, failed |-> FALSE, ready |-> FALSE]

Init ==
    /\ clientMap = 0 /\ made = 0 /\ cached = [c \in Clients |-> 0] /\ dialled = 0
    /\ rpc = [k \in Clients |->
                [status |-> "none", conn |-> 0, up |-> FALSE, seq |-> 0,
                 pending |-> [s \in Seqs |-> Nobody],
                 input |-> "none", target |-> 0, inCall |-> Nobody]]
    /\ call = [c \in Callers |-> NoCall("idle")]
    /\ free = [m \in Messages |-> 0] /\ used = 0
    /\ content = [m \in Messages |-> Blank]
    /\ wire = {} /\ breaks = 0
    /\ panicked = FALSE
    /\ response = [h \in Handlers |-> Blank] /\ overlap = FALSE

At(c, here) == ~panicked /\ call[c].pc = here

\* Calls under way, and those whose response may still come.
Active == {c \in Callers : \/ call[c].pc \notin {"idle", "done"}
                           \/ \E k \in Clients, s \in Seqs :
                                  rpc[k].status # "Close" /\ rpc[k].pending[s] = c}

-----------------------------------------------------------------------------
(* The pool of Messages.                                                   *)

\* sync.Pool hands out one of those it has, and makes one when it has none.
GetPooledMsg(m) == \/ /\ free[m] > 0
                      /\ free' = [free EXCEPT ![m] = @ - 1] /\ UNCHANGED used
                   \/ /\ (\A n \in Messages : free[n] = 0) /\ m = used + 1
                      /\ used' = m /\ UNCHANGED free

\* FreeMsg resets a Message and puts it into the pool, be it there or in use.
FreeMsgs(S, twice) ==
    /\ free' = [m \in Messages |-> free[m] + IF m \notin S THEN 0 ELSE IF twice THEN 2 ELSE 1]
    /\ content' = [m \in Messages |-> IF m \in S THEN Blank ELSE content[m]]

-----------------------------------------------------------------------------
(* handleRequest and GetClient.                                            *)

\* The request is taken from HTTP into a pooled Message.  (One that is refused
\* with 400 changes nothing.)
Begin(h) ==
    /\ At(h, "idle")
    /\ \E m \in Messages :
         /\ GetPooledMsg(m)
         /\ content' = [content EXCEPT ![m] = [Blank EXCEPT !.of = h]]
         /\ call' = [call EXCEPT ![h].pc = "getClient", ![h].req = m]
    /\ overlap' = (overlap \/ Active # {})
    /\ UNCHANGED <<listVars, dialled, rpc, netVars, panicked, response>>

GetClient(h) ==
    /\ At(h, "getClient")
    /\ call' = IF clientMap = 0 THEN [call EXCEPT ![h].pc = "makeClient"]
               ELSE [call EXCEPT ![h].pc = "select", ![h].client = clientMap]
    /\ UNCHANGED <<listVars, dialled, rpc, poolVars, content, netVars, panicked, response,
                   overlap>>

\* Nobody looks whether another handler has made one.
MakeClient(h) ==
    /\ At(h, "makeClient") /\ made < MaxClients
    /\ made' = made + 1 /\ clientMap' = made'
    /\ call' = [call EXCEPT ![h].pc = "select", ![h].client = made']
    /\ UNCHANGED <<cached, dialled, rpc, poolVars, content, netVars, panicked, response,
                   overlap>>

\* Error 500: the request is freed.  There may be no reply to be freed.
Fail(h) ==
    /\ call' = [call EXCEPT ![h] = NoCall("done")]
    /\ FreeMsgs({call[h].req, call[h].reply} \ {0}, call[h].req = call[h].reply)
    /\ UNCHANGED <<listVars, dialled, rpc, used, netVars, panicked, response, overlap>>

\* Of GetClient, of selectRPCClient, or of the call.
HandlerFails(h) == /\ \/ \E here \in {"makeClient", "select", "dial"} : At(h, here)
                      \/ At(h, "reply") /\ call[h].failed
                   /\ Fail(h)

\* Wrong: the Messages are freed before the payload is written.
FinishFreesFirst(h) ==
    /\ At(h, "reply") /\ ~call[h].failed
    /\ response' = [response EXCEPT ![h] = [Blank EXCEPT !.kind = "res"]]
    /\ call' = [call EXCEPT ![h] = NoCall("done")]
    /\ FreeMsgs({call[h].req, call[h].reply} \ {0}, call[h].req = call[h].reply)
    /\ UNCHANGED <<listVars, dialled, rpc, used, netVars, panicked, overlap>>

\* The payload of the reply is written, and both Messages are freed.
Finish(h) ==
    /\ At(h, "reply") /\ ~call[h].failed
    /\ response' = [response EXCEPT ![h] = content[call[h].reply]]
    /\ call' = [call EXCEPT ![h] = NoCall("done")]
    /\ FreeMsgs({call[h].req, call[h].reply} \ {0}, call[h].req = call[h].reply)
    /\ UNCHANGED <<listVars, dialled, rpc, used, netVars, panicked, overlap>>

-----------------------------------------------------------------------------
(* selectRPCClient and NewRPCClient.                                       *)

Select(h) ==
    LET k == cached[call[h].client] IN
    /\ At(h, "select")
    /\ call' = IF k = 0 THEN [call EXCEPT ![h].pc = "dial"]
               ELSE IF rpc[k].status \in {"Close", "ReconnectFail"}
                    THEN [call EXCEPT ![h].pc = "dial"]
                    ELSE [call EXCEPT ![h].pc = "send", ![h].rpc = k]
    /\ UNCHANGED <<listVars, dialled, rpc, poolVars, content, netVars, panicked, response,
                   overlap>>

\* input decodes into a Message of its own, which it makes.
NewRPCClient(r, m) == [r EXCEPT !.status = "Available", !.conn = 1, !.up = TRUE,
                                !.input = "read", !.target = m]

\* The new RPCClient takes the place of whichever is there.
Dial(h) ==
    LET k == dialled + 1 IN
    /\ At(h, "dial") /\ dialled < MaxClients /\ used < MaxMessages
    /\ dialled' = k
    /\ used' = used + 1
    /\ rpc' = [rpc EXCEPT ![k] = NewRPCClient(@, used + 1)]
    /\ cached' = [cached EXCEPT ![call[h].client] = k]
    /\ call' = [call EXCEPT ![h].pc = "send", ![h].rpc = k]
    /\ UNCHANGED <<clientMap, made, free, content, netVars, panicked, response, overlap>>

-----------------------------------------------------------------------------
(* send and Call, for handlers and for heartbeats.                         *)

\* sendHeartBeat: whatever comes of it, it returns nil, and keepalive goes on.
Beat(b, k) ==
    /\ At(b, "idle")
    /\ rpc[k].status = "Available"
    /\ \A d \in Beats : call[d].rpc # k
    /\ \E m \in Messages :
         /\ GetPooledMsg(m)
         /\ content' = [content EXCEPT ![m] = [Blank EXCEPT !.of = b, !.hb = TRUE]]
         /\ call' = [call EXCEPT ![b].pc = "send", ![b].req = m, ![b].rpc = k]
    /\ overlap' = (overlap \/ Active # {})
    /\ UNCHANGED <<listVars, dialled, rpc, netVars, panicked, response>>

\* The first critical section of send.
Register(c) ==
    LET k == call[c].rpc IN LET s == rpc[k].seq + 1 IN
    /\ At(c, "send")
    /\ IF rpc[k].status # "Available"
       THEN /\ call' = [call EXCEPT ![c].pc = "wait", ![c].failed = TRUE, ![c].ready = TRUE]
            /\ UNCHANGED rpc
       ELSE /\ s <= MaxSeq
            /\ rpc' = [rpc EXCEPT ![k].seq = s, ![k].pending[s] = c]
            /\ call' = [call EXCEPT ![c].pc = "setSeq", ![c].seq = s,
                                    ![c].conn = rpc[k].conn]
    /\ UNCHANGED <<listVars, dialled, poolVars, content, netVars, panicked, response, overlap>>

SetSeq(c) ==
    /\ At(c, "setSeq")
    /\ content' = [content EXCEPT ![call[c].req].seq = call[c].seq]
    /\ call' = [call EXCEPT ![c].pc = "write"]
    /\ UNCHANGED <<listVars, dialled, rpc, poolVars, netVars, panicked, response, overlap>>

\* Encode and Write: what is in the Message by now.
Write(c) ==
    LET k == call[c].rpc IN
    /\ At(c, "write")
    /\ wire' = IF rpc[k].up /\ rpc[k].conn = call[c].conn
               THEN wire \cup {[rpc |-> k, msg |-> content[call[c].req], from |-> c]}
               ELSE wire
    /\ call' = [call EXCEPT ![c].pc = "wait"]
    /\ UNCHANGED <<listVars, dialled, rpc, poolVars, content, breaks, panicked, response,
                   overlap>>

\* call.done, with a reply or an error.  What a heartbeat that has timed out is
\* given is not looked at.
Ends(c, reply, failed) ==
    IF call[c].pc = "done" THEN call[c]
    ELSE [call[c] EXCEPT !.ready = TRUE, !.failed = @ \/ failed,
                         !.reply = IF reply = 0 THEN @ ELSE reply]

WriteFails(c) ==
    LET k == call[c].rpc IN LET p == rpc[k].pending[call[c].seq] IN
    /\ At(c, "write")
    /\ ~rpc[k].up \/ rpc[k].conn # call[c].conn
    /\ rpc' = [rpc EXCEPT ![k].pending[call[c].seq] = Nobody]
    /\ call' = [call EXCEPT ![c] = [(IF p = c THEN Ends(c, 0, TRUE) ELSE @) EXCEPT !.pc = "wait"]]
    /\ UNCHANGED <<listVars, dialled, poolVars, content, netVars, panicked, response, overlap>>

\* Call returns.  The request of a heartbeat is never freed.
Receive(c) ==
    /\ At(c, "wait") /\ call[c].ready
    /\ call' = [call EXCEPT ![c] = IF c \in Beats THEN NoCall("done")
                                   ELSE [@ EXCEPT !.pc = "reply", !.ready = FALSE]]
    /\ UNCHANGED <<listVars, dialled, rpc, poolVars, content, netVars, panicked, response,
                   overlap>>

\* Heartbeats have a deadline; handlers call with a context that has none.
TimeOut(b) ==
    /\ b \in Beats /\ At(b, "wait")
    /\ call' = [call EXCEPT ![b] = NoCall("done")]
    /\ UNCHANGED <<listVars, dialled, rpc, poolVars, content, netVars, panicked, response,
                   overlap>>

-----------------------------------------------------------------------------
(* The input goroutine of RPCClient k.                                     *)

InputAt(k, here) == ~panicked /\ rpc[k].input = here

\* All responses are decoded into one Message.  The peer answers requests in any
\* order, each once or never; a response that input's reader has buffered behind
\* another, and loses, is as one that never came.
Read(k) ==
    /\ InputAt(k, "read") /\ rpc[k].up
    /\ \E w \in wire, e \in BOOLEAN :
         /\ w.rpc = k /\ w.msg.of # Nobody /\ ~(w.msg.hb /\ e)
         /\ wire' = wire \ {w}
         /\ content' = [content EXCEPT ![rpc[k].target] =
                          [w.msg EXCEPT !.kind = "res", !.err = e]]
    /\ rpc' = [rpc EXCEPT ![k].input = "got"]
    /\ UNCHANGED <<listVars, dialled, call, poolVars, breaks, panicked, response, overlap>>

Lookup(k) ==
    LET s == content[rpc[k].target].seq IN
    /\ InputAt(k, "got")
    /\ rpc' = IF s = 0 THEN [rpc EXCEPT ![k].input = "handle"]
              ELSE [rpc EXCEPT ![k].input = "handle", ![k].inCall = rpc[k].pending[s],
                               ![k].pending[s] = Nobody]
    /\ UNCHANGED <<listVars, dialled, call, poolVars, content, netVars, panicked, response,
                   overlap>>

CheckReplyError(m) == content[m].err

\* The call is given the Message before it is looked at.
Handle(k) ==
    LET c == rpc[k].inCall
        m == rpc[k].target IN
    /\ InputAt(k, "handle")
    /\ IF c = Nobody
       THEN panicked' = TRUE /\ UNCHANGED call
       ELSE /\ call' = [call EXCEPT ![c] = Ends(c, m, CheckReplyError(m) /\ ~content[m].hb)]
            /\ UNCHANGED panicked
    /\ rpc' = [rpc EXCEPT ![k].input = "read", ![k].inCall = Nobody]
    /\ UNCHANGED <<listVars, dialled, poolVars, content, netVars, response, overlap>>

ReadError(k) ==
    /\ InputAt(k, "read") /\ ~rpc[k].up
    /\ rpc' = [rpc EXCEPT ![k].input = "dial", ![k].status = "Reconnect"]
    /\ UNCHANGED <<listVars, dialled, call, poolVars, content, netVars, panicked, response,
                   overlap>>

Reconnect(k) ==
    /\ InputAt(k, "dial")
    /\ rpc' = [rpc EXCEPT ![k].input = "read", ![k].status = "Available", ![k].up = TRUE,
                          ![k].conn = @ + 1]
    /\ UNCHANGED <<listVars, dialled, call, poolVars, content, netVars, panicked, response,
                   overlap>>

GiveUp(k) ==
    /\ InputAt(k, "dial")
    /\ rpc' = [rpc EXCEPT ![k].input = "close", ![k].status = "ReconnectFail"]
    /\ UNCHANGED <<listVars, dialled, call, poolVars, content, netVars, panicked, response,
                   overlap>>

\* Wrong: the calls are left pending.
CloseSilent(k) ==
    /\ InputAt(k, "close")
    /\ rpc' = [rpc EXCEPT ![k].input = "ended", ![k].status = "Close"]
    /\ UNCHANGED <<listVars, dialled, call, poolVars, content, netVars, panicked, response,
                   overlap>>

\* close, called without the mutex.
Close(k) ==
    /\ InputAt(k, "close")
    /\ rpc' = [rpc EXCEPT ![k].input = "ended", ![k].status = "Close"]
    /\ call' = [c \in Callers |-> IF \E s \in Seqs : rpc[k].pending[s] = c
                                  THEN Ends(c, 0, TRUE) ELSE call[c]]
    /\ UNCHANGED <<listVars, dialled, poolVars, content, netVars, panicked, response, overlap>>

-----------------------------------------------------------------------------
(* The network.                                                            *)

Break(k) ==
    /\ ~panicked /\ rpc[k].up /\ breaks < MaxBreaks
    /\ breaks' = breaks + 1
    /\ rpc' = [rpc EXCEPT ![k].up = FALSE]
    /\ wire' = {w \in wire : w.rpc # k}
    /\ UNCHANGED <<listVars, dialled, call, poolVars, content, panicked, response, overlap>>

-----------------------------------------------------------------------------
HandlerStep(h) == \/ GetClient(h) \/ MakeClient(h) \/ HandlerFails(h) \/ Select(h)
                  \/ Dial(h) \/ Finish(h)

Call(c) == Register(c) \/ SetSeq(c) \/ Write(c) \/ WriteFails(c) \/ Receive(c) \/ TimeOut(c)

Input(k) == \/ Lookup(k) \/ Handle(k) \/ ReadError(k)
            \/ Reconnect(k) \/ GiveUp(k) \/ Close(k)

Next == \/ \E h \in Handlers : Begin(h) \/ HandlerStep(h)
        \/ \E b \in Beats, k \in Clients : Beat(b, k)
        \/ \E c \in Callers : Call(c)
        \/ \E k \in Clients : Read(k) \/ Input(k) \/ Break(k)

Spec == Init /\ [][Next]_vars

\* Goroutines are scheduled; the peer need not answer.
FairSpec == /\ Spec
            /\ \A h \in Handlers : WF_vars(HandlerStep(h))
            /\ \A c \in Callers : WF_vars(Call(c))
            /\ \A k \in Clients : WF_vars(Input(k))

-----------------------------------------------------------------------------
(* Properties.                                                             *)

ListTypes ==
    /\ made \in 0..MaxClients /\ clientMap \in 0..made
    /\ dialled \in 0..MaxClients /\ cached \in [Clients -> 0..dialled]

RpcClients ==
    [status : {"none", "Available", "Reconnect", "ReconnectFail", "Close"},
     conn : Nat, up : BOOLEAN, seq : 0..MaxSeq, pending : [Seqs -> Callers \cup {Nobody}],
     input : {"none", "read", "got", "handle", "dial", "close", "ended"},
     target : 0..used, inCall : Callers \cup {Nobody}]

Calls ==
    [pc : {"idle", "getClient", "makeClient", "select", "dial", "send", "setSeq", "write",
           "wait", "reply", "done"},
     req : 0..used, client : 0..made, rpc : 0..dialled, conn : Nat, seq : 0..MaxSeq,
     reply : 0..used, failed : BOOLEAN, ready : BOOLEAN]

RpcTypes  == rpc \in [Clients -> RpcClients]
CallTypes == call \in [Callers -> Calls]

MessageTypes ==
    /\ used \in 0..MaxMessages /\ free \in [Messages -> Nat]
    /\ content \in [Messages -> Contents] /\ response \in [Handlers -> Contents]
    /\ wire \subseteq [rpc : Clients, msg : Contents, from : Callers]
    /\ breaks \in 0..MaxBreaks /\ panicked \in BOOLEAN /\ overlap \in BOOLEAN

TypeOK == ListTypes /\ RpcTypes /\ CallTypes /\ MessageTypes

\* A handler that has its gateway to itself is given the response to its own
\* request, and input finds a call for every response, although the Message
\* that a handler frees remains the one into which input decodes: from one
\* handler to the next, to heartbeats and over reconnections.
AloneRight ==
    ~overlap => /\ ~panicked
                /\ \A h \in Handlers : response[h] # Blank =>
                       response[h].kind = "res" /\ response[h].of = h /\ ~response[h].hb

(* What it takes for AloneRight to be inductive.                           *)

\* Goroutines have what they are about to use: a request, an RPCClient, a reply.
Prepared(c) ==
    /\ call[c].pc \in {"getClient", "makeClient", "select", "dial", "send", "setSeq", "write"}
         => call[c].req # 0
    /\ call[c].pc \in {"select", "dial"} => call[c].client # 0
    /\ call[c].pc \in {"send", "setSeq", "write"} => call[c].rpc # 0
    /\ (call[c].ready \/ call[c].pc = "reply") /\ ~call[c].failed => call[c].reply # 0

Held ==
    /\ \A c \in Callers : Prepared(c)
    /\ \A k \in Clients : rpc[k].input \in {"read", "got", "handle"} => rpc[k].target # 0
    /\ \A m \in Messages : free[m] > 0 => m <= used

\* A connection is up only while input is there to read from it.
Connected ==
    \A k \in Clients :
        /\ rpc[k].input \in {"read", "got", "handle"} => rpc[k].status = "Available"
        /\ rpc[k].up => rpc[k].input \in {"read", "got", "handle"}
        /\ rpc[k].status = "Close" => rpc[k].input = "ended"
        /\ k > dialled => rpc[k].input = "none" /\ rpc[k].status = "none"

\* The call of c has registered with RPCClient k under s, if it is not over.
Owns(c, k, s) == \/ call[c].pc = "done"
                 \/ /\ call[c].pc \in {"setSeq", "write", "wait", "reply"}
                    /\ call[c].rpc = k /\ call[c].seq = s

\* A call is pending only where it has registered, and once.
Registered ==
    /\ \A k, l \in Clients, s, t \in Seqs :
         rpc[k].pending[s] # Nobody /\ rpc[k].pending[s] = rpc[l].pending[t]
             => k = l /\ s = t
    /\ \A k \in Clients, s \in Seqs, c \in Callers :
         rpc[k].pending[s] = c => Owns(c, k, s)

\* A call on RPCClient k that nobody has completed.
Awaits(c, k) == \/ c \in Beats /\ call[c].pc = "done"
                \/ /\ call[c].pc = "wait" /\ call[c].rpc = k
                   /\ ~call[c].ready /\ ~call[c].failed

\* Messages that hold the request of c and a response to it.
Asks(m, c, s) == m.kind = "req" /\ m.of = c /\ m.seq = s /\ m.hb = (c \in Beats) /\ ~m.err
Answers(m, c) == m.kind = "res" /\ m.of = c /\ m.hb = (c \in Beats)

\* At most one call is under way.
Lone == \A c, d \in Active : c = d

\* A caller's request keeps what the caller has put into it, and its call is
\* pending, or completed by close, when it is about to be written, ...
Sends(c) ==
    /\ call[c].pc \in {"idle", "getClient", "makeClient", "select", "dial", "send"}
         => ~call[c].ready /\ ~call[c].failed
    /\ call[c].pc \in {"getClient", "makeClient", "select", "dial", "send", "setSeq"}
         => Asks(content[call[c].req], c, 0)
    /\ call[c].pc = "write" => Asks(content[call[c].req], c, call[c].seq)
    /\ call[c].pc \in {"setSeq", "write"} =>
         /\ call[c].seq \in Seqs /\ (call[c].ready => call[c].failed)
         /\ rpc[call[c].rpc].status # "Close" =>
              /\ rpc[call[c].rpc].pending[call[c].seq] = c
              /\ ~call[c].ready /\ ~call[c].failed

Sending == \A c \in Callers : Sends(c)

\* ... and is on the wire only while its call is pending.
Asked ==
    \A w \in wire :
        /\ rpc[w.rpc].up /\ w.msg.seq \in Seqs
        /\ Asks(w.msg, w.from, w.msg.seq) /\ Awaits(w.from, w.rpc)
        /\ rpc[w.rpc].pending[w.msg.seq] = w.from

\* What input has decoded answers the call that is pending under its number, ...
Got ==
    \A k \in Clients : rpc[k].input = "got" =>
        LET m == content[rpc[k].target] IN
        /\ m.seq \in Seqs /\ m.of \in Callers /\ rpc[k].pending[m.seq] = m.of
        /\ Answers(m, m.of) /\ Awaits(m.of, k) /\ wire = {}

\* ... or the call that input has found, unless that has timed out.
InHand ==
    \A k \in Clients : rpc[k].input = "handle" =>
        LET c == rpc[k].inCall IN
        /\ c \in Callers /\ Awaits(c, k)
        /\ \A l \in Clients, s \in Seqs : rpc[l].pending[s] # c
        /\ call[c].pc = "wait" => Answers(content[rpc[k].target], c)

\* The reply of a handler remains the response to its request until it is written.
Replied ==
    \A h \in Handlers :
        /\ call[h].ready => call[h].pc # "done"
        /\ (call[h].ready \/ call[h].pc = "reply") /\ ~call[h].failed
             => Answers(content[call[h].reply], h)

Alone == ~overlap => Lone /\ Sending /\ Asked /\ Got /\ InHand /\ Replied

\* The strengthening that GatewayProofs shows to be inductive.
IInv == TypeOK /\ Held /\ Connected /\ Registered /\ Alone /\ AloneRight

\* No call is left to wait for ever, also where handlers overlap and are given
\* one another's responses: one that send has registered and nobody has
\* completed is pending under its number, on an RPCClient that has not been
\* closed, or input has just taken it out and is about to complete it.
NoLostCall ==
    \A c \in Callers :
        call[c].pc \in {"setSeq", "write", "wait"} /\ ~call[c].ready
            => LET r == rpc[call[c].rpc] IN
               /\ call[c].rpc # 0 /\ r.status # "Close"
               /\ \/ call[c].seq # 0 /\ r.pending[call[c].seq] = c
                  \/ r.input = "handle" /\ r.inCall = c

\* What it takes: an RPCClient hands out each number once, ...
Numbered ==
    /\ \A c \in Callers : call[c].seq # 0 =>
         call[c].rpc # 0 /\ call[c].seq <= rpc[call[c].rpc].seq
    /\ \A c, d \in Callers :
         call[c].seq # 0 /\ call[c].rpc = call[d].rpc /\ call[c].seq = call[d].seq => c = d
    /\ \A k \in Clients, s \in Seqs : rpc[k].pending[s] # Nobody => s <= rpc[k].seq
    /\ \A c \in Callers : call[c].pc \in {"setSeq", "write"} => call[c].seq # 0

\* ... and a call that has not been registered has none, nor a result.
Unnumbered ==
    \A c \in Callers :
        call[c].pc \in {"idle", "getClient", "makeClient", "select", "dial", "send"}
            => call[c].seq = 0

\* The strengthening of NoLostCall, inductive together with IInv.
NoneLost == NoLostCall /\ Numbered /\ Unnumbered

\* When an RPCClient has given up, no handler waits for it: those that it had
\* registered, also during the reconnection, and those that come later return.
HandlersReturn ==
    \A h \in Handlers :
        (\E k \in Clients : call[h].rpc = k /\ rpc[k].status = "Close")
            ~> call[h].pc = "done" \/ panicked
=============================================================================
