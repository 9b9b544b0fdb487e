------------------------------ MODULE Exchange ------------------------------
(***************************************************************************)
(* Requests and responses as bytes: createRequest and input of the client  *)
(* (client/rpcclient.go), readRequest, handleRequest and writeResponse of  *)
(* the server (server/), its HTTP gateway (server/gateway.go), and the     *)
(* Messages of protocol/ that all of them use again and again.  One        *)
(* connection, and one pool: a process that serves may call others.  The   *)
(* connection is a stream in each direction; when it breaks, and who owns  *)
(* a Message, are in RPCClient and ServerConn.  HTTP requests come on      *)
(* connections of their own, which net/http serves.                        *)
(* Decoding arguments, services and encoding their replies are left out.   *)
(***************************************************************************)
EXTENDS Message

CONSTANTS
    Asks,      \* calls as users make them: what createRequest reads of a Call
    Posts,     \* HTTP requests: what handleGatewayRequest reads of one
    Replies,   \* what services reply: payload, and metadata by SendMetaData
    Field,     \* the keys of metadata that carry a tracing span, and the field
               \* each stands for: in lower case, and without prefix for baggage
    Parsable,  \* the texts from which the field of each of them can be parsed:
               \* a number, a truth value, or anything for baggage
    AuthKey,   \* the key of metadata for the HTTP header Authorization
    MaxCalls   \* bound: calls and HTTP requests that are made

Calls == 1..MaxCalls
SpanKeys == DOMAIN Field

\* Users pass texts and maps of texts.  Eight bytes are enough for a number.
ASSUME ExchangeAssumption ==
    /\ MaxCalls \in Nat /\ EightBytes(MaxCalls)
    /\ \A c \in Asks :
         /\ {c.servicePath, c.serviceMethod, c.args} \subseteq Texts
         /\ IsMetadata(c.metadata) /\ IsMetadata(c.span) /\ DOMAIN c.span \subseteq SpanKeys
         /\ c.serializeType \in SerializeNone..Thrift /\ c.heartBeat \in BOOLEAN
    /\ \A p \in Posts : /\ p.messageID \in Nat /\ p.serializeType \in Nat
                        /\ p.heartBeat \in BOOLEAN /\ p.oneway \in BOOLEAN
    /\ \A r \in Replies : r.payload \in Texts /\ IsMetadata(r.metadata)

VARIABLES
    asked,     \* the calls made; their positions are their numbers
    posted,    \* the HTTP requests, and what has become of them
    up, down,  \* bytes on their way to the server, and to the client
    pool,      \* what the Messages in msgPool hold
    reqs,      \* requests that the server has decoded and not yet answered
    given,     \* history: what the service of each call replied
    resp,      \* the Message into which input decodes
    got        \* what input found for each call

vars == <<asked, posted, up, down, pool, reqs, given, resp, got>>

Init == /\ asked = <<>> /\ posted = <<>> /\ up = <<>> /\ down = <<>> /\ pool = {} /\ reqs = {}
        /\ given = <<>> /\ resp = NewMessage /\ got = <<>>

GetPooledMsg == pool \cup {NewMessage}

FreeMsgs(S) == pool' = pool \cup {Reset(m) : m \in S}

More == Len(asked) + Len(posted) < MaxCalls

-----------------------------------------------------------------------------
(* The client sends.                                                       *)

\* extractMdFromClientCtx: what the context has for the service, and a span.
ExtractMd(c) == Over(c.span, c.metadata)

\* createRequest, in message m.  Raw calls have no payload.
CreateRequest(m, c, seq) ==
    LET h1 == SetHeartbeat(m.header, c.heartBeat)
        h2 == IF c.compressType # None THEN SetCompressType(h1, Gzip) ELSE h1
        h3 == SetSeq(h2, seq)
        coded == c.serializeType # SerializeNone
    IN  [m EXCEPT !.servicePath   = c.servicePath,
                  !.serviceMethod = c.serviceMethod,
                  !.header   = IF coded THEN SetSerializeType(h3, c.serializeType) ELSE h3,
                  !.metadata = IF ExtractMd(c) # NoMetadata THEN ExtractMd(c) ELSE @,
                  !.payload  = IF coded THEN c.args ELSE @]

\* The request is not put into the pool again.
Send(c) ==
    /\ More
    /\ asked' = Append(asked, c)
    /\ \E m \in GetPooledMsg :
         \E b \in Encode(CreateRequest(m, c, Len(asked) + 1)) : up' = up \o b
    /\ UNCHANGED <<posted, down, pool, reqs, given, resp, got>>

-----------------------------------------------------------------------------
(* The server.                                                             *)

\* serveConn: a request is kept for its own goroutine, a heartbeat goes back
\* as it came.
Receive ==
    /\ up # <<>> /\ ~DecodeFails(up)
    /\ up' = SubSeq(up, Length(up) + 1, Len(up))
    /\ \E m \in GetPooledMsg :
         LET req == Decode(m, up) IN
         IF IsHeartbeat(req.header)
         THEN LET res == [req EXCEPT !.header = SetMessageType(@, Response)] IN
              /\ \E b \in Encode(res) : down' = down \o b
              /\ FreeMsgs({res})
              /\ UNCHANGED reqs
         ELSE /\ reqs' = reqs \cup {req}
              /\ UNCHANGED <<down, pool>>
    /\ UNCHANGED <<asked, posted, given, resp, got>>

\* extractClientMdContexFromMd: the context has the span apart from the rest,
\* each field with what was parsed, for which its text stands.
ExtractFails(md) == \E k \in DOMAIN md \cap SpanKeys : md[k] \notin Parsable[k]
Common(md) == Restrict(md, DOMAIN md \ SpanKeys)
Span(md)   == {<<Field[k], md[k]>> : k \in DOMAIN md \cap SpanKeys}

\* handleRequest: it begins with a clone of req, made of message c from the
\* pool.  The service sets the metadata, or leaves it, and replies.
HandleRequest(req, c, r) ==
    [Clone(req, c) EXCEPT
        !.header   = SetMessageType(@, Response),
        !.metadata = IF r.metadata # NoMetadata THEN r.metadata ELSE @,
        !.payload  = IF IsOneway(req.header) THEN @ ELSE r.payload]

\* handleTrueRequest.
Handle(req) ==
    /\ ~ExtractFails(req.metadata)
    /\ \E c \in GetPooledMsg, r \in Replies :
         LET res == HandleRequest(req, c, r)
         IN  /\ \E b \in Encode(res) : down' = down \o b
             /\ given' = Over(Pair(Seq8(req.header), r), given)
             /\ FreeMsgs({req, res})
    /\ reqs' = reqs \ {req}
    /\ UNCHANGED <<asked, posted, up, resp, got>>

\* The error response is dropped, and not freed.
HandleFails(req) == /\ FreeMsgs({req})
                    /\ reqs' = reqs \ {req}
                    /\ UNCHANGED <<asked, posted, up, down, given, resp, got>>

-----------------------------------------------------------------------------
(* The HTTP gateway of the server.                                         *)

LowerCase(s) == [i \in DOMAIN s |-> IF s[i] \in 65..90 THEN s[i] + 32 ELSE s[i]]

\* HTTPRequest2EmRpcRequest, in message m, and the assignments after it.
HTTPRequest2EmRpcRequest(m, p) ==
    LET h1 == SetMessageType(m.header, Request)
        h2 == IF p.heartBeat THEN SetHeartbeat(h1, TRUE) ELSE h1
        h3 == IF p.oneway THEN SetOneway(h2, TRUE) ELSE h2
        meta == IF p.metadata # NoMetadata THEN p.metadata ELSE m.metadata
    IN  [m EXCEPT !.servicePath   = LowerCase(p.servicePath),
                  !.serviceMethod = LowerCase(p.serviceMethod),
                  !.header   = SetSerializeType(SetSeq(h3, p.messageID), p.serializeType),
                  !.metadata = IF p.auth # <<>> THEN Over(Pair(AuthKey, p.auth), meta) ELSE meta,
                  !.payload  = p.body]

NoReply == [metadata |-> NoMetadata, payload |-> <<>>]

\* Status codes, and two of our own: not answered yet, and never.
Open == 0
Aborted == 1

\* handleGatewayRequest reads the request.  One with a missing or malformed
\* header, or whose body cannot be read, is answered 400; a Message taken for
\* it is not put back.
Post(p) ==
    /\ More
    /\ \E m \in GetPooledMsg :
         posted' = Append(posted,
             [post |-> p, req |-> HTTPRequest2EmRpcRequest(m, p),
              code |-> IF p.malformed THEN 400 ELSE Open,
              given |-> NoReply, reply |-> NoReply])
    /\ UNCHANGED <<asked, up, down, pool, reqs, given, resp, got>>

\* The rest of handleGatewayRequest: reply is written, and the Messages freed.
Write(i, code, r, reply, freed) ==
    /\ posted[i].code = Open
    /\ posted' = [posted EXCEPT ![i] = [@ EXCEPT !.code = code, !.given = r, !.reply = reply]]
    /\ FreeMsgs(freed)
    /\ UNCHANGED <<asked, up, down, reqs, given, resp, got>>

\* The service is found, called, and its reply encoded.  Of the response only
\* the metadata and the payload are written.
AnswerPost(i) ==
    \E c \in GetPooledMsg, r \in Replies :
        LET res == HandleRequest(posted[i].req, c, r)
        IN  Write(i, 200, r, [metadata |-> res.metadata, payload |-> res.payload],
                  {posted[i].req, res})

\* handleRequest fails.  Here, unlike in HandleFails, the one who asked learns
\* of it, and the response is freed.
FailPost(i) ==
    \E c \in GetPooledMsg :
        LET res == [Clone(posted[i].req, c) EXCEPT
                       !.header = SetMessageStatusType(SetMessageType(@, Response), Error)]
        IN  Write(i, 500, NoReply, NoReply, {posted[i].req, res})

\* The span cannot be read, the error is ignored, and handleRequest has no
\* context: WithValue panics, from which net/http recovers.  Before Go 1.15 it
\* did not, and the service gets a context without a parent: AnswerPost.
AbortPost(i) == /\ ExtractFails(posted[i].req.metadata)
                /\ Write(i, Aborted, NoReply, NoReply, {posted[i].req})

-----------------------------------------------------------------------------
\* input: all responses are decoded into one Message, which is never reset.
Read ==
    /\ down # <<>> /\ ~DecodeFails(down)
    /\ resp' = Decode(resp, down)
    /\ down' = SubSeq(down, Length(down) + 1, Len(down))
    /\ got' = LET found == [heartBeat     |-> IsHeartbeat(resp'.header),
                            ok            |-> MessageStatusType(resp'.header) # Error,
                            serializeType |-> SerializeType(resp'.header),
                            payload       |-> resp'.payload,
                            metadata      |-> resp'.metadata]
               IN  Over(Pair(Seq8(resp'.header), found), got)
    /\ UNCHANGED <<asked, posted, up, pool, reqs, given>>

Next == \/ \E c \in Asks : Send(c)
        \/ Receive
        \/ \E req \in reqs : Handle(req) \/ HandleFails(req)
        \/ Read
        \/ \E p \in Posts : Post(p)
        \/ \E i \in DOMAIN posted : AnswerPost(i) \/ FailPost(i) \/ AbortPost(i)

Spec == Init /\ [][Next]_vars

-----------------------------------------------------------------------------
\* The length of every message fits the four bytes that the code has for it.
ASSUME LengthAssumption ==
    \A c \in Asks, s \in Calls :
        LET req == CreateRequest(NewMessage, c, s) IN
        FitsWire(req) /\ \A r \in Replies : FitsWire(HandleRequest(req, NewMessage, r))

-----------------------------------------------------------------------------
(* Properties.                                                             *)

\* What a service finds in its request is what its caller asked: nothing is
\* left in a pooled Message of the request, response or heartbeat before, over
\* HTTP or not.  Its context has the metadata and the span of the caller's.
RequestsArrive ==
    \A m \in reqs :
        LET c == asked[Seq8(m.header)] IN
        /\ m.servicePath = c.servicePath /\ m.serviceMethod = c.serviceMethod
        /\ ~ExtractFails(m.metadata) /\ c.metadata = Common(c.metadata) =>
               Common(m.metadata) = c.metadata /\ Span(m.metadata) = Span(c.span)
        /\ m.payload = IF c.serializeType = SerializeNone THEN <<>> ELSE c.args
        /\ SerializeType(m.header) = c.serializeType
        /\ MessageType(m.header) = Request /\ ~IsOneway(m.header)

\* The metadata that the server sends back for call s.
AnswerMetadata(s) == IF asked[s].heartBeat THEN ExtractMd(asked[s]) ELSE given[s].metadata

\* What input finds in a response is the payload that the service of the same
\* call replied, to be decoded as the request was encoded; a heartbeat's
\* response is known as one.  The metadata are those that this service sent,
\* if it sent any.  If it sent none, the caller is given whatever an earlier
\* response has left in the one Message of input, and this can be nothing but
\* the metadata of an answer that came on the same connection.
ResponsesArrive ==
    \A s \in DOMAIN got :
        /\ s \in DOMAIN asked
        /\ got[s].ok
        /\ got[s].heartBeat = asked[s].heartBeat
        /\ got[s].serializeType = asked[s].serializeType
        /\ ~got[s].heartBeat => /\ s \in DOMAIN given
                                /\ got[s].payload = given[s].payload
                                /\ \E t \in DOMAIN got :
                                       /\ t = s \/ given[s].metadata = NoMetadata
                                       /\ got[s].metadata = AnswerMetadata(t)

\* What GetMetadataFromServer is for: a caller finds the metadata that the
\* service of its own call sent.  It does not hold: Decode assigns metadata
\* only when there are any, and input never resets its Message.
MetadataArrives ==
    \A s \in DOMAIN got : ~got[s].heartBeat => got[s].metadata = given[s].metadata

\* An HTTP client that is answered 200 gets the metadata and the payload of
\* its own service, and nothing when it asked one way, whichever Messages of
\* the RPC connection were reused for it; its request is not taken for a
\* compressed one or for a response.
PostsAnswered ==
    \A i \in DOMAIN posted :
        LET p == posted[i] IN
        /\ p.code = Open =>
               /\ p.req.metadata = IF p.post.auth = <<>> THEN p.post.metadata
                                   ELSE Over(Pair(AuthKey, p.post.auth), p.post.metadata)
               /\ MessageType(p.req.header) = Request
               /\ CompressType(p.req.header) = None
               /\ IsOneway(p.req.header) = p.post.oneway
        /\ p.code = 200 =>
               /\ p.reply.metadata = p.given.metadata
               /\ p.reply.payload = IF p.post.oneway THEN <<>> ELSE p.given.payload

\* Whatever texts, empty ones at either end included, a stream can be
\* decoded message by message, to its end.
StreamsDecode == \A b \in {up, down} : b # <<>> => Length(b) <= Len(b) /\ ~DecodeFails(b)

-----------------------------------------------------------------------------
(* The strengthening under which all of these are inductive.               *)

\* What a Message from the pool is made into for call s, on either side.
Req(s) == CreateRequest(NewMessage, asked[s], s)
Res(s) == IF asked[s].heartBeat
          THEN [Req(s) EXCEPT !.header = SetMessageType(@, Response)]
          ELSE HandleRequest(Req(s), NewMessage, given[s])

TypeOK ==
    /\ asked \in Seq(Asks) /\ Len(asked) + Len(posted) <= MaxCalls
    /\ posted \in Seq([post : Posts, req : {HTTPRequest2EmRpcRequest(NewMessage, p) : p \in Posts},
                       code : {Open, Aborted, 200, 400, 500}, given : Replies \cup {NoReply},
                       reply : {[metadata |-> r.metadata, payload |-> b] :
                                   r \in Replies \cup {NoReply},
                                   b \in {q.payload : q \in Replies} \cup {<<>>}}])
    /\ given \in [DOMAIN given -> Replies] /\ DOMAIN given \subseteq DOMAIN asked
    /\ IsMessage(resp)

\* Nothing of a former use is left in a Message of the pool, nor in one that
\* was taken from it.
NothingLeft ==
    /\ pool \subseteq {NewMessage}
    /\ \A m \in reqs : \E s \in DOMAIN asked \ DOMAIN given : ~asked[s].heartBeat /\ m = Req(s)
    /\ \A i \in DOMAIN posted : posted[i].req = HTTPRequest2EmRpcRequest(NewMessage, posted[i].post)

\* What input has left in its Message came with an answer.
Remains == resp.metadata = NoMetadata \/ \E t \in DOMAIN got : resp.metadata = AnswerMetadata(t)

\* The streams that carry each of the messages ms once, in any order.
Streams(ms) ==
    {FlattenSeq(es) :
        es \in UNION {{e \in [DOMAIN q -> UNION {Encode(ms[s]) : s \in DOMAIN ms}] :
                          \A i \in DOMAIN q : e[i] \in Encode(ms[q[i]])} :
                      q \in SetToSeqs(DOMAIN ms)}}

\* No request is on its way, waiting, or answered at the same time as on its
\* way a second time; what is on its way back are answers.
OnTheWay ==
    \E U \in SUBSET DOMAIN asked : \E D \in SUBSET (DOMAIN asked \ U) :
        /\ \A s \in U : s \notin DOMAIN given \cup {Seq8(m.header) : m \in reqs}
        /\ \A s \in D : asked[s].heartBeat \/ s \in DOMAIN given
        /\ up \in Streams([s \in U |-> Req(s)])
        /\ down \in Streams([s \in D |-> Res(s)])

IInv == TypeOK /\ NothingLeft /\ Remains /\ OnTheWay /\ ResponsesArrive /\ PostsAnswered
=============================================================================
