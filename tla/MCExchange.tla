----------------------------- MODULE MCExchange -----------------------------
(* Small instances of Exchange for TLC. *)
EXTENDS Exchange

\* A name, a name and its continuation as two texts, and the empty text.
T1 == <<1>>
T2 == <<2, 3>>

\* Keys: of the span, one with a capital; of a baggage item, with its prefix;
\* and of the header Authorization.  A tracing field that can be parsed.
Trace   == <<84, 4>>
Baggage == <<45, 105>>
Auth    == <<5>>
Digit   == <<48>>

Metas == {NoMetadata, T1 :> <<>>, (T1 :> T2) @@ (<<>> :> T1)}

\* Calls with and without metadata, payload, compression; one with a span, or
\* with metadata that looks like one; a raw call; and a heartbeat, which
\* sendHeartBeat makes raw and without names.
SmallAsks ==
    [servicePath : {T1}, serviceMethod : {T2}, metadata : Metas, span : {NoMetadata},
     args : {<<>>, T2}, serializeType : {Thrift}, compressType : {None, Gzip},
     heartBeat : {FALSE}]
    \cup
    [servicePath : {T1}, serviceMethod : {T2}, metadata : {T1 :> T2, Trace :> T1},
     span : {NoMetadata, (Trace :> Digit) @@ (Baggage :> T1)}, args : {T2}, serializeType : {JSON},
     compressType : {None}, heartBeat : {FALSE}]
    \cup
    [servicePath : {T1}, serviceMethod : {<<>>}, metadata : {NoMetadata},
     span : {NoMetadata}, args : {T1}, serializeType : {SerializeNone},
     compressType : {None}, heartBeat : BOOLEAN]

\* HTTP requests with capitals in their path, some one way, some flagged as a
\* heartbeat, one with a span that cannot be read, and a malformed one.
Named == [servicePath |-> <<65>>, serviceMethod |-> <<66, 98>>, messageID |-> 1,
          serializeType |-> JSON, heartBeat |-> FALSE, oneway |-> FALSE,
          auth |-> <<>>, metadata |-> NoMetadata, body |-> T2, malformed |-> FALSE]

SmallPosts == {Named,
               [Named EXCEPT !.malformed = TRUE],
               [Named EXCEPT !.oneway = TRUE, !.auth = T1],
               [Named EXCEPT !.heartBeat = TRUE, !.auth = T1, !.metadata = T1 :> T2],
               [Named EXCEPT !.metadata = Trace :> T1, !.body = <<>>]}

SmallReplies == [payload : {T1, <<>>}, metadata : Metas]
SmallField == (Trace :> <<116, 4>>) @@ (Baggage :> <<105>>)
SmallParsable == (Trace :> {Digit}) @@ (Baggage :> Texts)
=============================================================================
