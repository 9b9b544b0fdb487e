------------------------------ MODULE Message -------------------------------
(***************************************************************************)
(* The Message of protocol/message.go: what Encode writes, what Decode     *)
(* leaves in the Message it decodes into, Clone, and the Reset of FreeMsg. *)
(* Texts are sequences of bytes, Metadata is a function from texts to      *)
(* texts, and nil is the empty one.  The buffer of a Message, and who      *)
(* shares it, are in ServerConn.  gzip is external: a prefix stands for it.*)
(* A definition marked "Wrong" is a plausible bug in the one after it,     *)
(* kept to see that the properties of Exchange reject it; nothing uses it. *)
(***************************************************************************)
EXTENDS Header, SequencesExt

Texts == Seq(Byte)

NoMetadata == <<>>
IsMetadata(f) == /\ DOMAIN f \subseteq Texts /\ IsFiniteSet(DOMAIN f)
                 /\ f \in [DOMAIN f -> Texts]

IsMessage(m) ==
    /\ m \in [header : [1..12 -> Byte], servicePath : Texts, serviceMethod : Texts,
              metadata : {m.metadata}, payload : Texts]
    /\ IsMetadata(m.metadata)

NewMessage == [header |-> NewHeader, servicePath |-> <<>>, serviceMethod |-> <<>>,
               metadata |-> NoMetadata, payload |-> <<>>]

\* What module TLC writes k :> v and f @@ g, which the provers do not expand.
Pair(k, v) == [x \in {k} |-> v]
Over(f, g) == [x \in DOMAIN f \cup DOMAIN g |-> IF x \in DOMAIN f THEN f[x] ELSE g[x]]

-----------------------------------------------------------------------------
(* Encode.                                                                 *)

\* A text is preceded by its length.
Text(s) == BigEndian(Len(s), 4) \o s

Compressed(s) == <<31, 139>> \o s

\* A Go map is iterated over in any order.
EncodeMetadata(m) ==
    {FlattenSeq([i \in 1..Len(keys) |-> Text(keys[i]) \o Text(m[keys[i]])]) :
        keys \in SetToSeqs(DOMAIN m)}

\* What Encode may return for message m.
Encode(m) ==
    LET known   == CompressType(m.header) \in {None, Gzip}
        header  == IF known THEN m.header ELSE SetCompressType(m.header, None)
        payload == IF CompressType(header) = Gzip THEN Compressed(m.payload) ELSE m.payload
    IN  {header \o Text(Text(m.servicePath) \o Text(m.serviceMethod)
                          \o Text(metadata) \o Text(payload)) :
            metadata \in EncodeMetadata(m.metadata)}

\* Four bytes, or eight, are enough for a number, and four for the length of m.
FourBytes(n)  == n \div 16777216 < 256
EightBytes(n) == (n \div 16777216) \div 16777216 < 65536
FitsWire(m) == \A b \in Encode(m) : FourBytes(Len(b) - 16)

-----------------------------------------------------------------------------
(* Decode.                                                                 *)

\* Where the text at offset n of data ends, and what it is.
End(data, n) == n + 4 + Number(data, n, 4)
TextAt(data, n) == SubSeq(data, n + 5, End(data, n))

\* Wrong: the last pair must not be that of a key and an empty text.
DecodeMetadataStrict(data) ==
    LET l == Len(data)
        from[n \in 0..l] ==
            IF n = l THEN [md |-> NoMetadata, missing |-> FALSE]
            ELSE LET nk == End(data, n) IN
                 IF n > l - 8 \/ nk >= l - 4 \/ End(data, nk) > l
                 THEN [md |-> NoMetadata, missing |-> TRUE]
                 ELSE [from[End(data, nk)] EXCEPT
                          !.md = Over(@, Pair(TextAt(data, n), TextAt(data, nk)))]
    IN  from[0]

\* A later pair overrides an earlier one with the same key.  Where less than
\* the eight bytes of two lengths is left, the code would read past the data.
DecodeMetadata(data) ==
    LET l == Len(data)
        from[n \in 0..l] ==
            IF n = l THEN [md |-> NoMetadata, missing |-> FALSE]
            ELSE LET nk == End(data, n) IN
                 IF n > l - 8 \/ nk > l - 4 \/ End(data, nk) > l
                 THEN [md |-> NoMetadata, missing |-> TRUE]
                 ELSE [from[End(data, nk)] EXCEPT
                          !.md = Over(@, Pair(TextAt(data, n), TextAt(data, nk)))]
    IN  from[0]

Uncompressed(s) == SubSeq(s, 3, Len(s))

\* How many bytes the first message of stream b has.
Length(b) == 16 + Number(b, 12, 4)

\* Message m after the first message of stream b was decoded into it.  The
\* metadata is assigned only when the message has some; the payload is what
\* the data has left, whatever length is written before it.
Decode(m, b) ==
    LET header == SubSeq(b, 1, 12)
        data   == SubSeq(b, 17, Length(b))
        method == End(data, 0)
        meta   == End(data, method)
        rest   == SubSeq(data, End(data, meta) + 5, Len(data))
    IN  [m EXCEPT !.header        = header,
                  !.servicePath   = TextAt(data, 0),
                  !.serviceMethod = TextAt(data, method),
                  !.metadata      = IF Number(data, meta, 4) > 0
                                    THEN DecodeMetadata(TextAt(data, meta)).md
                                    ELSE @,
                  !.payload       = IF CompressType(header) = Gzip
                                    THEN Uncompressed(rest) ELSE rest]

\* Decode returns an error instead.
DecodeFails(b) ==
    LET data == SubSeq(b, 17, Length(b))
        meta == End(data, End(data, 0))
    IN  \/ b[1] # MagicNumber
        \/ DecodeMetadata(TextAt(data, meta)).missing
        \/ CompressType(b) \notin {None, Gzip}
        \/ CompressType(b) = Gzip
           /\ SubSeq(data, End(data, meta) + 5, End(data, meta) + 6) # Compressed(<<>>)

-----------------------------------------------------------------------------
\* Wrong: the metadata is left.
ResetKeepsMetadata(m) == [NewMessage EXCEPT !.header[1] = m.header[1],
                                            !.metadata = m.metadata]

\* Wrong: the payload is left.
ResetKeepsPayload(m) == [NewMessage EXCEPT !.header[1] = m.header[1],
                                           !.payload = m.payload]

\* Reset leaves the first byte of the header.
Reset(m) == [NewMessage EXCEPT !.header[1] = m.header[1]]

\* The clone of m, made of message c from the pool.
Clone(m, c) == [c EXCEPT !.header        = SetCompressType(m.header, None),
                         !.servicePath   = m.servicePath,
                         !.serviceMethod = m.serviceMethod]
=============================================================================
