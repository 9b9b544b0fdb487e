------------------------------- MODULE Header -------------------------------
(***************************************************************************)
(* The header of a message (protocol/message.go): twelve bytes, the third  *)
(* and fourth of which are divided into fields of one to four bits, and    *)
(* the big-endian numbers of the protocol.  A field is given by its weight *)
(* w and the number n of its values, both powers of two.                   *)
(* A definition marked "Wrong" is a plausible bug in the one after it,     *)
(* kept to see that the properties of Exchange reject it; nothing uses it. *)
(***************************************************************************)
EXTENDS Naturals, Sequences

Byte == 0..255

Bits(b, w, n) == (b \div w) % n

\* Bits outside of the field are kept, bits of v beyond its width are lost.
WithBits(b, w, n, v) == b - w * Bits(b, w, n) + w * (v % n)

\* The last k bytes of the binary representation of number v ...
BigEndian(v, k) ==
    LET rest[i \in 0..k] == IF i = 0 THEN v ELSE rest[i - 1] \div 256
    IN  [i \in 1..k |-> rest[k - i] % 256]

\* ... and the number that the k bytes of b behind position at represent.
Number(b, at, k) ==
    LET sum[i \in 0..k] == IF i = 0 THEN 0 ELSE 256 * sum[i - 1] + b[at + i]
    IN  sum[k]

-----------------------------------------------------------------------------
Request  == 0    \* MessageType
Response == 1
Normal == 0      \* MessageStatusType
Error  == 1
None == 0        \* CompressType
Gzip == 1
SerializeNone == 0
JSON == 1        \* SerializeType, and so on up to Thrift
Thrift == 4

MagicNumber == 8

NewHeader == [i \in 1..12 |-> IF i = 1 THEN MagicNumber ELSE 0]

MessageType(h) == Bits(h[3], 128, 2)

\* Wrong: the other bits of the byte are lost.
SetMessageTypeOnly(h, t) == [h EXCEPT ![3] = (128 * t) % 256]

\* The type is or-ed: a response never becomes a request again.
SetMessageType(h, t) ==
    [h EXCEPT ![3] = WithBits(@, 128, 2, IF @ >= 128 THEN Response ELSE t)]

IsHeartbeat(h) == Bits(h[3], 64, 2) = 1
SetHeartbeat(h, hb) == [h EXCEPT ![3] = WithBits(@, 64, 2, IF hb THEN 1 ELSE 0)]

IsOneway(h) == Bits(h[3], 32, 2) = 1
SetOneway(h, oneway) == [h EXCEPT ![3] = WithBits(@, 32, 2, IF oneway THEN 1 ELSE 0)]

CompressType(h) == Bits(h[3], 4, 8)
SetCompressType(h, ct) == [h EXCEPT ![3] = WithBits(@, 4, 8, ct)]

MessageStatusType(h) == Bits(h[3], 1, 4)
SetMessageStatusType(h, mt) == [h EXCEPT ![3] = WithBits(@, 1, 4, mt)]

SerializeType(h) == Bits(h[4], 16, 16)
SetSerializeType(h, st) == [h EXCEPT ![4] = WithBits(@, 16, 16, st)]

Seq8(h) == Number(h, 4, 8)
SetSeq(h, seq) == [i \in 1..12 |-> IF i <= 4 THEN h[i] ELSE BigEndian(seq, 8)[i - 4]]
=============================================================================
