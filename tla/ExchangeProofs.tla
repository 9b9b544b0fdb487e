--------------------------- MODULE ExchangeProofs ---------------------------
(***************************************************************************)
(* Proofs about Header, Message and Exchange, from the bits of a header up *)
(* to what callers and services find.  First, that each setter of Header   *)
(* sets what its getter returns, and nothing else.  Then, that Decode finds*)
(* in a stream the message that Encode wrote at its beginning, whatever    *)
(* texts and metadata are in it and whatever is behind it.  At last, that  *)
(* IInv is invariant, and with it the properties of Exchange.  Recursion   *)
(* over bytes, texts and pairs is met with the induction of NaturalSets.   *)
(***************************************************************************)
EXTENDS Exchange, NaturalSets, SequenceTheorems, TLAPS

Headers == [1..12 -> Byte]

\* Header g agrees with header h in every field but that of the getter
\* named, and in the bytes that no field is in.
SameBut(getter, g, h) ==
    /\ \A i \in 1..12 \ {3, 4} : g[i] = h[i]
    /\ getter = "MessageType" \/ MessageType(g) = MessageType(h)
    /\ getter = "IsHeartbeat" \/ IsHeartbeat(g) = IsHeartbeat(h)
    /\ getter = "IsOneway" \/ IsOneway(g) = IsOneway(h)
    /\ getter = "CompressType" \/ CompressType(g) = CompressType(h)
    /\ getter = "MessageStatusType" \/ MessageStatusType(g) = MessageStatusType(h)
    /\ getter = "SerializeType" \/ SerializeType(g) = SerializeType(h)

-----------------------------------------------------------------------------
(* Arithmetic of one byte: the fields of the third, then of the fourth.    *)

\* Setting the type of a message leaves the rest of a byte (SetMessageType, message.go:141).
LEMMA TypeBit ==
    ASSUME NEW b \in Byte, NEW v \in Nat
    PROVE  /\ WithBits(b, 128, 2, v) \in Byte
           /\ Bits(WithBits(b, 128, 2, v), 128, 2) = v % 2
           /\ Bits(WithBits(b, 128, 2, v), 64, 2) = Bits(b, 64, 2)
           /\ Bits(WithBits(b, 128, 2, v), 32, 2) = Bits(b, 32, 2)
           /\ Bits(WithBits(b, 128, 2, v), 4, 8) = Bits(b, 4, 8)
           /\ Bits(WithBits(b, 128, 2, v), 1, 4) = Bits(b, 1, 4)
BY SMTT(60) DEF WithBits, Bits, Byte

\* Setting the heartbeat flag leaves the rest of a byte (SetHeartbeat, message.go:151).
LEMMA HeartbeatBit ==
    ASSUME NEW b \in Byte, NEW v \in Nat
    PROVE  /\ WithBits(b, 64, 2, v) \in Byte
           /\ Bits(WithBits(b, 64, 2, v), 128, 2) = Bits(b, 128, 2)
           /\ Bits(WithBits(b, 64, 2, v), 64, 2) = v % 2
           /\ Bits(WithBits(b, 64, 2, v), 32, 2) = Bits(b, 32, 2)
           /\ Bits(WithBits(b, 64, 2, v), 4, 8) = Bits(b, 4, 8)
           /\ Bits(WithBits(b, 64, 2, v), 1, 4) = Bits(b, 1, 4)
BY SMTT(60) DEF WithBits, Bits, Byte

\* Setting the oneway flag leaves the rest of a byte (SetOneway, message.go:166).
LEMMA OnewayBit ==
    ASSUME NEW b \in Byte, NEW v \in Nat
    PROVE  /\ WithBits(b, 32, 2, v) \in Byte
           /\ Bits(WithBits(b, 32, 2, v), 128, 2) = Bits(b, 128, 2)
           /\ Bits(WithBits(b, 32, 2, v), 64, 2) = Bits(b, 64, 2)
           /\ Bits(WithBits(b, 32, 2, v), 32, 2) = v % 2
           /\ Bits(WithBits(b, 32, 2, v), 4, 8) = Bits(b, 4, 8)
           /\ Bits(WithBits(b, 32, 2, v), 1, 4) = Bits(b, 1, 4)
BY SMTT(60) DEF WithBits, Bits, Byte

\* Setting the compression leaves the rest of a byte (SetCompressType, message.go:180).
LEMMA CompressBits ==
    ASSUME NEW b \in Byte, NEW v \in Nat
    PROVE  /\ WithBits(b, 4, 8, v) \in Byte
           /\ Bits(WithBits(b, 4, 8, v), 128, 2) = Bits(b, 128, 2)
           /\ Bits(WithBits(b, 4, 8, v), 64, 2) = Bits(b, 64, 2)
           /\ Bits(WithBits(b, 4, 8, v), 32, 2) = Bits(b, 32, 2)
           /\ Bits(WithBits(b, 4, 8, v), 4, 8) = v % 8
           /\ Bits(WithBits(b, 4, 8, v), 1, 4) = Bits(b, 1, 4)
BY SMTT(60) DEF WithBits, Bits, Byte

\* Setting the status leaves the rest of a byte (SetMessageStatusType, message.go:190).
LEMMA StatusBits ==
    ASSUME NEW b \in Byte, NEW v \in Nat
    PROVE  /\ WithBits(b, 1, 4, v) \in Byte
           /\ Bits(WithBits(b, 1, 4, v), 128, 2) = Bits(b, 128, 2)
           /\ Bits(WithBits(b, 1, 4, v), 64, 2) = Bits(b, 64, 2)
           /\ Bits(WithBits(b, 1, 4, v), 32, 2) = Bits(b, 32, 2)
           /\ Bits(WithBits(b, 1, 4, v), 4, 8) = Bits(b, 4, 8)
           /\ Bits(WithBits(b, 1, 4, v), 1, 4) = v % 4
BY SMTT(60) DEF WithBits, Bits, Byte

\* Setting the serialization leaves the rest of a byte (SetSerializeType,
\* message.go:200).
LEMMA SerializeBits ==
    ASSUME NEW b \in Byte, NEW v \in Nat
    PROVE  /\ WithBits(b, 16, 16, v) \in Byte
           /\ Bits(WithBits(b, 16, 16, v), 16, 16) = v % 16
           /\ WithBits(b, 16, 16, v) % 16 = b % 16
BY SMTT(60) DEF WithBits, Bits, Byte

-----------------------------------------------------------------------------
\* What the getters return when the third byte is b: that is where all
\* fields but the serialization are (message.go:136-192).
LEMMA ThirdByte ==
    ASSUME NEW h \in Headers, NEW b \in Byte
    PROVE  LET g == [h EXCEPT ![3] = b] IN
           /\ g \in Headers
           /\ \A i \in 1..12 \ {3, 4} : g[i] = h[i]
           /\ MessageType(g) = Bits(b, 128, 2)
           /\ IsHeartbeat(g) = (Bits(b, 64, 2) = 1)
           /\ IsOneway(g) = (Bits(b, 32, 2) = 1)
           /\ CompressType(g) = Bits(b, 4, 8)
           /\ MessageStatusType(g) = Bits(b, 1, 4)
           /\ SerializeType(g) = SerializeType(h)
<1> DEFINE g == [h EXCEPT ![3] = b]
<1>1. g \in Headers /\ g[3] = b /\ \A i \in 1..12 \ {3} : g[i] = h[i]
  BY DEF Headers
<1> HIDE DEF g
<1>2. /\ MessageType(g) = Bits(b, 128, 2)
      /\ IsHeartbeat(g) = (Bits(b, 64, 2) = 1)
      /\ IsOneway(g) = (Bits(b, 32, 2) = 1)
      /\ CompressType(g) = Bits(b, 4, 8)
      /\ MessageStatusType(g) = Bits(b, 1, 4)
      /\ SerializeType(g) = SerializeType(h)
  BY <1>1 DEF MessageType, IsHeartbeat, IsOneway, CompressType,
              MessageStatusType, SerializeType
<1>3. QED
  BY <1>1, <1>2 DEF g

\* SetHeartbeat sets the heartbeat flag and no other field (message.go:151).
THEOREM HeartbeatApart ==
    ASSUME NEW h \in Headers, NEW hb \in BOOLEAN
    PROVE  /\ SetHeartbeat(h, hb) \in Headers
           /\ IsHeartbeat(SetHeartbeat(h, hb)) = hb
           /\ SameBut("IsHeartbeat", SetHeartbeat(h, hb), h)
<1> DEFINE v == IF hb THEN 1 ELSE 0
           b == WithBits(h[3], 64, 2, v)
           g == [h EXCEPT ![3] = b]
<1>1. h[3] \in Byte /\ v \in Nat /\ (v % 2 = 1) = hb
  BY DEF Headers
<1> HIDE DEF v
<1>2. b \in Byte
  BY <1>1, HeartbeatBit
<1>3. (Bits(b, 64, 2) = 1) = hb
  BY <1>1, HeartbeatBit
<1>4. /\ Bits(b, 128, 2) = MessageType(h)
      /\ (Bits(b, 32, 2) = 1) = IsOneway(h)
      /\ Bits(b, 4, 8) = CompressType(h)
      /\ Bits(b, 1, 4) = MessageStatusType(h)
  BY ZenonT(100), <1>1, HeartbeatBit DEF MessageType, IsOneway, CompressType, MessageStatusType
<1> HIDE DEF b
<1>5. g \in Headers /\ IsHeartbeat(g) = hb
  BY <1>2, <1>3, ThirdByte
<1>6. SameBut("IsHeartbeat", g, h)
  BY <1>2, <1>4, ThirdByte DEF SameBut
<1>7. QED
  BY <1>5, <1>6 DEF g, b, v, SetHeartbeat

\* SetOneway sets the oneway flag and no other field (message.go:166).
THEOREM OnewayApart ==
    ASSUME NEW h \in Headers, NEW oneway \in BOOLEAN
    PROVE  /\ SetOneway(h, oneway) \in Headers
           /\ IsOneway(SetOneway(h, oneway)) = oneway
           /\ SameBut("IsOneway", SetOneway(h, oneway), h)
<1> DEFINE v == IF oneway THEN 1 ELSE 0
           b == WithBits(h[3], 32, 2, v)
           g == [h EXCEPT ![3] = b]
<1>1. h[3] \in Byte /\ v \in Nat /\ (v % 2 = 1) = oneway
  BY DEF Headers
<1> HIDE DEF v
<1>2. b \in Byte
  BY <1>1, OnewayBit
<1>3. (Bits(b, 32, 2) = 1) = oneway
  BY <1>1, OnewayBit
<1>4. /\ Bits(b, 128, 2) = MessageType(h)
      /\ (Bits(b, 64, 2) = 1) = IsHeartbeat(h)
      /\ Bits(b, 4, 8) = CompressType(h)
      /\ Bits(b, 1, 4) = MessageStatusType(h)
  BY ZenonT(100), <1>1, OnewayBit DEF MessageType, IsHeartbeat, CompressType, MessageStatusType
<1> HIDE DEF b
<1>5. g \in Headers /\ IsOneway(g) = oneway
  BY <1>2, <1>3, ThirdByte
<1>6. SameBut("IsOneway", g, h)
  BY <1>2, <1>4, ThirdByte DEF SameBut
<1>7. QED
  BY <1>5, <1>6 DEF g, b, v, SetOneway

\* SetCompressType sets the compression and no other field (message.go:180).
THEOREM CompressApart ==
    ASSUME NEW h \in Headers, NEW ct \in Nat
    PROVE  /\ SetCompressType(h, ct) \in Headers
           /\ CompressType(SetCompressType(h, ct)) = ct % 8
           /\ SameBut("CompressType", SetCompressType(h, ct), h)
<1> DEFINE v == ct
           b == WithBits(h[3], 4, 8, v)
           g == [h EXCEPT ![3] = b]
<1>1. h[3] \in Byte /\ v \in Nat /\ v % 8 = ct % 8
  BY DEF Headers
<1> HIDE DEF v
<1>2. b \in Byte
  BY <1>1, CompressBits
<1>3. Bits(b, 4, 8) = ct % 8
  BY <1>1, CompressBits
<1>4. /\ Bits(b, 128, 2) = MessageType(h)
      /\ (Bits(b, 64, 2) = 1) = IsHeartbeat(h)
      /\ (Bits(b, 32, 2) = 1) = IsOneway(h)
      /\ Bits(b, 1, 4) = MessageStatusType(h)
  BY ZenonT(100), <1>1, CompressBits DEF MessageType, IsHeartbeat, IsOneway, MessageStatusType
<1> HIDE DEF b
<1>5. g \in Headers /\ CompressType(g) = ct % 8
  BY <1>2, <1>3, ThirdByte
<1>6. SameBut("CompressType", g, h)
  BY <1>2, <1>4, ThirdByte DEF SameBut
<1>7. QED
  BY <1>5, <1>6 DEF g, b, v, SetCompressType

\* SetMessageStatusType sets the status and no other field (message.go:190).
THEOREM StatusApart ==
    ASSUME NEW h \in Headers, NEW mt \in Nat
    PROVE  /\ SetMessageStatusType(h, mt) \in Headers
           /\ MessageStatusType(SetMessageStatusType(h, mt)) = mt % 4
           /\ SameBut("MessageStatusType", SetMessageStatusType(h, mt), h)
<1> DEFINE v == mt
           b == WithBits(h[3], 1, 4, v)
           g == [h EXCEPT ![3] = b]
<1>1. h[3] \in Byte /\ v \in Nat /\ v % 4 = mt % 4
  BY DEF Headers
<1> HIDE DEF v
<1>2. b \in Byte
  BY <1>1, StatusBits
<1>3. Bits(b, 1, 4) = mt % 4
  BY <1>1, StatusBits
<1>4. /\ Bits(b, 128, 2) = MessageType(h)
      /\ (Bits(b, 64, 2) = 1) = IsHeartbeat(h)
      /\ (Bits(b, 32, 2) = 1) = IsOneway(h)
      /\ Bits(b, 4, 8) = CompressType(h)
  BY ZenonT(100), <1>1, StatusBits DEF MessageType, IsHeartbeat, IsOneway, CompressType
<1> HIDE DEF b
<1>5. g \in Headers /\ MessageStatusType(g) = mt % 4
  BY <1>2, <1>3, ThirdByte
<1>6. SameBut("MessageStatusType", g, h)
  BY <1>2, <1>4, ThirdByte DEF SameBut
<1>7. QED
  BY <1>5, <1>6 DEF g, b, v, SetMessageStatusType

\* SetMessageType sets the type and no other field (message.go:141);
\* once a response, a message remains one.
THEOREM TypeApart ==
    ASSUME NEW h \in Headers, NEW t \in {Request, Response}
    PROVE  /\ SetMessageType(h, t) \in Headers
           /\ MessageType(SetMessageType(h, t)) = (IF MessageType(h) = Response THEN Response ELSE t)
           /\ SameBut("MessageType", SetMessageType(h, t), h)
<1> DEFINE v == IF h[3] >= 128 THEN Response ELSE t
           b == WithBits(h[3], 128, 2, v)
           g == [h EXCEPT ![3] = b]
<1>1. h[3] \in Byte /\ v \in Nat
  BY DEF Headers, Request, Response
<1> DEFINE type == IF MessageType(h) = Response THEN Response ELSE t
<1>2. v % 2 = type
  BY <1>1 DEF MessageType, Bits, Byte, Request, Response
<1> HIDE DEF type
<1> HIDE DEF v
<1>3. b \in Byte
  BY <1>1, TypeBit
<1>4. Bits(b, 128, 2) = type
  BY ZenonT(100), <1>1, <1>2, TypeBit
<1>5. /\ (Bits(b, 64, 2) = 1) = IsHeartbeat(h)
      /\ (Bits(b, 32, 2) = 1) = IsOneway(h)
      /\ Bits(b, 4, 8) = CompressType(h)
      /\ Bits(b, 1, 4) = MessageStatusType(h)
  BY ZenonT(100), <1>1, TypeBit DEF IsHeartbeat, IsOneway, CompressType, MessageStatusType
<1> HIDE DEF b
<1>6. g \in Headers /\ MessageType(g) = type
  BY <1>3, <1>4, ThirdByte
<1>7. SameBut("MessageType", g, h)
  BY <1>3, <1>5, ThirdByte DEF SameBut
<1>8. QED
  BY <1>6, <1>7 DEF g, b, v, SetMessageType, type

\* SetSerializeType sets the serialization, in the fourth byte, and no other
\* field (message.go:200).
THEOREM SerializeApart ==
    ASSUME NEW h \in Headers, NEW st \in Nat
    PROVE  /\ SetSerializeType(h, st) \in Headers
           /\ SerializeType(SetSerializeType(h, st)) = st % 16
           /\ SameBut("SerializeType", SetSerializeType(h, st), h)
<1> DEFINE b == WithBits(h[4], 16, 16, st)
           g == [h EXCEPT ![4] = b]
<1>0. h[4] \in Byte
  BY DEF Headers
<1>1. b \in Byte /\ Bits(b, 16, 16) = st % 16
  BY <1>0, SerializeBits
<1> HIDE DEF b
<1>2. g \in Headers /\ g[4] = b /\ \A i \in 1..12 \ {4} : g[i] = h[i]
  BY <1>1 DEF Headers
<1> HIDE DEF g
<1>3. SerializeType(g) = st % 16
  BY <1>1, <1>2 DEF SerializeType
<1>4. SameBut("SerializeType", g, h)
  BY <1>2 DEF SameBut, MessageType, IsHeartbeat, IsOneway, CompressType,
              MessageStatusType
<1>5. QED
  BY <1>2, <1>3, <1>4 DEF g, b, SetSerializeType

-----------------------------------------------------------------------------
(* Numbers as bytes.                                                       *)

\* The remainders of BigEndian: each is its predecessor without the last byte.
Rests(rest, v, k) == /\ rest \in [0..k -> Nat]
                     /\ rest[0] = v
                     /\ \A i \in 1..k : rest[i] = rest[i - 1] \div 256

LastBytes(rest, k) == [i \in 1..k |-> rest[k - i] % 256]

\* BigEndian is made of their last bytes.
LEMMA BigEndianRest ==
    ASSUME NEW v \in Nat, NEW k \in Nat
    PROVE  \E rest : Rests(rest, v, k) /\ BigEndian(v, k) = LastBytes(rest, k)
<1> DEFINE base == {0}
           b == [i \in {0} |-> v]
           next == [i \in 0..k |-> i - 1]
           step == [i \in 0..k |-> [x \in Nat |-> x \div 256]]
           rank == [i \in 0..k |-> i]
           Body(f) == [i \in 0..k |-> IF i = 0 THEN v ELSE f[i - 1] \div 256]
           rest == CHOOSE f : f = Body(f)
<1>1. rank \in [0..k -> Nat] /\ \A i \in 0..k \cap base : b[i] \in Nat
  OBVIOUS
<1>2. \A i \in 0..k \ base : /\ next[i] \in 0..k /\ rank[next[i]] < rank[i]
                             /\ \A x \in Nat : step[i][x] \in Nat
  OBVIOUS
<1>3. PICK f \in [0..k -> Nat] : Defined(f, 0..k, base, b, next, step)
  <2> HIDE DEF base, b, next, step, rank
  <2> QED BY <1>1, <1>2, Recursion
<1>4. f = Body(f)
  <2>1. ASSUME NEW i \in 0..k
        PROVE  Body(f)[i] = IF i \in base THEN b[i] ELSE step[i][f[next[i]]]
    <3>1. CASE i = 0
      BY <3>1
    <3>2. CASE i # 0
      <4>1. i - 1 \in 0..k /\ next[i] = i - 1 /\ f[i - 1] \in Nat
        BY <3>2
      <4> QED BY <3>2, <4>1
    <3> QED BY <3>1, <3>2
  <2>2. f = [i \in 0..k |-> IF i \in base THEN b[i] ELSE step[i][f[next[i]]]]
    BY <1>3 DEF Defined
  <2> HIDE DEF base, b, next, step
  <2>3. Body(f) = [i \in 0..k |-> Body(f)[i]]
    OBVIOUS
  <2> HIDE DEF Body
  <2> QED BY <2>1, <2>2, <2>3
<1>5. BigEndian(v, k) = LastBytes(rest, k)
  BY DEF BigEndian, LastBytes
<1> HIDE DEF Body
<1>6. rest = Body(rest)
  BY <1>4
<1> HIDE DEF rest
<1> USE DEF Body
<1>7. rest[0] = v /\ \A i \in 1..k : rest[i] = rest[i - 1] \div 256
  BY <1>6
<1>8. \A i \in 0..k : rest[i] \in Nat
  <2> DEFINE T == {i \in Nat : i \in 0..k => rest[i] \in Nat}
  <2>1. T \in SUBSET Nat /\ 0 \in T
    BY <1>7
  <2>2. ASSUME NEW i \in T
        PROVE  i + 1 \in T
    <3> SUFFICES ASSUME i + 1 \in 0..k PROVE rest[i + 1] \in Nat
      OBVIOUS
    <3>1. i \in 0..k /\ rest[i] \in Nat /\ i + 1 \in 1..k /\ (i + 1) - 1 = i
      OBVIOUS
    <3>2. rest[i + 1] = rest[i] \div 256
      BY <1>7, <3>1
    <3> QED BY <3>1, <3>2
  <2>3. T = Nat
    <3> HIDE DEF T
    <3> QED BY <2>1, <2>2, SetInduction
  <2> QED BY <2>3
<1>9. rest \in [0..k -> Nat]
  BY <1>6, <1>8
<1>10. Rests(rest, v, k)
  BY <1>7, <1>9 DEF Rests
<1> QED BY <1>5, <1>10

\* The k bytes of b behind position n are bytes.
Readable(b, n, k) == \A i \in 1..k : b[n + i] \in Byte

\* The partial sums of Number.
Sums(sum, b, at, k) == /\ sum \in [0..k -> Nat]
                       /\ sum[0] = 0
                       /\ \A i \in 1..k : sum[i] = 256 * sum[i - 1] + b[at + i]

\* The last of them is the number.
LEMMA NumberSum ==
    ASSUME NEW b, NEW at \in Nat, NEW k \in Nat, Readable(b, at, k)
    PROVE  \E sum : Sums(sum, b, at, k) /\ Number(b, at, k) = sum[k]
<1> DEFINE base == {0}
           z == [i \in {0} |-> 0]
           next == [i \in 0..k |-> i - 1]
           step == [i \in 0..k |-> [x \in Nat |-> 256 * x + b[at + i]]]
           rank == [i \in 0..k |-> i]
           Body(f) == [i \in 0..k |-> IF i = 0 THEN 0 ELSE 256 * f[i - 1] + b[at + i]]
           sum == CHOOSE f : f = Body(f)
<1>0. \A i \in 1..k : b[at + i] \in Nat
  BY DEF Readable, Byte
<1>1. rank \in [0..k -> Nat] /\ \A i \in 0..k \cap base : z[i] \in Nat
  OBVIOUS
<1>2. \A i \in 0..k \ base : /\ next[i] \in 0..k /\ rank[next[i]] < rank[i]
                             /\ \A x \in Nat : step[i][x] \in Nat
  BY <1>0
<1>3. PICK f \in [0..k -> Nat] : Defined(f, 0..k, base, z, next, step)
  <2> HIDE DEF base, z, next, step, rank
  <2> QED BY <1>1, <1>2, Recursion
<1>4. f = Body(f)
  <2>1. ASSUME NEW i \in 0..k
        PROVE  Body(f)[i] = IF i \in base THEN z[i] ELSE step[i][f[next[i]]]
    <3>1. CASE i = 0
      BY <3>1
    <3>2. CASE i # 0
      <4>1. i - 1 \in 0..k /\ next[i] = i - 1 /\ f[i - 1] \in Nat
        BY <3>2
      <4> QED BY <3>2, <4>1
    <3> QED BY <3>1, <3>2
  <2>2. f = [i \in 0..k |-> IF i \in base THEN z[i] ELSE step[i][f[next[i]]]]
    BY <1>3 DEF Defined
  <2> HIDE DEF base, z, next, step
  <2>3. Body(f) = [i \in 0..k |-> Body(f)[i]]
    OBVIOUS
  <2> HIDE DEF Body
  <2> QED BY <2>1, <2>2, <2>3
<1>5. Number(b, at, k) = sum[k]
  BY DEF Number
<1> HIDE DEF Body
<1>6. sum = Body(sum)
  BY <1>4
<1> HIDE DEF sum
<1> USE DEF Body
<1>7. sum[0] = 0 /\ \A i \in 1..k : sum[i] = 256 * sum[i - 1] + b[at + i]
  BY <1>6
<1>8. \A i \in 0..k : sum[i] \in Nat
  <2> DEFINE T == {i \in Nat : i \in 0..k => sum[i] \in Nat}
  <2>1. T \in SUBSET Nat /\ 0 \in T
    BY <1>7
  <2>2. ASSUME NEW i \in T
        PROVE  i + 1 \in T
    <3> SUFFICES ASSUME i + 1 \in 0..k PROVE sum[i + 1] \in Nat
      OBVIOUS
    <3>1. i \in 0..k /\ sum[i] \in Nat /\ i + 1 \in 1..k /\ (i + 1) - 1 = i
      OBVIOUS
    <3>2. sum[i + 1] = 256 * sum[i] + b[at + (i + 1)] /\ b[at + (i + 1)] \in Nat
      BY <1>0, <1>7, <3>1
    <3> QED BY <3>1, <3>2
  <2>3. T = Nat
    <3> HIDE DEF T
    <3> QED BY <2>1, <2>2, SetInduction
  <2> QED BY <2>3
<1>9. sum \in [0..k -> Nat]
  BY <1>6, <1>8
<1>10. Sums(sum, b, at, k)
  BY <1>7, <1>9 DEF Sums
<1> QED BY <1>5, <1>10

\* A number is not negative.
LEMMA NumberType ==
    ASSUME NEW b, NEW at \in Nat, NEW k \in Nat, Readable(b, at, k)
    PROVE  Number(b, at, k) \in Nat
<1>1. PICK sum : Sums(sum, b, at, k) /\ Number(b, at, k) = sum[k]
  BY NumberSum
<1> QED BY <1>1 DEF Sums

\* BigEndian returns k bytes.
LEMMA BigEndianType ==
    ASSUME NEW v \in Nat, NEW k \in Nat
    PROVE  BigEndian(v, k) \in [1..k -> Byte]
<1>1. PICK rest : Rests(rest, v, k) /\ BigEndian(v, k) = LastBytes(rest, k)
  BY BigEndianRest
<1>2. ASSUME NEW i \in 1..k
      PROVE  rest[k - i] % 256 \in Byte
  <2>1. rest[k - i] \in Nat
    BY <1>1 DEF Rests
  <2>2. \A r \in Nat : r % 256 \in 0..255
    OBVIOUS
  <2> QED BY <2>1, <2>2 DEF Byte
<1> QED BY <1>1, <1>2 DEF LastBytes

\* The bytes of s are in b, behind position n.
At(b, n, s) == \A i \in 1..Len(s) : b[n + i] = s[i]

\* The last of the remainders of BigEndian is zero: k bytes are enough for v.
Fits(v, k) == \A rest : Rests(rest, v, k) => rest[k] = 0

\* A number and its last byte.
LEMMA ByteSplit == \A r \in Nat : 256 * (r \div 256) + (r % 256) = r
OBVIOUS

\* Number reads what BigEndian writes.
LEMMA NumberInverse ==
    ASSUME NEW v \in Nat, NEW k \in Nat, Fits(v, k),
           NEW b, NEW at \in Nat, At(b, at, BigEndian(v, k))
    PROVE  Number(b, at, k) = v
<1>1. Readable(b, at, k) /\ \A i \in 1..k : b[at + i] = BigEndian(v, k)[i]
  <2>1. BigEndian(v, k) \in [1..k -> Byte] /\ Len(BigEndian(v, k)) = k
    BY BigEndianType
  <2> QED BY <2>1 DEF Readable, At
<1>a. PICK sum : Sums(sum, b, at, k) /\ Number(b, at, k) = sum[k]
  BY <1>1, NumberSum
<1>2. /\ sum \in [0..k -> Nat] /\ sum[0] = 0
      /\ \A i \in 1..k : sum[i] = 256 * sum[i - 1] + b[at + i]
  BY <1>a DEF Sums
<1>b. PICK rest : Rests(rest, v, k) /\ BigEndian(v, k) = LastBytes(rest, k)
  BY BigEndianRest
<1>3. /\ rest \in [0..k -> Nat] /\ rest[0] = v
      /\ \A i \in 1..k : rest[i] = rest[i - 1] \div 256
      /\ BigEndian(v, k) = [i \in 1..k |-> rest[k - i] % 256]
  BY <1>b DEF Rests, LastBytes
<1>4. rest[k] = 0
  BY <1>b DEF Fits
<1> DEFINE T == {i \in Nat : i <= k => sum[i] = rest[k - i]}
<1>5. T \in SUBSET Nat /\ 0 \in T
  BY <1>2, <1>4
<1>6. ASSUME NEW i \in T
      PROVE  i + 1 \in T
  <2> SUFFICES ASSUME i + 1 <= k PROVE sum[i + 1] = rest[k - (i + 1)]
    OBVIOUS
  <2>1. /\ i \in Nat /\ i + 1 \in 1..k /\ (i + 1) - 1 = i /\ i <= k
        /\ k - i \in 1..k /\ (k - i) - 1 = k - (i + 1) /\ k - (i + 1) \in 0..k
    OBVIOUS
  <2>2. sum[i + 1] = 256 * sum[i] + b[at + (i + 1)]
    BY <1>2, <2>1
  <2>3. b[at + (i + 1)] = rest[k - (i + 1)] % 256
    BY ZenonT(100), <1>1, <1>3, <2>1
  <2>4. sum[i] = rest[k - (i + 1)] \div 256
    BY <1>3, <2>1
  <2>5. rest[k - (i + 1)] \in Nat
    BY <1>3, <2>1
  <2>6. 256 * (rest[k - (i + 1)] \div 256) + (rest[k - (i + 1)] % 256) = rest[k - (i + 1)]
    BY <2>5, ByteSplit
  <2> HIDE DEF T
  <2> QED BY <2>2, <2>3, <2>4, <2>6, Zenon
<1>7. T = Nat
  <2> HIDE DEF T
  <2> QED BY <1>5, <1>6, SetInduction
<1>8. sum[k] = rest[0]
  BY <1>7
<1> QED BY <1>a, <1>3, <1>8

\* Three divisions by 256 in one.
LEMMA DivThrice ==
    ASSUME NEW x \in Nat, NEW y \in Nat, NEW z \in Nat,
           y = x \div 256, z = y \div 256
    PROVE  z \div 256 = x \div 16777216
BY SMT

\* Which numbers four bytes are enough for, ...
LEMMA FitsFour ==
    ASSUME NEW v \in Nat, FourBytes(v)
    PROVE  Fits(v, 4)
<1> SUFFICES ASSUME NEW rest, rest \in [0..4 -> Nat], rest[0] = v,
                    \A i \in 1..4 : rest[i] = rest[i - 1] \div 256
             PROVE  rest[4] = 0
  BY DEF Fits, Rests
<1>1. /\ rest[1] = rest[0] \div 256 /\ rest[2] = rest[1] \div 256
      /\ rest[3] = rest[2] \div 256 /\ rest[4] = rest[3] \div 256
  OBVIOUS
<1>2. rest[1] \in Nat /\ rest[2] \in Nat /\ rest[3] \in Nat
  OBVIOUS
<1>3. rest[3] = v \div 16777216
  BY SMT, <1>1, <1>2, DivThrice
<1>4. rest[3] < 256
  BY SMT, <1>3 DEF FourBytes
<1> QED BY SMT, <1>1, <1>2, <1>4

\* ... and eight.
LEMMA FitsEight ==
    ASSUME NEW v \in Nat, EightBytes(v)
    PROVE  Fits(v, 8)
<1> SUFFICES ASSUME NEW rest, rest \in [0..8 -> Nat], rest[0] = v,
                    \A i \in 1..8 : rest[i] = rest[i - 1] \div 256
             PROVE  rest[8] = 0
  BY DEF Fits, Rests
<1>1. rest[1] = rest[0] \div 256 /\ rest[2] = rest[1] \div 256 /\ rest[3] = rest[2] \div 256
  OBVIOUS
<1>2. rest[4] = rest[3] \div 256 /\ rest[5] = rest[4] \div 256 /\ rest[6] = rest[5] \div 256
  OBVIOUS
<1>3. rest[7] = rest[6] \div 256 /\ rest[8] = rest[7] \div 256
  OBVIOUS
<1>4. /\ rest[1] \in Nat /\ rest[2] \in Nat /\ rest[3] \in Nat /\ rest[4] \in Nat
      /\ rest[5] \in Nat /\ rest[6] \in Nat /\ rest[7] \in Nat
  OBVIOUS
<1>5. rest[3] = v \div 16777216
  BY SMT, <1>1, <1>4, DivThrice
<1>6. rest[6] = rest[3] \div 16777216
  BY SMT, <1>2, <1>4, DivThrice
<1>7. rest[6] < 65536
  BY SMT, <1>5, <1>6 DEF EightBytes
<1>8. rest[7] < 256
  BY SMT, <1>3, <1>4, <1>7
<1> QED BY SMT, <1>3, <1>4, <1>8

\* A text in b is in the parts of which it is made, ...
LEMMA AtConcat ==
    ASSUME NEW b, NEW n \in Nat, NEW s \in Texts, NEW t \in Texts, At(b, n, s \o t)
    PROVE  At(b, n, s) /\ At(b, n + Len(s), t)
<1>1. /\ Len(s) \in Nat /\ Len(t) \in Nat /\ Len(s \o t) = Len(s) + Len(t)
      /\ \A i \in 1..Len(s) + Len(t) : (s \o t)[i] = IF i <= Len(s) THEN s[i] ELSE t[i - Len(s)]
  BY ConcatProperties, LenProperties DEF Texts
<1>2. \A i \in 1..Len(s) + Len(t) : b[n + i] = (s \o t)[i]
  BY <1>1 DEF At
<1>3. At(b, n, s)
  BY <1>1, <1>2 DEF At
<1>4. ASSUME NEW i \in 1..Len(t)
      PROVE  b[(n + Len(s)) + i] = t[i]
  <2> DEFINE j == Len(s) + i
  <2>1. j \in 1..Len(s) + Len(t) /\ ~(j <= Len(s)) /\ j - Len(s) = i /\ (n + Len(s)) + i = n + j
    BY <1>1
  <2> HIDE DEF j
  <2> QED BY <1>1, <1>2, <2>1
<1> QED BY <1>3, <1>4 DEF At

\* ... and can be cut out of it.
LEMMA AtSubSeq ==
    ASSUME NEW b, NEW n \in Nat, NEW s \in Texts, At(b, n, s)
    PROVE  SubSeq(b, n + 1, n + Len(s)) = s
<1>1. Len(s) \in Nat /\ \A i \in 1..Len(s) : s[i] \in Byte /\ b[n + i] = s[i]
  BY LenProperties, ElementOfSeq DEF Texts, At
<1>2. ASSUME NEW j \in (n + 1)..(n + Len(s))
      PROVE  b[j] \in Byte
  <2>1. j - n \in 1..Len(s) /\ n + (j - n) = j
    BY <1>1
  <2> QED BY <1>1, <2>1
<1>3. /\ SubSeq(b, n + 1, n + Len(s)) \in Texts
      /\ Len(SubSeq(b, n + 1, n + Len(s))) = Len(s)
      /\ \A i \in 1..Len(s) : SubSeq(b, n + 1, n + Len(s))[i] = b[n + i]
  <2> DEFINE m == n + 1
             k == n + Len(s)
  <2>1. m \in Int /\ k \in Int /\ k - m + 1 = Len(s) /\ \A i \in 1..Len(s) : m + i - 1 = n + i
    BY SMTT(40), <1>1
  <2>2. \A j \in m..k : b[j] \in Byte
    BY <1>2
  <2> HIDE DEF m, k
  <2>3. /\ SubSeq(b, m, k) \in Texts
        /\ Len(SubSeq(b, m, k)) = IF m <= k THEN k - m + 1 ELSE 0
        /\ \A i \in 1..k - m + 1 : SubSeq(b, m, k)[i] = b[m + i - 1]
    BY <2>1, <2>2, SubSeqProperties DEF Texts
  <2>4. Len(SubSeq(b, m, k)) = Len(s)
    BY <1>1, <2>1, <2>3
  <2>5. \A i \in 1..Len(s) : SubSeq(b, m, k)[i] = b[n + i]
    BY <2>1, <2>3
  <2> QED BY <2>3, <2>4, <2>5 DEF m, k
<1>4. \A i \in 1..Len(s) : SubSeq(b, n + 1, n + Len(s))[i] = s[i]
  BY <1>1, <1>3
<1> HIDE DEF At
<1> QED BY <1>3, <1>4, SeqEqual DEF Texts

\* A text is in itself, ...
LEMMA AtSelf ==
    ASSUME NEW s \in Texts
    PROVE  At(s, 0, s)
BY LenProperties DEF At, Texts

\* ... and what is in a text that is in b is in b.
LEMMA AtAt ==
    ASSUME NEW b, NEW n \in Nat, NEW s \in Texts, At(b, n, s),
           NEW m \in Nat, NEW t \in Texts, At(s, m, t), m + Len(t) <= Len(s)
    PROVE  At(b, n + m, t)
<1>1. Len(s) \in Nat /\ Len(t) \in Nat
  BY LenProperties DEF Texts
<1>2. ASSUME NEW i \in 1..Len(t)
      PROVE  b[(n + m) + i] = t[i]
  <2>1. m + i \in 1..Len(s) /\ n + (m + i) = (n + m) + i
    BY <1>1
  <2> QED BY <2>1 DEF At
<1> QED BY <1>2 DEF At

\* So do its first bytes in what is longer than it.
LEMMA AtReadable ==
    ASSUME NEW b, NEW n \in Nat, NEW s \in Texts, At(b, n, s), NEW k \in Nat, k <= Len(s)
    PROVE  Readable(b, n, k)
<1>1. Len(s) \in Nat /\ \A i \in 1..Len(s) : s[i] \in Byte /\ b[n + i] = s[i]
  BY LenProperties, ElementOfSeq DEF Texts, At
<1>2. ASSUME NEW i \in 1..k
      PROVE  b[n + i] \in Byte
  <2>1. i \in 1..Len(s)
    BY <1>1
  <2>2. b[n + i] = s[i] /\ s[i] \in Byte
    BY <1>1, <2>1
  <2> QED BY <2>2
<1> QED BY <1>2 DEF Readable

\* A concatenation of texts is a text.
LEMMA BytesConcat ==
    ASSUME NEW s \in Texts, NEW t \in Texts
    PROVE  s \o t \in Texts /\ Len(s \o t) = Len(s) + Len(t) /\ Len(s) \in Nat /\ Len(t) \in Nat
BY ConcatProperties, LenProperties DEF Texts

\* BigEndian returns a text of k bytes.
LEMMA BigEndianBytes ==
    ASSUME NEW v \in Nat, NEW k \in Nat
    PROVE  BigEndian(v, k) \in Texts /\ Len(BigEndian(v, k)) = k
<1>1. BigEndian(v, k) \in [1..k -> Byte]
  BY BigEndianType
<1> QED BY <1>1, SeqDef DEF Texts

\* A text with its length before it.
LEMMA TextType ==
    ASSUME NEW s \in Texts
    PROVE  Text(s) \in Texts /\ Len(Text(s)) = 4 + Len(s) /\ Len(s) \in Nat
<1>1. Len(s) \in Nat
  BY LenProperties DEF Texts
<1>2. BigEndian(Len(s), 4) \in Texts /\ Len(BigEndian(Len(s), 4)) = 4
  BY <1>1, BigEndianBytes
<1> QED BY <1>1, <1>2, BytesConcat DEF Text

\* What is read where a text with its length was written.
LEMMA TextRead ==
    ASSUME NEW b, NEW n \in Nat, NEW s \in Texts, Fits(Len(s), 4), At(b, n, Text(s))
    PROVE  Number(b, n, 4) = Len(s) /\ End(b, n) = n + 4 + Len(s) /\ TextAt(b, n) = s
<1>1. Len(s) \in Nat /\ BigEndian(Len(s), 4) \in Texts /\ Len(BigEndian(Len(s), 4)) = 4
  BY LenProperties, BigEndianBytes DEF Texts
<1>2. At(b, n, BigEndian(Len(s), 4)) /\ At(b, n + 4, s)
  BY <1>1, AtConcat DEF Text
<1>3. Number(b, n, 4) = Len(s)
  BY <1>1, <1>2, NumberInverse
<1>4. End(b, n) = n + 4 + Len(s)
  BY <1>3 DEF End
<1>5. SubSeq(b, (n + 4) + 1, (n + 4) + Len(s)) = s
  <2> DEFINE m == n + 4
  <2>1. m \in Nat /\ At(b, m, s)
    BY <1>2
  <2> HIDE DEF m
  <2>2. SubSeq(b, m + 1, m + Len(s)) = s
    BY <2>1, AtSubSeq
  <2> QED BY <2>2 DEF m
<1>6. (n + 4) + 1 = n + 5
  OBVIOUS
<1> QED BY <1>3, <1>4, <1>5, <1>6 DEF TextAt

\* A number for which four bytes are enough is followed by others only.
LEMMA FitsLess ==
    ASSUME NEW v \in Nat, NEW w \in Nat, FourBytes(v), w <= v
    PROVE  Fits(w, 4)
<1>1. FourBytes(w)
  BY SMT DEF FourBytes
<1> QED BY <1>1, FitsFour

-----------------------------------------------------------------------------
(* Texts one behind another.                                               *)

\* The prefixes of FlattenSeq.
Joined(F, ps) == /\ F \in [0..Len(ps) -> Texts]
                 /\ F[0] = <<>>
                 /\ \A i \in 1..Len(ps) : F[i] = F[i - 1] \o ps[i]

\* The last of them is the whole.
LEMMA FlattenParts ==
    ASSUME NEW ps \in Seq(Texts)
    PROVE  \E F : Joined(F, ps) /\ FlattenSeq(ps) = F[Len(ps)]
<1>1. Len(ps) \in Nat /\ \A i \in 1..Len(ps) : ps[i] \in Texts
  BY LenProperties, ElementOfSeq
<1>2. CASE Len(ps) = 0
  <2> DEFINE F == [i \in 0..0 |-> <<>>]
  <2>1. ps = <<>>
    BY <1>2, EmptySeq
  <2>2. <<>> \in Texts
    BY EmptySeq DEF Texts
  <2>3. Joined(F, ps)
    BY <1>2, <2>2 DEF Joined
  <2>4. FlattenSeq(ps) = F[Len(ps)]
    BY <1>2, <2>1 DEF FlattenSeq
  <2> QED BY <2>3, <2>4
<1>3. CASE Len(ps) # 0
  <2> DEFINE n == Len(ps)
             base == {1}
             z == [i \in {1} |-> ps[1]]
             next == [i \in 1..n |-> i - 1]
             step == [i \in 1..n |-> [s \in Texts |-> s \o ps[i]]]
             rank == [i \in 1..n |-> i]
             Body(f) == [i \in 1..n |-> IF i = 1 THEN ps[i] ELSE f[i - 1] \o ps[i]]
             flatten == CHOOSE f : f = Body(f)
  <2>0. n \in Nat \ {0}
    BY <1>1, <1>3
  <2>1. rank \in [1..n -> Nat] /\ \A i \in 1..n \cap base : z[i] \in Texts
    BY <1>1, <2>0
  <2>2. ASSUME NEW i \in 1..n \ base
        PROVE  /\ next[i] \in 1..n /\ rank[next[i]] < rank[i]
               /\ \A s \in Texts : step[i][s] \in Texts
    <3>1. i - 1 \in 1..n /\ next[i] = i - 1
      BY <2>0
    <3>2. \A s \in Texts : step[i][s] = s \o ps[i] /\ ps[i] \in Texts
      BY <1>1
    <3>3. \A s \in Texts : step[i][s] \in Texts
      <4> HIDE DEF step
      <4> QED BY <3>2, BytesConcat
    <3> QED BY <3>1, <3>3
  <2>3. PICK f \in [1..n -> Texts] : Defined(f, 1..n, base, z, next, step)
    <3> HIDE DEF base, z, next, step, rank
    <3> QED BY <2>1, <2>2, Recursion
  <2>4. f = Body(f)
    <3>1. ASSUME NEW i \in 1..n
          PROVE  Body(f)[i] = IF i \in base THEN z[i] ELSE step[i][f[next[i]]]
      <4>1. CASE i = 1
        BY <4>1
      <4>2. CASE i # 1
        <5>1. i - 1 \in 1..n /\ next[i] = i - 1
          BY <2>0, <4>2
        <5>2. f[i - 1] \in Texts
          BY <5>1
        <5>3. step[i][f[i - 1]] = f[i - 1] \o ps[i]
          BY <5>2
        <5> QED BY <4>2, <5>1, <5>3
      <4> QED BY <4>1, <4>2
    <3>2. f = [i \in 1..n |-> IF i \in base THEN z[i] ELSE step[i][f[next[i]]]]
      BY <2>3 DEF Defined
    <3> HIDE DEF base, z, next, step
    <3>3. Body(f) = [i \in 1..n |-> Body(f)[i]]
      OBVIOUS
    <3> HIDE DEF Body
    <3> QED BY <3>1, <3>2, <3>3
  <2>5. FlattenSeq(ps) = flatten[n]
    BY <1>3 DEF FlattenSeq
  <2> HIDE DEF Body
  <2>6. flatten = Body(flatten)
    BY <2>4
  <2> HIDE DEF flatten
  <2> USE DEF Body
  <2>7. /\ flatten[1] = ps[1]
        /\ \A i \in 1..n \ {1} : flatten[i] = flatten[i - 1] \o ps[i]
    <3>1. flatten = [i \in 1..n |-> IF i = 1 THEN ps[i] ELSE flatten[i - 1] \o ps[i]]
      BY <2>6
    <3>2. 1 \in 1..n
      BY <2>0
    <3> HIDE DEF n
    <3> QED BY <3>1, <3>2
  <2> DEFINE F == [i \in 0..n |-> IF i = 0 THEN <<>> ELSE flatten[i]]
  <2> HIDE DEF n
  <2>8. F[0] = <<>> /\ \A i \in 1..n : F[i] = flatten[i]
    BY <2>0
  <2> HIDE DEF F
  <2>9. <<>> \in Texts
    BY EmptySeq DEF Texts
  <2>10. ASSUME NEW i \in 1..n
         PROVE  F[i] = F[i - 1] \o ps[i]
    <3>1. CASE i = 1
      <4>1. F[i] = ps[1] /\ F[i - 1] = <<>>
        BY <2>7, <2>8, <3>1
      <4>2. <<>> \o ps[1] = ps[1]
        BY <1>1, <3>1, ConcatEmptySeq DEF n, Texts
      <4> QED BY <3>1, <4>1, <4>2
    <3>2. CASE i # 1
      <4>1. i - 1 \in 1..n
        BY <2>0, <3>2
      <4> QED BY <2>7, <2>8, <3>2, <4>1
    <3> QED BY <3>1, <3>2
  <2>11. \A i \in 0..n : F[i] \in Texts
    <3> DEFINE T == {i \in Nat : i \in 0..n => F[i] \in Texts}
    <3>1. T \in SUBSET Nat /\ 0 \in T
      BY <2>8, <2>9
    <3>2. ASSUME NEW i \in T
          PROVE  i + 1 \in T
      <4> SUFFICES ASSUME i + 1 \in 0..n PROVE F[i + 1] \in Texts
        OBVIOUS
      <4>1. i \in 0..n /\ F[i] \in Texts /\ i + 1 \in 1..n /\ (i + 1) - 1 = i
        BY <2>0
      <4>2. ps[i + 1] \in Texts
        BY <1>1, <4>1 DEF n
      <4>3. F[i + 1] = F[i] \o ps[i + 1]
        BY <2>10, <4>1
      <4> QED BY <4>1, <4>2, <4>3, BytesConcat
    <3>3. T = Nat
      <4> HIDE DEF T
      <4> QED BY <3>1, <3>2, SetInduction
    <3> QED BY <2>0, <3>3
  <2>12. F \in [0..n -> Texts]
    <3>1. F = [i \in 0..n |-> F[i]]
      BY DEF F
    <3> QED BY <2>11, <3>1
  <2>13. Joined(F, ps)
    BY <2>8, <2>10, <2>12 DEF Joined, n
  <2>14. FlattenSeq(ps) = F[Len(ps)]
    BY <2>0, <2>5, <2>8 DEF n
  <2> QED BY <2>13, <2>14
<1> QED BY <1>2, <1>3

\* Each part is in the whole, where the prefix before it ends.
LEMMA PartsAt ==
    ASSUME NEW ps \in Seq(Texts), NEW F, Joined(F, ps), NEW i \in 1..Len(ps)
    PROVE  /\ Len(F[i - 1]) \in Nat /\ Len(F[i]) = Len(F[i - 1]) + Len(ps[i])
           /\ Len(F[i]) <= Len(F[Len(ps)])
           /\ At(F[Len(ps)], Len(F[i - 1]), ps[i])
<1> DEFINE n == Len(ps)
<1>1. n \in Nat /\ \A j \in 1..n : ps[j] \in Texts
  BY LenProperties, ElementOfSeq
<1> HIDE DEF n
<1>2. F \in [0..n -> Texts] /\ \A j \in 1..n : F[j] = F[j - 1] \o ps[j]
  BY DEF Joined, n
<1>3. i \in 1..n /\ i - 1 \in 0..n /\ i \in 0..n
  BY <1>1 DEF n
<1>4. F[i - 1] \in Texts /\ F[i] \in Texts /\ ps[i] \in Texts /\ F[i] = F[i - 1] \o ps[i]
  BY <1>1, <1>2, <1>3
<1>5. /\ Len(F[i]) = Len(F[i - 1]) + Len(ps[i])
      /\ Len(F[i - 1]) \in Nat /\ Len(ps[i]) \in Nat /\ Len(F[i]) \in Nat
  BY <1>4, BytesConcat
<1> DEFINE T == {j \in Nat : i + j <= n => /\ At(F[i + j], Len(F[i - 1]), ps[i])
                                           /\ Len(F[i]) <= Len(F[i + j])}
<1>6. T \in SUBSET Nat /\ 0 \in T
  <2>1. At(F[i], 0, F[i - 1] \o ps[i])
    BY <1>4, AtSelf
  <2>2. At(F[i], 0 + Len(F[i - 1]), ps[i])
    BY <1>4, <2>1, AtConcat
  <2>3. 0 + Len(F[i - 1]) = Len(F[i - 1]) /\ i + 0 = i
    BY <1>3, <1>5
  <2>4. At(F[i + 0], Len(F[i - 1]), ps[i]) /\ Len(F[i]) <= Len(F[i + 0])
    <3>1. At(F[i + 0], Len(F[i - 1]), ps[i])
      BY <2>2, <2>3, Zenon
    <3>2. Len(F[i]) <= Len(F[i])
      BY <1>5
    <3>3. Len(F[i]) <= Len(F[i + 0])
      BY <2>3, <3>2, Zenon
    <3> QED BY <3>1, <3>3
  <2> QED BY <2>4
<1>7. ASSUME NEW j \in T
      PROVE  j + 1 \in T
  <2> SUFFICES ASSUME i + (j + 1) <= n
               PROVE  /\ At(F[i + (j + 1)], Len(F[i - 1]), ps[i])
                      /\ Len(F[i]) <= Len(F[i + (j + 1)])
    OBVIOUS
  <2>1. /\ i + j \in 0..n /\ i + (j + 1) \in 1..n /\ (i + (j + 1)) - 1 = i + j
        /\ i + j <= n /\ i + (j + 1) \in 0..n
    BY <1>1, <1>3
  <2>2. At(F[i + j], Len(F[i - 1]), ps[i]) /\ Len(F[i]) <= Len(F[i + j])
    BY <2>1
  <2> HIDE DEF T
  <2>3. /\ F[i + j] \in Texts /\ F[i + (j + 1)] \in Texts /\ ps[i + (j + 1)] \in Texts
        /\ F[i + (j + 1)] = F[i + j] \o ps[i + (j + 1)]
    BY <1>1, <1>2, <2>1
  <2>4. At(F[i + (j + 1)], 0, F[i + j])
    BY <2>3, AtSelf, AtConcat
  <2>5. /\ Len(F[i + (j + 1)]) = Len(F[i + j]) + Len(ps[i + (j + 1)])
        /\ Len(F[i + j]) \in Nat /\ Len(ps[i + (j + 1)]) \in Nat
    BY <2>3, BytesConcat
  <2>6. Len(F[i - 1]) + Len(ps[i]) <= Len(F[i + j])
    BY <1>5, <2>2
  <2>7. At(F[i + (j + 1)], 0 + Len(F[i - 1]), ps[i])
    BY <1>4, <1>5, <2>2, <2>3, <2>4, <2>6, AtAt
  <2>8. 0 + Len(F[i - 1]) = Len(F[i - 1])
    BY <1>5
  <2>9. At(F[i + (j + 1)], Len(F[i - 1]), ps[i])
    BY <2>7, <2>8, Zenon
  <2>10. Len(F[i]) <= Len(F[i + j]) + Len(ps[i + (j + 1)])
    <3>1. \A x, y, z \in Nat : x <= y => x <= y + z
      OBVIOUS
    <3> QED BY <1>5, <2>2, <2>5, <3>1, Zenon
  <2>11. Len(F[i]) <= Len(F[i + (j + 1)])
    BY <2>5, <2>10, Zenon
  <2> QED BY <2>9, <2>11
<1>8. T = Nat
  <2> HIDE DEF T
  <2> QED BY <1>6, <1>7, SetInduction
<1>9. n - i \in Nat /\ i + (n - i) = n
  BY <1>1, <1>3
<1>10. At(F[n], Len(F[i - 1]), ps[i]) /\ Len(F[i]) <= Len(F[n])
  <2>1. n - i \in T
    BY <1>8, <1>9
  <2>2. i + (n - i) <= n => /\ At(F[i + (n - i)], Len(F[i - 1]), ps[i])
                            /\ Len(F[i]) <= Len(F[i + (n - i)])
    BY <2>1
  <2> HIDE DEF T
  <2> QED BY <1>1, <1>9, <2>2
<1> QED BY <1>5, <1>10 DEF n

-----------------------------------------------------------------------------
(* Metadata.                                                               *)

\* Functions from texts to texts.
Mds == UNION {[D -> Texts] : D \in SUBSET Texts}

\* What decodeMetadata may find from position n on, in l bytes of data.
Ends(data, l, n) == \/ n = l \/ n > l - 8 \/ End(data, n) > l - 4
                    \/ End(data, End(data, n)) > l
Rest(from, data, l, n) ==
    IF n = l THEN [md |-> NoMetadata, missing |-> FALSE]
    ELSE IF n > l - 8 \/ End(data, n) > l - 4 \/ End(data, End(data, n)) > l
    THEN [md |-> NoMetadata, missing |-> TRUE]
    ELSE [from[End(data, End(data, n))] EXCEPT
             !.md = Over(@, Pair(TextAt(data, n), TextAt(data, End(data, n))))]

\* Metadata with one text more, or in place of another.
LEMMA MdsExtend ==
    ASSUME NEW f \in Mds, NEW k \in Texts, NEW v \in Texts
    PROVE  Over(f, Pair(k, v)) \in Mds
<1>1. PICK D \in SUBSET Texts : f \in [D -> Texts]
  BY DEF Mds
<1>2. Over(f, Pair(k, v)) \in [D \cup {k} -> Texts]
  BY <1>1 DEF Over, Pair
<1> QED BY <1>2 DEF Mds

\* Lengths are read only where there are bytes.
LEMMA EndType ==
    ASSUME NEW data \in Texts, NEW n \in Nat, n + 4 <= Len(data)
    PROVE  End(data, n) \in Nat /\ End(data, n) >= n + 4 /\ Number(data, n, 4) \in Nat
<1>1. Len(data) \in Nat /\ \A i \in 1..Len(data) : data[i] \in Byte
  BY LenProperties, ElementOfSeq DEF Texts
<1>2. ASSUME NEW i \in 1..4
      PROVE  data[n + i] \in Byte
  <2>1. n + i \in 1..Len(data)
    BY <1>1
  <2> QED BY <1>1, <2>1
<1>3. Readable(data, n, 4)
  BY <1>2 DEF Readable
<1>4. Number(data, n, 4) \in Nat
  BY <1>3, NumberType
<1> QED BY <1>4 DEF End

\* So are texts.
LEMMA TextAtType ==
    ASSUME NEW data \in Texts, NEW n \in Nat, n + 4 <= Len(data), End(data, n) <= Len(data)
    PROVE  TextAt(data, n) \in Texts
<1>1. Len(data) \in Nat /\ \A i \in 1..Len(data) : data[i] \in Byte
  BY LenProperties, ElementOfSeq DEF Texts
<1>2. End(data, n) \in Nat /\ n + 5 \in Int
  BY EndType
<1>3. ASSUME NEW i \in (n + 5)..End(data, n)
      PROVE  data[i] \in Byte
  <2>1. i \in 1..Len(data)
    BY <1>1, <1>2
  <2> QED BY <1>1, <2>1
<1> QED BY <1>2, <1>3, SubSeqProperties DEF TextAt, Texts

\* decodeMetadata terminates: every pair ends behind its beginning.
LEMMA DecodeFrom ==
    ASSUME NEW data \in Texts, NEW l, l = Len(data)
    PROVE  \E from : /\ DecodeMetadata(data) = from[0]
                     /\ \A n \in 0..l : from[n] = Rest(from, data, l, n)
<1> DEFINE S == [md : Mds, missing : BOOLEAN]
           D == 0..l
           base == {n \in D : Ends(data, l, n)}
           z == [n \in D |-> [md |-> NoMetadata, missing |-> n # l]]
           next == [n \in D |-> End(data, End(data, n))]
           step == [n \in D |-> [x \in S |-> [x EXCEPT
                       !.md = Over(@, Pair(TextAt(data, n), TextAt(data, End(data, n))))]]]
           rank == [n \in D |-> l - n]
           Body(f) == [n \in D |-> Rest(f, data, l, n)]
           from == CHOOSE f : f = Body(f)
<1>1. l \in Nat
  BY LenProperties DEF Texts
<1>2. rank \in [D -> Nat] /\ \A n \in D \cap base : z[n] \in S
  <2>1. NoMetadata \in Mds
    <3>1. NoMetadata \in [{} -> Texts]
      BY DEF NoMetadata
    <3> QED BY <3>1 DEF Mds
  <2> QED BY <1>1, <2>1
<1>3. ASSUME NEW n \in D \ base
      PROVE  /\ next[n] \in D /\ rank[next[n]] < rank[n]
             /\ next[n] = End(data, End(data, n))
             /\ TextAt(data, n) \in Texts /\ TextAt(data, End(data, n)) \in Texts
  <2>1. n \in Nat /\ n + 4 <= l /\ End(data, n) <= l - 4 /\ End(data, End(data, n)) <= l
    <3>1. n \in Nat /\ ~(n > l - 8)
      BY <1>1 DEF Ends
    <3>2. n + 4 <= l
      BY <1>1, <3>1
    <3>3. End(data, n) \in Nat
      BY <3>1, <3>2, EndType
    <3>4. End(data, n) <= l - 4
      BY <1>1, <3>3 DEF Ends
    <3>5. End(data, n) + 4 <= l
      BY <1>1, <3>3, <3>4
    <3>6. End(data, End(data, n)) \in Nat
      BY <3>3, <3>5, EndType
    <3>7. End(data, End(data, n)) <= l
      BY <1>1, <3>6 DEF Ends
    <3> QED BY <3>1, <3>2, <3>4, <3>7
  <2>2. End(data, n) \in Nat /\ End(data, n) >= n + 4
    BY <2>1, EndType
  <2>3. End(data, n) + 4 <= l
    BY <1>1, <2>1, <2>2
  <2>4. End(data, End(data, n)) \in Nat /\ End(data, End(data, n)) >= End(data, n) + 4
    BY <2>2, <2>3, EndType
  <2>5. next[n] = End(data, End(data, n))
    OBVIOUS
  <2> HIDE DEF next
  <2>6. next[n] \in D /\ rank[next[n]] < rank[n]
    BY <1>1, <2>1, <2>2, <2>4, <2>5
  <2>7. End(data, n) <= l
    BY <1>1, <2>2, <2>3
  <2> QED BY <2>1, <2>2, <2>3, <2>5, <2>6, <2>7, TextAtType
<1>4. ASSUME NEW n \in D \ base, NEW x \in S
      PROVE  step[n][x] \in S
  <2>1. Over(x.md, Pair(TextAt(data, n), TextAt(data, End(data, n)))) \in Mds
    BY <1>3, MdsExtend
  <2> DEFINE m == Over(x.md, Pair(TextAt(data, n), TextAt(data, End(data, n))))
  <2>2. step[n][x] = [x EXCEPT !.md = m]
    OBVIOUS
  <2> HIDE DEF m, step
  <2> QED BY <2>1, <2>2 DEF m
<1>5. PICK f \in [D -> S] : Defined(f, D, base, z, next, step)
  <2>1. \A n \in D \ base : /\ next[n] \in D /\ rank[next[n]] < rank[n]
                            /\ \A x \in S : step[n][x] \in S
    <3> HIDE DEF D, S, base, z, next, step, rank
    <3> QED BY <1>3, <1>4
  <2> HIDE DEF D, S, base, z, next, step, rank
  <2> QED BY <1>2, <2>1, Recursion
<1>6. f = Body(f)
  <2>1. ASSUME NEW n \in D
        PROVE  Rest(f, data, l, n) = IF n \in base THEN z[n] ELSE step[n][f[next[n]]]
    <3>1. CASE n \in base
      <4>1. z[n] = [md |-> NoMetadata, missing |-> n # l] /\ Ends(data, l, n)
        BY <3>1
      <4> QED BY <3>1, <4>1 DEF Rest, Ends
    <3>2. CASE n \notin base
      <4>1. f[next[n]] \in S /\ next[n] = End(data, End(data, n))
        <5>1. next[n] \in D /\ next[n] = End(data, End(data, n))
          BY <1>3, <3>2
        <5> HIDE DEF D, S, next
        <5> QED BY <5>1
      <4>2. step[n][f[next[n]]] = [f[next[n]] EXCEPT
                       !.md = Over(@, Pair(TextAt(data, n), TextAt(data, End(data, n))))]
        <5> DEFINE x == f[next[n]]
        <5>1. x \in S
          BY <4>1
        <5> HIDE DEF x, S
        <5>2. step[n][x] = [x EXCEPT
                       !.md = Over(@, Pair(TextAt(data, n), TextAt(data, End(data, n))))]
          BY <5>1
        <5> QED BY <5>2 DEF x
      <4>3. Rest(f, data, l, n) = [f[End(data, End(data, n))] EXCEPT
                       !.md = Over(@, Pair(TextAt(data, n), TextAt(data, End(data, n))))]
        <5>1. ~Ends(data, l, n)
          BY <3>2
        <5> QED BY <5>1 DEF Rest, Ends
      <4> HIDE DEF next, step
      <4> QED BY <3>2, <4>1, <4>2, <4>3
    <3> QED BY <3>1, <3>2
  <2>2. f = [n \in D |-> IF n \in base THEN z[n] ELSE step[n][f[next[n]]]]
    BY <1>5 DEF Defined
  <2> HIDE DEF D, S, base, z, next, step, rank
  <2> QED BY <2>1, <2>2
<1>7. DecodeMetadata(data) = from[0]
  BY DEF DecodeMetadata, Rest
<1> HIDE DEF Body
<1>8. from = Body(from)
  BY <1>6
<1> HIDE DEF from
<1> USE DEF Body
<1>9. \A n \in D : from[n] = Rest(from, data, l, n)
  BY <1>8
<1> QED BY <1>7, <1>9

\* The prefixes of a sequence of texts are unique.
LEMMA JoinedAgree ==
    ASSUME NEW ps \in Seq(Texts), NEW qs \in Seq(Texts), NEW n \in Nat,
           n <= Len(ps), n <= Len(qs), \A i \in 1..n : ps[i] = qs[i],
           NEW F, Joined(F, ps), NEW G, Joined(G, qs)
    PROVE  F[n] = G[n]
<1> DEFINE T == {j \in Nat : j <= n => F[j] = G[j]}
<1>0. Len(ps) \in Nat /\ Len(qs) \in Nat
  BY LenProperties
<1>1. T \in SUBSET Nat /\ 0 \in T
  BY DEF Joined
<1>2. ASSUME NEW j \in T
      PROVE  j + 1 \in T
  <2> SUFFICES ASSUME j + 1 <= n PROVE F[j + 1] = G[j + 1]
    OBVIOUS
  <2>1. /\ j \in Nat /\ j <= n /\ F[j] = G[j] /\ j + 1 \in 1..n /\ (j + 1) - 1 = j
        /\ j + 1 \in 1..Len(ps) /\ j + 1 \in 1..Len(qs)
    BY <1>0
  <2>2. F[j + 1] = F[j] \o ps[j + 1]
    BY <2>1 DEF Joined
  <2>3. G[j + 1] = G[j] \o qs[j + 1]
    BY <2>1 DEF Joined
  <2>4. ps[j + 1] = qs[j + 1]
    BY <2>1
  <2> QED BY <2>1, <2>2, <2>3, <2>4
<1>3. T = Nat
  <2> HIDE DEF T
  <2> QED BY <1>1, <1>2, SetInduction
<1> QED BY <1>3

\* FlattenSeq with one text more at the end, ...
LEMMA FlattenAppend ==
    ASSUME NEW ps \in Seq(Texts), NEW s \in Texts
    PROVE  FlattenSeq(Append(ps, s)) = FlattenSeq(ps) \o s
<1> DEFINE qs == Append(ps, s)
           n == Len(ps)
<1>1. /\ qs \in Seq(Texts) /\ n \in Nat /\ Len(qs) = n + 1 /\ qs[n + 1] = s
      /\ \A i \in 1..n : ps[i] = qs[i]
  BY AppendProperties, LenProperties
<1>2. PICK F : Joined(F, ps) /\ FlattenSeq(ps) = F[n]
  BY FlattenParts
<1> HIDE DEF qs
<1>3. PICK G : Joined(G, qs) /\ FlattenSeq(qs) = G[n + 1]
  BY <1>1, FlattenParts
<1> HIDE DEF n
<1>4. F[n] = G[n]
  <2>1. n <= Len(ps) /\ n <= Len(qs)
    BY <1>1 DEF n
  <2> QED BY <1>1, <1>2, <1>3, <2>1, JoinedAgree
<1>5. n + 1 \in 1..Len(qs) /\ (n + 1) - 1 = n
  BY <1>1
<1>6. G[n + 1] = G[n] \o qs[n + 1]
  BY <1>3, <1>5 DEF Joined
<1> QED BY <1>1, <1>2, <1>3, <1>4, <1>6 DEF qs

\* ... and without the first one.
LEMMA FlattenHead ==
    ASSUME NEW ps \in Seq(Texts), ps # <<>>
    PROVE  /\ ps[1] \in Texts /\ Tail(ps) \in Seq(Texts) /\ FlattenSeq(Tail(ps)) \in Texts
           /\ FlattenSeq(ps) = ps[1] \o FlattenSeq(Tail(ps))
<1> DEFINE qs == Tail(ps)
           n == Len(qs)
<1>1. /\ Len(ps) \in Nat \ {0} /\ qs \in Seq(Texts) /\ n \in Nat /\ Len(ps) = n + 1
      /\ \A i \in 1..n : qs[i] = ps[i + 1]
  BY HeadTailProperties, LenProperties, EmptySeq
<1>2. ps[1] \in Texts /\ \A i \in 1..n + 1 : ps[i] \in Texts
  BY <1>1, ElementOfSeq
<1>3. PICK F : Joined(F, ps) /\ FlattenSeq(ps) = F[Len(ps)]
  BY FlattenParts
<1> HIDE DEF qs
<1>4. PICK G : Joined(G, qs) /\ FlattenSeq(qs) = G[n]
  BY <1>1, FlattenParts
<1> HIDE DEF n
<1>5. /\ G \in [0..n -> Texts] /\ G[0] = <<>> /\ \A i \in 1..n : G[i] = G[i - 1] \o qs[i]
      /\ F \in [0..n + 1 -> Texts] /\ F[0] = <<>> /\ \A i \in 1..n + 1 : F[i] = F[i - 1] \o ps[i]
  BY <1>1, <1>3, <1>4 DEF Joined, n
<1> DEFINE P(j) == F[j + 1] = ps[1] \o G[j]
           T == {j \in Nat : j <= n => P(j)}
<1>6. T \in SUBSET Nat /\ 0 \in T
  <2>1. F[1] = F[0] \o ps[1]
    <3>1. 1 \in 1..n + 1 /\ 1 - 1 = 0
      BY <1>1
    <3> QED BY <1>5, <3>1
  <2>2. F[1] = ps[1] /\ ps[1] \o <<>> = ps[1]
    BY <1>2, <1>5, <2>1, ConcatEmptySeq DEF Texts
  <2>3. F[0 + 1] = F[1]
    OBVIOUS
  <2>4. F[0 + 1] = ps[1] \o G[0]
    BY <1>5, <2>2, <2>3, Zenon
  <2>5. P(0)
    BY <2>4
  <2> HIDE DEF P
  <2> QED BY <2>5
<1> HIDE DEF P
<1>7. ASSUME NEW j \in T
      PROVE  j + 1 \in T
  <2> SUFFICES ASSUME j + 1 <= n PROVE P(j + 1)
    OBVIOUS
  <2>1. /\ j \in Nat /\ j <= n /\ j + 1 \in 1..n /\ (j + 1) - 1 = j /\ j \in 0..n
        /\ (j + 1) + 1 \in 1..n + 1 /\ ((j + 1) + 1) - 1 = j + 1
    BY <1>1
  <2>a. P(j)
    BY <2>1
  <2> HIDE DEF T
  <2>2. F[j + 1] = ps[1] \o G[j]
    BY <2>a DEF P
  <2>3. F[(j + 1) + 1] = F[j + 1] \o ps[(j + 1) + 1]
    BY <1>5, <2>1
  <2>4. G[j + 1] = G[j] \o qs[j + 1]
    BY <1>5, <2>1
  <2>5. qs[j + 1] = ps[(j + 1) + 1] /\ ps[(j + 1) + 1] \in Texts /\ G[j] \in Texts
    BY <1>1, <1>2, <1>5, <2>1
  <2>6. (ps[1] \o G[j]) \o ps[(j + 1) + 1] = ps[1] \o (G[j] \o ps[(j + 1) + 1])
    <3> DEFINE x == ps[1]
               y == G[j]
               z == ps[(j + 1) + 1]
    <3>1. x \in Seq(Byte) /\ y \in Seq(Byte) /\ z \in Seq(Byte)
      BY <1>2, <2>1, <2>5 DEF Texts
    <3> HIDE DEF x, y, z
    <3>2. (x \o y) \o z = x \o (y \o z)
      BY <3>1, ConcatAssociative
    <3> QED BY <3>2 DEF x, y, z
  <2>7. F[(j + 1) + 1] = ps[1] \o G[j + 1]
    BY <2>2, <2>3, <2>4, <2>5, <2>6, Zenon
  <2> QED BY <2>7 DEF P
<1>8. T = Nat
  <2> HIDE DEF T
  <2> QED BY <1>6, <1>7, SetInduction
<1>9. P(n) /\ G[n] \in Texts
  <2>1. n \in T /\ n <= n /\ n \in 0..n
    BY <1>1, <1>8
  <2>2. P(n)
    BY <2>1
  <2> HIDE DEF T
  <2> QED BY <1>5, <2>1, <2>2
<1>10. F[n + 1] = ps[1] \o G[n]
  BY <1>9 DEF P
<1> QED BY <1>1, <1>2, <1>3, <1>4, <1>9, <1>10 DEF qs

\* The sequences of SetToSeqs have every element of the set, each once.
LEMMA SetToSeqsType ==
    ASSUME NEW S, IsFiniteSet(S), NEW q \in SetToSeqs(S)
    PROVE  /\ Cardinality(S) \in Nat /\ q \in [1..Cardinality(S) -> S]
           /\ q \in Seq(S) /\ Len(q) = Cardinality(S) /\ DOMAIN q = 1..Cardinality(S)
           /\ \A i, j \in 1..Cardinality(S) : q[i] = q[j] => i = j
           /\ \A x \in S : \E i \in 1..Cardinality(S) : q[i] = x
<1> DEFINE n == Cardinality(S)
<1>1. n \in Nat
  BY FS_CardinalityType
<1>2. q \in [1..n -> S] /\ \A i, j \in 1..n : q[i] = q[j] => i = j
  BY DEF SetToSeqs
<1>3. q \in Seq(S) /\ Len(q) = n
  BY <1>1, <1>2, SeqDef, LenProperties
<1>4. q \in Injection(1..n, S)
  BY <1>2 DEF Injection, IsInjective
<1>5. IsFiniteSet(1..n) /\ Cardinality(1..n) = n
  <2>1. 1 \in Int /\ n \in Int
    BY <1>1
  <2>2. /\ IsFiniteSet(1..n)
        /\ Cardinality(1..n) = IF 1 > n THEN 0 ELSE n - 1 + 1
    BY <2>1, FS_Interval
  <2> QED BY <1>1, <2>2
<1>6. q \in Surjection(1..n, S)
  BY <1>4, <1>5, FS_Injection
<1>7. \A x \in S : \E i \in 1..n : q[i] = x
  BY <1>6 DEF Surjection
<1> QED BY <1>1, <1>2, <1>3, <1>7

\* A key with its value, as encodeMetadata writes them.
PairText(m, k) == Text(k) \o Text(m[k])

\* A key with its value is a text.
LEMMA PairType ==
    ASSUME NEW m, IsMetadata(m), NEW k \in DOMAIN m
    PROVE  /\ k \in Texts /\ m[k] \in Texts /\ PairText(m, k) \in Texts
           /\ Len(k) \in Nat /\ Len(m[k]) \in Nat
           /\ Len(PairText(m, k)) = 8 + Len(k) + Len(m[k])
<1>1. k \in Texts /\ m[k] \in Texts
  BY DEF IsMetadata
<1>2. /\ Text(k) \in Texts /\ Len(Text(k)) = 4 + Len(k) /\ Len(k) \in Nat
      /\ Text(m[k]) \in Texts /\ Len(Text(m[k])) = 4 + Len(m[k]) /\ Len(m[k]) \in Nat
  BY <1>1, TextType
<1>3. PairText(m, k) \in Texts /\ Len(PairText(m, k)) = Len(Text(k)) + Len(Text(m[k]))
  BY <1>2, BytesConcat DEF PairText
<1> QED BY <1>1, <1>2, <1>3

\* Where a pair was written, one step of decodeMetadata reads it.
LEMMA PairRead ==
    ASSUME NEW m, IsMetadata(m), NEW k \in DOMAIN m,
           NEW data \in Texts, NEW l, l = Len(data), FourBytes(l),
           NEW n \in Nat, At(data, n, PairText(m, k)), n + Len(PairText(m, k)) <= l,
           NEW from
    PROVE  Rest(from, data, l, n) = [from[n + Len(PairText(m, k))] EXCEPT
                                        !.md = Over(@, Pair(k, m[k]))]
<1>1. /\ k \in Texts /\ m[k] \in Texts /\ Len(k) \in Nat /\ Len(m[k]) \in Nat
      /\ Len(PairText(m, k)) = 8 + Len(k) + Len(m[k])
  BY PairType
<1>2. l \in Nat
  BY LenProperties DEF Texts
<1>3. Fits(Len(k), 4) /\ Fits(Len(m[k]), 4)
  <2>1. Len(k) <= l /\ Len(m[k]) <= l
    BY <1>1, <1>2
  <2> QED BY <1>1, <1>2, <2>1, FitsLess
<1>4. At(data, n, Text(k)) /\ At(data, n + Len(Text(k)), Text(m[k])) /\ Len(Text(k)) = 4 + Len(k)
  BY <1>1, TextType, AtConcat DEF PairText
<1>5. End(data, n) = n + 4 + Len(k) /\ TextAt(data, n) = k
  BY <1>1, <1>3, <1>4, TextRead
<1> DEFINE e == n + 4 + Len(k)
<1>6. e \in Nat /\ n + Len(Text(k)) = e
  BY <1>1, <1>4
<1> HIDE DEF e
<1>7. At(data, e, Text(m[k]))
  BY <1>4, <1>6
<1>8. End(data, e) = e + 4 + Len(m[k]) /\ TextAt(data, e) = m[k]
  BY <1>1, <1>3, <1>6, <1>7, TextRead
<1>9. e + 4 + Len(m[k]) = n + Len(PairText(m, k)) /\ n # l /\ ~(n > l - 8) /\ ~(e > l - 4)
  BY <1>1, <1>2 DEF e
<1>10. End(data, n) = e
  BY <1>5 DEF e
<1>11. ~(End(data, e) > l)
  BY <1>2, <1>8, <1>9
<1> QED BY <1>5, <1>8, <1>9, <1>10, <1>11 DEF Rest

\* The metadata of the keys behind position i.
Later(m, q, i) == [k \in {q[j] : j \in (i + 1)..Len(q)} |-> m[k]]

\* With one key more.
LEMMA LaterPair ==
    ASSUME NEW m, IsMetadata(m), NEW q \in SetToSeqs(DOMAIN m), NEW i \in 1..Len(q)
    PROVE  Over(Later(m, q, i), Pair(q[i], m[q[i]])) = Later(m, q, i - 1)
<1>1. Len(q) \in Nat /\ \A j, k \in 1..Len(q) : q[j] = q[k] => j = k
  BY SetToSeqsType DEF IsMetadata
<1> DEFINE K == {q[j] : j \in (i + 1)..Len(q)}
           L == {q[j] : j \in ((i - 1) + 1)..Len(q)}
<1>2. L = K \cup {q[i]}
  <2>1. ((i - 1) + 1)..Len(q) = ((i + 1)..Len(q)) \cup {i}
    BY <1>1
  <2> HIDE DEF K, L
  <2>2. L = {q[j] : j \in ((i + 1)..Len(q)) \cup {i}}
    BY <2>1 DEF L
  <2> QED BY <2>2 DEF K
<1>3. q[i] \notin K
  <2> SUFFICES ASSUME NEW j \in (i + 1)..Len(q), q[j] = q[i] PROVE FALSE
    OBVIOUS
  <2>1. j \in 1..Len(q) /\ j # i
    BY <1>1
  <2> QED BY <1>1, <2>1
<1>4. Later(m, q, i) = [k \in K |-> m[k]] /\ Later(m, q, i - 1) = [k \in L |-> m[k]]
  BY DEF Later
<1> HIDE DEF K, L
<1>5. Over([k \in K |-> m[k]], Pair(q[i], m[q[i]])) = [k \in K \cup {q[i]} |-> m[k]]
  BY <1>3 DEF Over, Pair
<1> QED BY <1>2, <1>4, <1>5

\* decodeMetadata reads what encodeMetadata writes, in whichever order it
\* iterates over the map (message.go:345-388).
THEOREM MetadataInverse ==
    ASSUME NEW m, IsMetadata(m), NEW data \in EncodeMetadata(m),
           FourBytes(Len(data))
    PROVE  /\ data \in Texts
           /\ DecodeMetadata(data) = [md |-> m, missing |-> FALSE]
           /\ Len(data) = 0 <=> m = NoMetadata
<1>1. PICK q \in SetToSeqs(DOMAIN m) :
           data = FlattenSeq([i \in 1..Len(q) |-> PairText(m, q[i])])
  BY DEF EncodeMetadata, PairText
<1> DEFINE n == Len(q)
           ps == [i \in 1..n |-> PairText(m, q[i])]
<1>2. /\ n \in Nat /\ \A i \in 1..n : q[i] \in DOMAIN m
      /\ \A x \in DOMAIN m : \E i \in 1..n : q[i] = x
  BY SetToSeqsType DEF IsMetadata
<1>3. \A i \in 1..n : /\ PairText(m, q[i]) \in Texts
                      /\ Len(PairText(m, q[i])) \in Nat /\ Len(PairText(m, q[i])) >= 8
  <2> SUFFICES ASSUME NEW i \in 1..n
               PROVE  /\ PairText(m, q[i]) \in Texts
                      /\ Len(PairText(m, q[i])) \in Nat /\ Len(PairText(m, q[i])) >= 8
    OBVIOUS
  <2>1. q[i] \in DOMAIN m
    BY <1>2
  <2> HIDE DEF n
  <2>2. /\ PairText(m, q[i]) \in Texts
        /\ Len(q[i]) \in Nat /\ Len(m[q[i]]) \in Nat
        /\ Len(PairText(m, q[i])) = 8 + Len(q[i]) + Len(m[q[i]])
    BY <2>1, PairType
  <2> DEFINE x == Len(PairText(m, q[i]))
             y == Len(q[i])
             z == Len(m[q[i]])
  <2>3. x = 8 + y + z /\ y \in Nat /\ z \in Nat
    BY <2>2
  <2> HIDE DEF x, y, z
  <2>4. x \in Nat /\ x >= 8
    BY <2>3
  <2> QED BY <2>2, <2>4 DEF x
<1> HIDE DEF n
<1>4. ps \in Seq(Texts) /\ Len(ps) = n /\ \A i \in 1..n : ps[i] = PairText(m, q[i])
  <2>1. ps \in [1..n -> Texts]
    BY <1>3
  <2> QED BY <1>2, <2>1, SeqDef, LenProperties
<1>5. data = FlattenSeq(ps)
  BY <1>1 DEF n
<1> HIDE DEF ps
<1>6. PICK F : Joined(F, ps) /\ FlattenSeq(ps) = F[Len(ps)]
  BY <1>4, FlattenParts
<1>7. F \in [0..n -> Texts] /\ F[0] = <<>> /\ F[n] = data
  BY <1>4, <1>5, <1>6 DEF Joined
<1>8. data \in Texts
  BY <1>2, <1>7
<1> DEFINE l == Len(data)
<1>9. l \in Nat /\ FourBytes(l)
  BY <1>8, LenProperties DEF Texts
<1> HIDE DEF l
<1>10. PICK from : /\ DecodeMetadata(data) = from[0]
                   /\ \A x \in 0..l : from[x] = Rest(from, data, l, x)
  BY <1>8, DecodeFrom DEF l
<1>11. ASSUME NEW i \in 1..n
       PROVE  /\ Len(F[i - 1]) \in Nat /\ Len(F[i]) = Len(F[i - 1]) + Len(PairText(m, q[i]))
              /\ Len(F[i]) <= l /\ At(data, Len(F[i - 1]), PairText(m, q[i]))
  <2>1. i \in 1..Len(ps) /\ ps[i] = PairText(m, q[i]) /\ F[Len(ps)] = data
    BY <1>4, <1>7
  <2>2. /\ Len(F[i - 1]) \in Nat /\ Len(F[i]) = Len(F[i - 1]) + Len(ps[i])
        /\ Len(F[i]) <= Len(F[Len(ps)])
        /\ At(F[Len(ps)], Len(F[i - 1]), ps[i])
    BY <1>4, <1>6, <2>1, PartsAt
  <2>3. F[Len(ps)] = data /\ Len(data) = l
    BY <2>1 DEF l
  <2> QED BY <2>1, <2>2, <2>3, Zenon
<1> DEFINE Found(i) == from[Len(F[i])] = [md |-> Later(m, q, i), missing |-> FALSE]
           T == {j \in Nat : j <= n => Found(n - j)}
<1>12. Found(n)
  <2>1. Len(F[n]) = l /\ l \in 0..l
    BY <1>7, <1>9 DEF l
  <2>2. from[l] = [md |-> NoMetadata, missing |-> FALSE]
    BY <1>10, <2>1 DEF Rest
  <2>3. Later(m, q, n) = NoMetadata
    <3>1. (n + 1)..Len(q) = {}
      BY <1>2 DEF n
    <3>2. {q[j] : j \in (n + 1)..Len(q)} = {}
      BY <3>1
    <3>3. Later(m, q, n) = [k \in {} |-> m[k]]
      BY <3>2 DEF Later
    <3> QED BY <3>3 DEF NoMetadata
  <2> QED BY <2>1, <2>2, <2>3
<1>13. ASSUME NEW i \in 1..n, Found(i)
       PROVE  Found(i - 1)
  <2> DEFINE x == Len(F[i - 1])
             y == Len(F[i])
  <2>1. q[i] \in DOMAIN m /\ Len(PairText(m, q[i])) \in Nat /\ Len(PairText(m, q[i])) >= 8
    BY <1>2, <1>3
  <2>2. /\ x \in Nat /\ y = x + Len(PairText(m, q[i]))
        /\ y <= l /\ At(data, x, PairText(m, q[i]))
    BY <1>11
  <2>3. from[y] = [md |-> Later(m, q, i), missing |-> FALSE]
    BY <1>13
  <2> HIDE DEF x, y, Found
  <2>4. x \in 0..l /\ x + Len(PairText(m, q[i])) <= l
    BY <1>9, <2>1, <2>2
  <2>5. from[x] = Rest(from, data, l, x)
    BY <1>10, <2>4
  <2>6. Rest(from, data, l, x) = [from[x + Len(PairText(m, q[i]))] EXCEPT
                                     !.md = Over(@, Pair(q[i], m[q[i]]))]
    BY <1>8, <1>9, <2>1, <2>2, <2>4, PairRead DEF l
  <2>7. from[x] = [from[y] EXCEPT !.md = Over(@, Pair(q[i], m[q[i]]))]
    BY <2>2, <2>5, <2>6
  <2>8. Over(Later(m, q, i), Pair(q[i], m[q[i]])) = Later(m, q, i - 1)
    BY LaterPair DEF n
  <2>9. [from[y] EXCEPT !.md = Over(@, Pair(q[i], m[q[i]]))]
            = [md |-> Later(m, q, i - 1), missing |-> FALSE]
    <3> DEFINE v == from[y]
               a == Later(m, q, i)
               b == Later(m, q, i - 1)
               p == Pair(q[i], m[q[i]])
    <3>1. v = [md |-> a, missing |-> FALSE] /\ Over(a, p) = b
      BY <2>3, <2>8
    <3> HIDE DEF v, a, b, p
    <3>2. v.md = a
      BY <3>1
    <3>3. [v EXCEPT !.md = Over(@, p)] = [v EXCEPT !.md = b]
      BY <3>1, <3>2, Zenon
    <3>4. [v EXCEPT !.md = b] = [md |-> b, missing |-> FALSE]
      <4> DEFINE c == FALSE
      <4>1. v = [md |-> a, missing |-> c]
        BY <3>1
      <4> HIDE DEF c
      <4>2. v \in [md : {a}, missing : {c}]
        BY <4>1
      <4>3. [v EXCEPT !.md = b] = [md |-> b, missing |-> c]
        BY <4>2
      <4> QED BY <4>3 DEF c
    <3>5. [v EXCEPT !.md = Over(@, p)] = [md |-> b, missing |-> FALSE]
      BY <3>3, <3>4, Zenon
    <3> QED BY <3>5 DEF v, b, p
  <2>10. from[x] = [md |-> Later(m, q, i - 1), missing |-> FALSE]
    BY <2>7, <2>9, Zenon
  <2> QED BY <2>10 DEF x, Found
<1> HIDE DEF Found
<1>14. T = Nat
  <2>1. T \in SUBSET Nat /\ 0 \in T
    <3>1. n - 0 = n
      BY <1>2
    <3> QED BY <1>12, <3>1
  <2>2. ASSUME NEW j \in T
        PROVE  j + 1 \in T
    <3> SUFFICES ASSUME j + 1 <= n PROVE Found(n - (j + 1))
      OBVIOUS
    <3>1. j \in Nat /\ n - j \in 1..n /\ (n - j) - 1 = n - (j + 1) /\ j <= n
      BY <1>2
    <3>2. Found(n - j)
      BY <3>1
    <3> HIDE DEF T
    <3>3. Found((n - j) - 1)
      BY <1>13, <3>1, <3>2
    <3> QED BY <3>1, <3>3
  <2> HIDE DEF T
  <2> QED BY <2>1, <2>2, SetInduction
<1>15. Found(0)
  <2>1. n - n = 0 /\ n <= n
    BY <1>2
  <2>2. n \in T
    BY <1>2, <1>14
  <2>3. Found(n - n)
    BY <2>1, <2>2
  <2> QED BY <2>1, <2>3
<1>16. Later(m, q, 0) = m
  <2>1. {q[j] : j \in (0 + 1)..Len(q)} = DOMAIN m
    <3>1. Len(q) = n /\ (0 + 1)..n = 1..n
      BY DEF n
    <3>2. {q[j] : j \in 1..n} = DOMAIN m
      BY <1>2
    <3> QED BY <3>1, <3>2
  <2>2. m = [k \in DOMAIN m |-> m[k]]
    BY DEF IsMetadata
  <2> QED BY <2>1, <2>2 DEF Later
<1>17. DecodeMetadata(data) = [md |-> m, missing |-> FALSE]
  <2>1. Len(F[0]) = 0
    BY <1>7
  <2> QED BY <1>10, <1>15, <1>16, <2>1 DEF Found
<1>18. Len(data) = 0 <=> m = NoMetadata
  <2>1. CASE n = 0
    <3>1. Len(data) = 0
      BY <1>7, <2>1
    <3>2. DOMAIN m = {}
      <4>1. 1..n = {}
        BY <2>1
      <4> QED BY <1>2, <4>1
    <3>3. m = [k \in {} |-> m[k]]
      BY <3>2 DEF IsMetadata
    <3> QED BY <3>1, <3>3 DEF NoMetadata
  <2>2. CASE n # 0
    <3>1. n \in 1..n
      BY <1>2, <2>2
    <3>2. Len(data) # 0
      BY <1>3, <1>7, <1>11, <3>1 DEF l
    <3>3. DOMAIN m # {}
      BY <1>2, <3>1
    <3> QED BY <3>2, <3>3 DEF NoMetadata
  <2> QED BY <2>1, <2>2
<1> QED BY <1>8, <1>17, <1>18

-----------------------------------------------------------------------------
(* A message.                                                              *)

\* What Encode writes as the program means it to be read.
Sound(m) == /\ IsMessage(m) /\ m.header[1] = MagicNumber
            /\ CompressType(m.header) \in {None, Gzip} /\ FitsWire(m)

\* The payload as it is written.
Packed(m) == IF CompressType(m.header) = Gzip THEN Compressed(m.payload) ELSE m.payload

\* The data of a message, between the length of all of it and its end.
Data(m, metadata) == Text(m.servicePath) \o Text(m.serviceMethod)
                       \o Text(metadata) \o Text(Packed(m))

\* The payload is unpacked as it was packed.
LEMMA PackedType ==
    ASSUME NEW m, Sound(m)
    PROVE  /\ Packed(m) \in Texts
           /\ CompressType(m.header) = Gzip => Uncompressed(Packed(m)) = m.payload
<1>1. m.payload \in Texts
  BY DEF Sound, IsMessage
<1>2. <<31, 139>> \in Texts /\ Len(<<31, 139>>) = 2
  BY DEF Texts, Byte
<1>3. Compressed(m.payload) \in Texts /\ Len(Compressed(m.payload)) = 2 + Len(m.payload)
  BY <1>1, <1>2, BytesConcat DEF Compressed
<1>4. Uncompressed(Compressed(m.payload)) = m.payload
  <2> DEFINE s == Compressed(m.payload)
  <2>1. At(s, 0, s)
    BY <1>3, AtSelf
  <2>2. At(s, 0 + Len(<<31, 139>>), m.payload)
    BY ZenonT(100), <1>1, <1>2, <2>1, AtConcat DEF Compressed
  <2>3. At(s, 2, m.payload) /\ 2 \in Nat
    BY <1>2, <2>2
  <2> HIDE DEF s
  <2>4. SubSeq(s, 2 + 1, 2 + Len(m.payload)) = m.payload
    BY <1>1, <2>3, AtSubSeq
  <2>5. Len(s) = 2 + Len(m.payload) /\ 2 + 1 = 3
    BY <1>3 DEF s
  <2>6. SubSeq(s, 3, Len(s)) = m.payload
    BY <2>4, <2>5
  <2> QED BY <2>6 DEF s, Uncompressed
<1> QED BY <1>1, <1>3, <1>4 DEF Packed

\* Where the parts of the data are.
LEMMA DataParts ==
    ASSUME NEW m, Sound(m), NEW metadata \in Texts
    PROVE  LET body   == Data(m, metadata)
               method == 4 + Len(m.servicePath)
               meta   == method + 4 + Len(m.serviceMethod)
               rest   == meta + 4 + Len(metadata)
           IN  /\ body \in Texts /\ Len(body) = rest + 4 + Len(Packed(m))
               /\ method \in Nat /\ meta \in Nat /\ rest \in Nat
               /\ At(body, 0, Text(m.servicePath))
               /\ At(body, method, Text(m.serviceMethod))
               /\ At(body, meta, Text(metadata))
               /\ At(body, rest, Text(Packed(m)))
<1> DEFINE body   == Data(m, metadata)
           method == 4 + Len(m.servicePath)
           meta   == method + 4 + Len(m.serviceMethod)
           rest   == meta + 4 + Len(metadata)
           t1 == Text(m.servicePath)
           t2 == Text(m.serviceMethod)
           t3 == Text(metadata)
           t4 == Text(Packed(m))
<1>1. m.servicePath \in Texts /\ m.serviceMethod \in Texts /\ Packed(m) \in Texts
  BY PackedType DEF Sound, IsMessage
<1>2. /\ t1 \in Texts /\ Len(t1) = method /\ Len(m.servicePath) \in Nat
      /\ t2 \in Texts /\ Len(t2) = 4 + Len(m.serviceMethod) /\ Len(m.serviceMethod) \in Nat
      /\ t3 \in Texts /\ Len(t3) = 4 + Len(metadata) /\ Len(metadata) \in Nat
      /\ t4 \in Texts /\ Len(t4) = 4 + Len(Packed(m)) /\ Len(Packed(m)) \in Nat
  BY <1>1, TextType
<1>3. body = ((t1 \o t2) \o t3) \o t4
  BY DEF Data
<1>4. method \in Nat /\ meta \in Nat /\ rest \in Nat /\ meta = method + Len(t2) /\ rest = meta + Len(t3)
  <2> DEFINE x == Len(m.servicePath)
             y == Len(m.serviceMethod)
             z == Len(metadata)
  <2>1. x \in Nat /\ y \in Nat /\ z \in Nat /\ Len(t2) = 4 + y /\ Len(t3) = 4 + z
    BY <1>2
  <2> HIDE DEF x, y, z, t2, t3
  <2>2. 4 + x \in Nat /\ 4 + x + 4 + y = (4 + x) + Len(t2)
        /\ 4 + x + 4 + y + 4 + z = (4 + x + 4 + y) + Len(t3)
    BY <2>1
  <2>3. 4 + x + 4 + y \in Nat /\ 4 + x + 4 + y + 4 + z \in Nat
    BY <2>1
  <2> QED BY <2>2, <2>3 DEF x, y, z
<1> HIDE DEF body, method, meta, rest, t1, t2, t3, t4
<1>5. t1 \o t2 \in Texts /\ Len(t1 \o t2) = meta
  BY <1>2, <1>4, BytesConcat
<1>6. (t1 \o t2) \o t3 \in Texts /\ Len((t1 \o t2) \o t3) = rest
  BY <1>2, <1>4, <1>5, BytesConcat
<1>7. body \in Texts /\ Len(body) = rest + Len(t4)
  BY <1>2, <1>3, <1>6, BytesConcat
<1>8. At(body, 0, body)
  BY <1>7, AtSelf
<1>9. At(body, 0, (t1 \o t2) \o t3) /\ At(body, 0 + rest, t4)
  BY <1>2, <1>3, <1>6, <1>8, AtConcat
<1>10. At(body, 0, t1 \o t2) /\ At(body, 0 + meta, t3)
  BY <1>2, <1>5, <1>9, AtConcat
<1>11. At(body, 0, t1) /\ At(body, 0 + method, t2)
  BY <1>2, <1>10, AtConcat
<1>12. 0 + rest = rest /\ 0 + meta = meta /\ 0 + method = method
  BY <1>4
<1>13. At(body, rest, t4) /\ At(body, meta, t3) /\ At(body, method, t2)
  BY <1>9, <1>10, <1>11, <1>12, Zenon
<1>14. Len(body) = rest + 4 + Len(Packed(m))
  <2> DEFINE x == Len(Packed(m))
             y == Len(t4)
  <2>1. x \in Nat /\ y = 4 + x /\ Len(body) = rest + y
    BY <1>2, <1>7
  <2> HIDE DEF x, y
  <2>2. Len(body) = rest + 4 + x
    BY <1>4, <2>1
  <2> QED BY <2>2 DEF x
<1> QED BY <1>4, <1>7, <1>11, <1>13, <1>14 DEF body, method, meta, rest, t1, t2, t3, t4

\* What is written for metadata is a text.
LEMMA EncodeMetadataType ==
    ASSUME NEW m, IsMetadata(m), NEW metadata \in EncodeMetadata(m)
    PROVE  metadata \in Texts
<1>1. PICK q \in SetToSeqs(DOMAIN m) :
           metadata = FlattenSeq([i \in 1..Len(q) |-> PairText(m, q[i])])
  BY DEF EncodeMetadata, PairText
<1> DEFINE ps == [i \in 1..Len(q) |-> PairText(m, q[i])]
<1>2. Len(q) \in Nat /\ \A i \in 1..Len(q) : q[i] \in DOMAIN m
  BY SetToSeqsType DEF IsMetadata
<1>3. ps \in [1..Len(q) -> Texts]
  BY <1>2, PairType
<1>4. ps \in Seq(Texts) /\ metadata = FlattenSeq(ps)
  BY <1>1, <1>2, <1>3, SeqDef
<1> HIDE DEF ps
<1>5. PICK F : Joined(F, ps) /\ FlattenSeq(ps) = F[Len(ps)]
  BY <1>4, FlattenParts
<1>6. Len(ps) \in 0..Len(ps)
  BY <1>4, LenProperties
<1> QED BY <1>4, <1>5, <1>6 DEF Joined

\* What Encode returns for a sound message.
LEMMA EncodeSound ==
    ASSUME NEW m, Sound(m), NEW e \in Encode(m)
    PROVE  \E metadata \in EncodeMetadata(m.metadata) :
               e = m.header \o Text(Data(m, metadata))
BY DEF Sound, Encode, Packed, Data

\* Message m0 with the contents of m, but with its own metadata if m has none.
Holding(m0, m) == [m0 EXCEPT !.header        = m.header,
                             !.servicePath   = m.servicePath,
                             !.serviceMethod = m.serviceMethod,
                             !.metadata      = IF m.metadata = NoMetadata THEN @ ELSE m.metadata,
                             !.payload       = m.payload]

\* A header is a text.
LEMMA HeaderText ==
    ASSUME NEW h \in [1..12 -> Byte]
    PROVE  h \in Texts /\ Len(h) = 12
<1> DEFINE n == 12
<1>1. n \in Nat /\ h \in [1..n -> Byte]
  OBVIOUS
<1> HIDE DEF n
<1>2. h \in Seq(Byte)
  BY <1>1, SeqDef
<1>3. Len(h) = n
  BY <1>1, <1>2, LenProperties
<1> QED BY <1>2, <1>3 DEF Texts, n

\* Decode finds in a stream the message that Encode wrote at its beginning,
\* whatever is behind it (message.go:226-274, 401-489).
THEOREM MessageInverse ==
    ASSUME NEW m, Sound(m), NEW e \in Encode(m), NEW b \in Texts, At(b, 0, e)
    PROVE  /\ e \in Texts /\ Len(e) >= 16 /\ Length(b) = Len(e) /\ ~DecodeFails(b)
           /\ \A m0 : Decode(m0, b) = Holding(m0, m)
<1>1. PICK metadata \in EncodeMetadata(m.metadata) : e = m.header \o Text(Data(m, metadata))
  BY EncodeSound
<1> DEFINE body   == Data(m, metadata)
           method == 4 + Len(m.servicePath)
           meta   == method + 4 + Len(m.serviceMethod)
           rest   == meta + 4 + Len(metadata)
<1>2. /\ m.header \in Texts /\ Len(m.header) = 12
      /\ m.servicePath \in Texts /\ m.serviceMethod \in Texts /\ Packed(m) \in Texts
      /\ IsMetadata(m.metadata)
  BY HeaderText, PackedType DEF Sound, IsMessage
<1>3. metadata \in Texts
  BY <1>2, EncodeMetadataType
<1>4. /\ body \in Texts /\ Len(body) = rest + 4 + Len(Packed(m))
      /\ method \in Nat /\ meta \in Nat /\ rest \in Nat
      /\ At(body, 0, Text(m.servicePath))
      /\ At(body, method, Text(m.serviceMethod))
      /\ At(body, meta, Text(metadata))
      /\ At(body, rest, Text(Packed(m)))
  BY <1>3, DataParts
<1>5. Len(m.servicePath) \in Nat /\ Len(m.serviceMethod) \in Nat /\ Len(metadata) \in Nat
      /\ Len(Packed(m)) \in Nat /\ Len(body) \in Nat
  BY <1>2, <1>3, <1>4, LenProperties DEF Texts
<1> HIDE DEF body
<1>6. e \in Texts /\ Len(e) = 16 + Len(body)
  <2>1. Text(body) \in Texts /\ Len(Text(body)) = 4 + Len(body)
    BY <1>4, TextType
  <2>2. e \in Texts /\ Len(e) = Len(m.header) + Len(Text(body))
    BY <1>1, <1>2, <2>1, BytesConcat DEF body
  <2> QED BY <1>2, <1>5, <2>1, <2>2
<1>7. FourBytes(Len(body))
  <2>1. FourBytes(Len(e) - 16)
    BY DEF Sound, FitsWire
  <2>2. Len(e) - 16 = Len(body)
    BY <1>5, <1>6
  <2> QED BY <2>1, <2>2
<1>8. /\ Fits(Len(m.servicePath), 4) /\ Fits(Len(m.serviceMethod), 4)
      /\ Fits(Len(metadata), 4) /\ Fits(Len(Packed(m)), 4) /\ Fits(Len(body), 4)
      /\ FourBytes(Len(metadata))
  <2> DEFINE x == Len(m.servicePath)
             y == Len(m.serviceMethod)
             z == Len(metadata)
             w == Len(Packed(m))
             l == Len(body)
  <2>1. /\ x \in Nat /\ y \in Nat /\ z \in Nat /\ w \in Nat /\ l \in Nat /\ FourBytes(l)
        /\ l = 4 + x + 4 + y + 4 + z + 4 + w
    BY <1>4, <1>5, <1>7
  <2> HIDE DEF x, y, z, w, l
  <2>2. x <= l /\ y <= l /\ z <= l /\ w <= l /\ l <= l
    BY <2>1
  <2>3. Fits(x, 4) /\ Fits(y, 4) /\ Fits(z, 4) /\ Fits(w, 4) /\ Fits(l, 4)
    BY <2>1, <2>2, FitsLess
  <2>4. FourBytes(z)
    BY SMT, <2>1, <2>2 DEF FourBytes
  <2> QED BY <2>3, <2>4 DEF x, y, z, w, l
<1>9. At(b, 0, m.header) /\ At(b, 12, Text(body))
  <2>1. Text(body) \in Texts
    BY <1>4, TextType
  <2>2. At(b, 0, m.header \o Text(body))
    BY <1>1 DEF body
  <2>3. At(b, 0, m.header) /\ At(b, 0 + Len(m.header), Text(body))
    BY <1>2, <2>1, <2>2, AtConcat
  <2>4. 0 + Len(m.header) = 12
    BY <1>2
  <2> QED BY <2>3, <2>4
<1>10. Number(b, 12, 4) = Len(body) /\ TextAt(b, 12) = body /\ End(b, 12) = 12 + 4 + Len(body)
  BY <1>4, <1>8, <1>9, TextRead
<1>11. Length(b) = 16 + Len(body)
  BY <1>10 DEF Length
<1> DEFINE data == SubSeq(b, 17, Length(b))
<1>12. data = body
  <2>1. 12 + 5 = 17 /\ 12 + 4 + Len(body) = 16 + Len(body)
    BY <1>5
  <2>2. SubSeq(b, 12 + 5, 12 + 4 + Len(body)) = body
    BY <1>10 DEF TextAt
  <2> QED BY <1>11, <2>1, <2>2
<1>13. SubSeq(b, 1, 12) = m.header
  <2>1. SubSeq(b, 0 + 1, 0 + Len(m.header)) = m.header
    BY <1>2, <1>9, AtSubSeq
  <2>2. 0 + 1 = 1 /\ 0 + Len(m.header) = 12
    BY <1>2
  <2> QED BY <2>1, <2>2
<1>14. b[1] = m.header[1] /\ b[3] = m.header[3]
  <2>1. 0 + 1 = 1 /\ 0 + 3 = 3 /\ 1 \in 1..12 /\ 3 \in 1..12
    OBVIOUS
  <2>2. b[0 + 1] = m.header[1] /\ b[0 + 3] = m.header[3]
    BY <1>2, <1>9, <2>1 DEF At
  <2> QED BY <2>1, <2>2
<1>15. End(body, 0) = method /\ TextAt(body, 0) = m.servicePath
  <2>1. End(body, 0) = 0 + 4 + Len(m.servicePath) /\ TextAt(body, 0) = m.servicePath
    BY <1>2, <1>4, <1>8, TextRead
  <2>2. 0 + 4 + Len(m.servicePath) = method
    BY <1>5
  <2> QED BY <2>1, <2>2
<1>16. End(body, method) = meta /\ TextAt(body, method) = m.serviceMethod
  <2> HIDE DEF method
  <2> QED BY <1>2, <1>4, <1>8, TextRead
<1>17. /\ End(body, meta) = rest /\ TextAt(body, meta) = metadata
       /\ Number(body, meta, 4) = Len(metadata)
  <2> HIDE DEF meta
  <2> QED BY <1>3, <1>4, <1>8, TextRead
<1> HIDE DEF method, meta, rest
<1>18. At(body, rest + 4, Packed(m))
  <2>1. /\ BigEndian(Len(Packed(m)), 4) \in Texts
        /\ Len(BigEndian(Len(Packed(m)), 4)) = 4
    BY <1>5, BigEndianBytes
  <2> QED BY <1>2, <1>4, <2>1, AtConcat DEF Text
<1>19. SubSeq(body, rest + 5, Len(body)) = Packed(m)
  <2> DEFINE n == rest + 4
  <2>1. n \in Nat /\ n + 1 = rest + 5
    BY <1>4
  <2>2. n + Len(Packed(m)) = Len(body)
    BY <1>4
  <2>3. At(body, n, Packed(m))
    BY <1>18
  <2> HIDE DEF n
  <2>4. SubSeq(body, n + 1, n + Len(Packed(m))) = Packed(m)
    BY <1>2, <2>1, <2>3, AtSubSeq
  <2> QED BY <2>1, <2>2, <2>4
<1>20. CompressType(b) = CompressType(m.header) /\ CompressType(m.header) \in {None, Gzip}
  BY <1>14 DEF CompressType, Sound
<1>21. DecodeMetadata(metadata) = [md |-> m.metadata, missing |-> FALSE]
       /\ (Len(metadata) = 0 <=> m.metadata = NoMetadata)
  BY <1>2, <1>8, MetadataInverse
<1>22. ~DecodeFails(b)
  <2>1. b[1] = MagicNumber
    BY <1>14 DEF Sound
  <2>2. ~DecodeMetadata(metadata).missing
    BY <1>21
  <2>3. CompressType(m.header) = Gzip => SubSeq(body, rest + 5, rest + 6) = Compressed(<<>>)
    <3> SUFFICES ASSUME CompressType(m.header) = Gzip
                 PROVE  SubSeq(body, rest + 5, rest + 6) = Compressed(<<>>)
      OBVIOUS
    <3> DEFINE n == rest + 4
               p == <<31, 139>>
    <3>1. n \in Nat /\ n + 1 = rest + 5 /\ n + 2 = rest + 6
      BY <1>4
    <3>2. p \in Texts /\ Len(p) = 2
      BY DEF Texts, Byte
    <3>3. Compressed(<<>>) = p
      BY DEF Compressed
    <3>4. m.payload \in Texts
      BY DEF Sound, IsMessage
    <3>5. Packed(m) = p \o m.payload
      BY DEF Packed, Compressed
    <3> HIDE DEF p
    <3>6. At(body, n, p \o m.payload)
      BY <1>18, <3>5
    <3> HIDE DEF n
    <3>7. At(body, n, p)
      BY <3>1, <3>2, <3>4, <3>6, AtConcat
    <3>8. SubSeq(body, n + 1, n + Len(p)) = p
      BY <3>1, <3>2, <3>7, AtSubSeq
    <3> QED BY <3>1, <3>2, <3>3, <3>8
  <2>4. End(body, End(body, 0)) = meta
    BY <1>15, <1>16
  <2> HIDE DEF data
  <2>5. SubSeq(b, 17, Length(b)) = body
    BY <1>12 DEF data
  <2> QED BY <1>17, <1>20, <2>1, <2>2, <2>3, <2>4, <2>5, Zenon DEF DecodeFails
<1>23. ASSUME NEW m0
       PROVE  Decode(m0, b) = Holding(m0, m)
  <2>1. SubSeq(b, 17, Length(b)) = body
    BY <1>12
  <2>2. /\ TextAt(body, 0) = m.servicePath
        /\ TextAt(body, End(body, 0)) = m.serviceMethod
        /\ Number(body, End(body, End(body, 0)), 4) = Len(metadata)
        /\ TextAt(body, End(body, End(body, 0))) = metadata
        /\ SubSeq(body, End(body, End(body, End(body, 0))) + 5, Len(body)) = Packed(m)
    BY <1>15, <1>16, <1>17, <1>19, Zenon
  <2>3. ASSUME NEW old
        PROVE  (IF Len(metadata) > 0 THEN DecodeMetadata(metadata).md ELSE old)
                   = IF m.metadata = NoMetadata THEN old ELSE m.metadata
    <3>1. Len(metadata) > 0 <=> m.metadata # NoMetadata
      BY <1>5, <1>21
    <3> QED BY <1>21, <3>1
  <2>4. (IF CompressType(m.header) = Gzip THEN Uncompressed(Packed(m)) ELSE Packed(m)) = m.payload
    BY PackedType DEF Packed
  <2> QED BY <1>13, <2>1, <2>2, <2>3, <2>4, Zenon DEF Decode, Holding
<1> QED BY <1>5, <1>6, <1>11, <1>22, <1>23

-----------------------------------------------------------------------------
(* The messages of a call.                                                 *)

\* Header h has number s.
Numbered(h, s) == \A i \in 1..8 : h[4 + i] = BigEndian(s, 8)[i]

\* The numbers of calls fit eight bytes.
LEMMA CallFits ==
    ASSUME NEW s \in Calls
    PROVE  s \in Nat /\ Fits(s, 8)
<1>1. MaxCalls \in Nat /\ EightBytes(MaxCalls)
  BY ExchangeAssumption
<1>2. s \in Nat /\ s <= MaxCalls
  BY <1>1 DEF Calls
<1>3. EightBytes(s)
  BY SMT, <1>1, <1>2 DEF EightBytes
<1> QED BY <1>2, <1>3, FitsEight

\* Seq reads the number of a header.
LEMMA NumberedRead ==
    ASSUME NEW h, NEW s \in Calls, Numbered(h, s)
    PROVE  Seq8(h) = s
<1>1. s \in Nat /\ Fits(s, 8)
  BY CallFits
<1>2. Len(BigEndian(s, 8)) = 8
  BY <1>1, BigEndianBytes
<1>3. At(h, 4, BigEndian(s, 8))
  BY <1>2 DEF Numbered, At
<1>4. 4 \in Nat /\ 8 \in Nat
  OBVIOUS
<1> QED BY <1>1, <1>3, <1>4, NumberInverse DEF Seq8

\* The setters of other fields leave it.
LEMMA NumberedSame ==
    ASSUME NEW h, NEW s, Numbered(h, s), NEW g, NEW getter, SameBut(getter, g, h)
    PROVE  Numbered(g, s)
<1> SUFFICES ASSUME NEW i \in 1..8 PROVE g[4 + i] = BigEndian(s, 8)[i]
  BY DEF Numbered
<1>1. 4 + i \in 1..12 \ {3, 4}
  OBVIOUS
<1>2. g[4 + i] = h[4 + i]
  BY <1>1 DEF SameBut
<1> QED BY <1>2 DEF Numbered

\* SetSeq sets the number, which Seq will return, and no field of the first
\* four bytes (message.go:205-212).
LEMMA SeqApart ==
    ASSUME NEW h \in Headers, NEW s \in Nat
    PROVE  LET g == SetSeq(h, s) IN
           /\ g \in Headers /\ Numbered(g, s) /\ g[1] = h[1]
           /\ MessageType(g) = MessageType(h) /\ IsHeartbeat(g) = IsHeartbeat(h)
           /\ IsOneway(g) = IsOneway(h) /\ CompressType(g) = CompressType(h)
           /\ MessageStatusType(g) = MessageStatusType(h)
           /\ SerializeType(g) = SerializeType(h)
<1> DEFINE g == SetSeq(h, s)
<1>1. BigEndian(s, 8) \in [1..8 -> Byte]
  BY BigEndianType
<1>2. g = [i \in 1..12 |-> IF i <= 4 THEN h[i] ELSE BigEndian(s, 8)[i - 4]]
  BY DEF SetSeq
<1> HIDE DEF g
<1>3. ASSUME NEW i \in 1..12
      PROVE  (IF i <= 4 THEN h[i] ELSE BigEndian(s, 8)[i - 4]) \in Byte
  <2>1. CASE i <= 4
    BY <2>1 DEF Headers
  <2>2. CASE ~(i <= 4)
    <3>1. i - 4 \in 1..8
      BY <2>2
    <3> QED BY <1>1, <2>2, <3>1
  <2> QED BY <2>1, <2>2
<1>4. g \in Headers
  BY <1>2, <1>3 DEF Headers
<1>5. g[1] = h[1] /\ g[3] = h[3] /\ g[4] = h[4]
  BY <1>2
<1>6. Numbered(g, s)
  <2> SUFFICES ASSUME NEW i \in 1..8 PROVE g[4 + i] = BigEndian(s, 8)[i]
    BY DEF Numbered
  <2>1. 4 + i \in 1..12 /\ ~(4 + i <= 4) /\ (4 + i) - 4 = i
    OBVIOUS
  <2> QED BY <1>2, <2>1
<1> QED BY <1>4, <1>5, <1>6 DEF g, MessageType, IsHeartbeat, IsOneway, CompressType,
                                MessageStatusType, SerializeType

\* A new message has a header in which nothing is set.
LEMMA NewHeaderIs ==
    /\ NewHeader \in Headers /\ NewHeader[1] = MagicNumber
    /\ MessageType(NewHeader) = Request /\ ~IsHeartbeat(NewHeader) /\ ~IsOneway(NewHeader)
    /\ CompressType(NewHeader) = None /\ MessageStatusType(NewHeader) = Normal
    /\ SerializeType(NewHeader) = SerializeNone
<1>1. NewHeader \in Headers /\ NewHeader[1] = MagicNumber
  BY DEF NewHeader, Headers, Byte, MagicNumber
<1>2. NewHeader[3] = 0 /\ NewHeader[4] = 0
  BY DEF NewHeader
<1> QED BY <1>1, <1>2 DEF MessageType, IsHeartbeat, IsOneway, CompressType, MessageStatusType,
              SerializeType, Bits, Request, None, Normal, SerializeNone

\* The messages with the given fields, and the only one.
Fields(h, p, s, d, b) ==
    [header : {h}, servicePath : {p}, serviceMethod : {s}, metadata : {d}, payload : {b}]

\* There is only one.
LEMMA FieldsGive ==
    ASSUME NEW h, NEW p, NEW s, NEW d, NEW b, NEW m \in Fields(h, p, s, d, b)
    PROVE  m = [header |-> h, servicePath |-> p, serviceMethod |-> s, metadata |-> d, payload |-> b]
BY DEF Fields

\* One map over another.
LEMMA OverMetadata ==
    ASSUME NEW f, IsMetadata(f), NEW g, IsMetadata(g)
    PROVE  IsMetadata(Over(f, g))
<1> DEFINE D == DOMAIN f \cup DOMAIN g
<1>1. DOMAIN Over(f, g) = D
  BY DEF Over
<1>2. D \subseteq Texts /\ IsFiniteSet(D)
  BY FS_Union DEF IsMetadata
<1>3. Over(f, g) \in [D -> Texts]
  BY DEF Over, IsMetadata
<1> QED BY <1>1, <1>2, <1>3 DEF IsMetadata

\* The empty map is one.
LEMMA NoMetadataIs == IsMetadata(NoMetadata) /\ DOMAIN NoMetadata = {}
<1>1. DOMAIN NoMetadata = {}
  BY DEF NoMetadata
<1>2. NoMetadata \in [{} -> Texts]
  BY DEF NoMetadata
<1> QED BY <1>1, <1>2, FS_EmptySet DEF IsMetadata

\* What is in the header of the request of call s, which asks c, ...
RequestHeader(h, c, s) ==
    /\ h \in Headers /\ h[1] = MagicNumber /\ Numbered(h, s)
    /\ MessageType(h) = Request /\ IsHeartbeat(h) = c.heartBeat /\ ~IsOneway(h)
    /\ CompressType(h) \in {None, Gzip} /\ MessageStatusType(h) = Normal
    /\ SerializeType(h) = c.serializeType

\* ... and what in the request.
LEMMA CreateRequestIs ==
    ASSUME NEW c \in Asks, NEW s \in Calls
    PROVE  LET m == CreateRequest(NewMessage, c, s) IN
           /\ m = [header |-> m.header, servicePath |-> c.servicePath,
                   serviceMethod |-> c.serviceMethod, metadata |-> ExtractMd(c),
                   payload |-> IF c.serializeType = SerializeNone THEN <<>> ELSE c.args]
           /\ RequestHeader(m.header, c, s) /\ Sound(m)
<1> DEFINE m == CreateRequest(NewMessage, c, s)
           h1 == SetHeartbeat(NewHeader, c.heartBeat)
           h2 == IF c.compressType # None THEN SetCompressType(h1, Gzip) ELSE h1
           h3 == SetSeq(h2, s)
           h4 == IF c.serializeType # SerializeNone THEN SetSerializeType(h3, c.serializeType) ELSE h3
           payload == IF c.serializeType = SerializeNone THEN <<>> ELSE c.args
<1>1. /\ {c.servicePath, c.serviceMethod, c.args} \subseteq Texts
      /\ IsMetadata(c.metadata) /\ IsMetadata(c.span)
      /\ c.serializeType \in SerializeNone..Thrift /\ c.heartBeat \in BOOLEAN
  BY ExchangeAssumption
<1>2. /\ m.header = h4
      /\ m = [header |-> m.header, servicePath |-> c.servicePath,
              serviceMethod |-> c.serviceMethod, metadata |-> ExtractMd(c), payload |-> payload]
  <2> DEFINE md == IF ExtractMd(c) # NoMetadata THEN ExtractMd(c) ELSE NoMetadata
             coded == IF c.serializeType # SerializeNone THEN c.args ELSE <<>>
  <2>1. NewMessage \in Fields(NewHeader, <<>>, <<>>, NoMetadata, <<>>)
    BY DEF NewMessage, Fields
  <2>2. m = [NewMessage EXCEPT !.servicePath = c.servicePath, !.serviceMethod = c.serviceMethod,
                !.header = h4, !.metadata = md, !.payload = coded]
    <3>1. /\ NewMessage.header = NewHeader /\ NewMessage.metadata = NoMetadata
          /\ NewMessage.payload = <<>>
      BY DEF NewMessage
    <3> QED BY <3>1, Zenon DEF CreateRequest
  <2>3. md = ExtractMd(c) /\ coded = payload
    OBVIOUS
  <2> HIDE DEF md, coded, h4, payload, m
  <2>4. m \in Fields(h4, c.servicePath, c.serviceMethod, md, coded)
    BY <2>1, <2>2 DEF Fields
  <2>5. m = [header |-> h4, servicePath |-> c.servicePath, serviceMethod |-> c.serviceMethod,
             metadata |-> md, payload |-> coded]
    BY <2>4, FieldsGive
  <2>6. m.header = h4
    BY <2>5
  <2> QED BY <2>3, <2>5, <2>6, Zenon
<1>3. /\ h1 \in Headers /\ h1[1] = MagicNumber
      /\ MessageType(h1) = Request /\ IsHeartbeat(h1) = c.heartBeat /\ ~IsOneway(h1)
      /\ CompressType(h1) = None /\ MessageStatusType(h1) = Normal
      /\ SerializeType(h1) = SerializeNone
  <2>1. h1 \in Headers /\ IsHeartbeat(h1) = c.heartBeat /\ SameBut("IsHeartbeat", h1, NewHeader)
    BY <1>1, NewHeaderIs, HeartbeatApart
  <2> HIDE DEF h1
  <2> QED BY <2>1, NewHeaderIs DEF SameBut
<1> HIDE DEF h1
<1>4. /\ h2 \in Headers /\ h2[1] = MagicNumber
      /\ MessageType(h2) = Request /\ IsHeartbeat(h2) = c.heartBeat /\ ~IsOneway(h2)
      /\ CompressType(h2) \in {None, Gzip} /\ MessageStatusType(h2) = Normal
      /\ SerializeType(h2) = SerializeNone
  <2> DEFINE g == SetCompressType(h1, Gzip)
  <2>1. Gzip \in Nat /\ Gzip % 8 = Gzip
    BY DEF Gzip
  <2>2. g \in Headers /\ CompressType(g) = Gzip /\ SameBut("CompressType", g, h1)
    BY <1>3, <2>1, CompressApart
  <2> HIDE DEF g
  <2>3. /\ g[1] = MagicNumber
        /\ MessageType(g) = Request /\ IsHeartbeat(g) = c.heartBeat /\ ~IsOneway(g)
        /\ CompressType(g) \in {None, Gzip} /\ MessageStatusType(g) = Normal
        /\ SerializeType(g) = SerializeNone
    BY <1>3, <2>2 DEF SameBut
  <2>4. h2 = g \/ h2 = h1
    BY DEF g
  <2> HIDE DEF h2
  <2> QED BY <1>3, <2>2, <2>3, <2>4
<1> HIDE DEF h2
<1>5. /\ h3 \in Headers /\ h3[1] = MagicNumber /\ Numbered(h3, s)
      /\ MessageType(h3) = Request /\ IsHeartbeat(h3) = c.heartBeat /\ ~IsOneway(h3)
      /\ CompressType(h3) \in {None, Gzip} /\ MessageStatusType(h3) = Normal
      /\ SerializeType(h3) = SerializeNone
  BY <1>4, CallFits, SeqApart
<1> HIDE DEF h3
<1>6. RequestHeader(h4, c, s)
  <2> DEFINE g == SetSerializeType(h3, c.serializeType)
  <2>1. c.serializeType \in Nat /\ c.serializeType % 16 = c.serializeType
    BY <1>1 DEF SerializeNone, Thrift
  <2>2. /\ g \in Headers /\ SerializeType(g) = c.serializeType
        /\ SameBut("SerializeType", g, h3)
    BY <1>5, <2>1, SerializeApart
  <2> HIDE DEF g
  <2>3. /\ g[1] = MagicNumber
        /\ MessageType(g) = Request /\ IsHeartbeat(g) = c.heartBeat /\ ~IsOneway(g)
        /\ CompressType(g) \in {None, Gzip} /\ MessageStatusType(g) = Normal
    BY <1>5, <2>2 DEF SameBut
  <2>4. Numbered(g, s)
    BY <1>5, <2>2, NumberedSame
  <2>5. h4 = g \/ (h4 = h3 /\ c.serializeType = SerializeNone)
    BY DEF g
  <2> HIDE DEF h4
  <2> QED BY <1>5, <2>2, <2>3, <2>4, <2>5 DEF RequestHeader
<1> HIDE DEF h4
<1>7. payload \in Texts
  <2>1. <<>> \in Texts
    BY EmptySeq DEF Texts
  <2> QED BY <1>1, <2>1
<1>8. IsMetadata(ExtractMd(c))
  BY <1>1, OverMetadata DEF ExtractMd
<1> HIDE DEF payload
<1>9. IsMessage(m) /\ FitsWire(m)
  <2>1. FitsWire(m)
    BY LengthAssumption
  <2> HIDE DEF m
  <2>2. m.header \in Headers
    BY <1>2, <1>6 DEF RequestHeader
  <2> QED BY <1>1, <1>2, <1>7, <1>8, <2>1, <2>2 DEF IsMessage, Headers
<1>10. RequestHeader(m.header, c, s)
  <2> HIDE DEF m
  <2> QED BY <1>2, <1>6
<1>11. Sound(m)
  <2> HIDE DEF m
  <2> QED BY <1>9, <1>10 DEF Sound, RequestHeader
<1> HIDE DEF m
<1> QED BY <1>2, <1>10, <1>11 DEF m, payload

\* A Message that is put back holds nothing.
LEMMA ResetNew ==
    ASSUME NEW m, m.header[1] = MagicNumber
    PROVE  Reset(m) = NewMessage
<1> DEFINE g == [NewHeader EXCEPT ![1] = MagicNumber]
<1>1. g = NewHeader
  <2>1. NewHeader \in Headers /\ NewHeader[1] = MagicNumber
    BY NewHeaderIs
  <2> QED BY <2>1 DEF Headers
<1>2. NewMessage.header = NewHeader
  BY DEF NewMessage
<1>3. Reset(m) = [NewMessage EXCEPT !.header = g]
  BY <1>2, Zenon DEF Reset
<1> HIDE DEF g
<1>4. NewMessage \in Fields(NewHeader, <<>>, <<>>, NoMetadata, <<>>)
  BY DEF NewMessage, Fields
<1>5. [NewMessage EXCEPT !.header = g] \in Fields(NewHeader, <<>>, <<>>, NoMetadata, <<>>)
  BY <1>1, <1>4 DEF Fields
<1> QED BY <1>3, <1>4, <1>5, FieldsGive

\* What is in the header of the response to call s, which asked c.
ResponseHeader(h, c, s) ==
    /\ h \in Headers /\ h[1] = MagicNumber /\ Numbered(h, s)
    /\ IsHeartbeat(h) = c.heartBeat
    /\ CompressType(h) \in {None, Gzip} /\ MessageStatusType(h) = Normal
    /\ SerializeType(h) = c.serializeType

\* The header of a request, made into that of a response.
LEMMA AnswerHeader ==
    ASSUME NEW c, NEW s, NEW h, RequestHeader(h, c, s)
    PROVE  /\ ResponseHeader(SetMessageType(h, Response), c, s)
           /\ CompressType(SetMessageType(h, Response)) = CompressType(h)
           /\ ResponseHeader(SetMessageType(SetCompressType(h, None), Response), c, s)
<1>0. /\ h \in Headers /\ h[1] = MagicNumber /\ Numbered(h, s)
      /\ IsHeartbeat(h) = c.heartBeat
      /\ CompressType(h) \in {None, Gzip} /\ MessageStatusType(h) = Normal
      /\ SerializeType(h) = c.serializeType
  BY DEF RequestHeader
<1>1. ASSUME NEW g \in Headers, g[1] = MagicNumber, Numbered(g, s),
             IsHeartbeat(g) = c.heartBeat, CompressType(g) \in {None, Gzip},
             MessageStatusType(g) = Normal, SerializeType(g) = c.serializeType
      PROVE  /\ ResponseHeader(SetMessageType(g, Response), c, s)
             /\ CompressType(SetMessageType(g, Response)) = CompressType(g)
  <2> DEFINE a == SetMessageType(g, Response)
  <2>1. a \in Headers /\ SameBut("MessageType", a, g)
    <3>1. Response \in {Request, Response}
      OBVIOUS
    <3> QED BY <3>1, TypeApart
  <2> HIDE DEF a
  <2>2. Numbered(a, s)
    BY <1>1, <2>1, NumberedSame
  <2>3. /\ a[1] = MagicNumber /\ IsHeartbeat(a) = c.heartBeat
        /\ CompressType(a) = CompressType(g)
        /\ MessageStatusType(a) = Normal /\ SerializeType(a) = c.serializeType
    BY <1>1, <2>1 DEF SameBut
  <2>4. ResponseHeader(a, c, s)
    BY <1>1, <2>1, <2>2, <2>3 DEF ResponseHeader
  <2> QED BY <2>3, <2>4 DEF a
<1>2. /\ ResponseHeader(SetMessageType(h, Response), c, s)
      /\ CompressType(SetMessageType(h, Response)) = CompressType(h)
  BY <1>0, <1>1
<1> DEFINE k == SetCompressType(h, None)
<1>3. k \in Headers /\ CompressType(k) = None /\ SameBut("CompressType", k, h)
  <2>1. None \in Nat /\ None % 8 = None
    BY DEF None
  <2> QED BY <1>0, <2>1, CompressApart
<1> HIDE DEF k
<1>4. Numbered(k, s)
  BY <1>0, <1>3, NumberedSame
<1>5. /\ k[1] = MagicNumber /\ IsHeartbeat(k) = c.heartBeat /\ CompressType(k) \in {None, Gzip}
      /\ MessageStatusType(k) = Normal /\ SerializeType(k) = c.serializeType
  BY <1>0, <1>3 DEF SameBut
<1>6. ResponseHeader(SetMessageType(k, Response), c, s)
  BY <1>1, <1>3, <1>4, <1>5
<1> QED BY <1>2, <1>6 DEF k

\* The response to a call.
LEMMA HandleRequestIs ==
    ASSUME NEW c \in Asks, NEW s \in Calls, NEW r \in Replies
    PROVE  LET res == HandleRequest(CreateRequest(NewMessage, c, s), NewMessage, r) IN
           /\ res = [header |-> res.header, servicePath |-> c.servicePath,
                     serviceMethod |-> c.serviceMethod, metadata |-> r.metadata,
                     payload |-> r.payload]
           /\ ResponseHeader(res.header, c, s) /\ Sound(res)
<1> DEFINE req == CreateRequest(NewMessage, c, s)
           res == HandleRequest(req, NewMessage, r)
           h0 == SetCompressType(req.header, None)
           h == SetMessageType(h0, Response)
           md == IF r.metadata # NoMetadata THEN r.metadata ELSE NoMetadata
           pl == IF IsOneway(req.header) THEN <<>> ELSE r.payload
           cl == Clone(req, NewMessage)
<1>1. /\ req = [header |-> req.header, servicePath |-> c.servicePath,
                serviceMethod |-> c.serviceMethod, metadata |-> ExtractMd(c),
                payload |-> IF c.serializeType = SerializeNone THEN <<>> ELSE c.args]
      /\ RequestHeader(req.header, c, s) /\ Sound(req)
  BY CreateRequestIs
<1>2. FitsWire(res)
  BY LengthAssumption
<1>3. res = [cl EXCEPT !.header = SetMessageType(@, Response),
                       !.metadata = IF r.metadata # NoMetadata THEN r.metadata ELSE @,
                       !.payload = IF IsOneway(req.header) THEN @ ELSE r.payload]
  BY Zenon DEF HandleRequest
<1>4. cl = [NewMessage EXCEPT !.header = h0, !.servicePath = req.servicePath,
                              !.serviceMethod = req.serviceMethod]
  BY Zenon DEF Clone
<1>5. ~IsOneway(req.header) /\ req.servicePath = c.servicePath /\ req.serviceMethod = c.serviceMethod
  <2> DEFINE pl2 == IF c.serializeType = SerializeNone THEN <<>> ELSE c.args
             md2 == ExtractMd(c)
  <2>1. req \in [header : {req.header}, servicePath : {c.servicePath},
                 serviceMethod : {c.serviceMethod}, metadata : {md2}, payload : {pl2}]
    <3> HIDE DEF req, md2, pl2
    <3>1. req = [header |-> req.header, servicePath |-> c.servicePath,
                serviceMethod |-> c.serviceMethod, metadata |-> md2, payload |-> pl2]
      BY <1>1 DEF md2, pl2
    <3> QED BY <3>1
  <2> HIDE DEF req, md2, pl2
  <2> QED BY <1>1, <2>1 DEF RequestHeader
<1> HIDE DEF req, res, cl
<1>6. NewMessage \in Fields(NewHeader, <<>>, <<>>, NoMetadata, <<>>)
  BY DEF NewMessage, Fields
<1> HIDE DEF h0
<1>7. cl \in Fields(h0, c.servicePath, c.serviceMethod, NoMetadata, <<>>)
  BY <1>4, <1>5, <1>6 DEF Fields
<1>8. cl.header = h0 /\ cl.metadata = NoMetadata /\ cl.payload = <<>>
  BY <1>7 DEF Fields
<1>9. res = [cl EXCEPT !.header = h, !.metadata = md, !.payload = pl]
  BY <1>3, <1>8, Zenon
<1>10. md = r.metadata /\ pl = r.payload
  BY <1>5
<1> HIDE DEF h, md, pl
<1>11. res \in Fields(h, c.servicePath, c.serviceMethod, md, pl)
  BY <1>7, <1>9 DEF Fields
<1>12. res = [header |-> h, servicePath |-> c.servicePath, serviceMethod |-> c.serviceMethod,
              metadata |-> md, payload |-> pl]
  BY <1>11, FieldsGive
<1>13. res.header = h
  BY <1>12
<1>14. ResponseHeader(res.header, c, s)
  BY <1>1, <1>13, AnswerHeader DEF h, h0
<1>15. IsMessage(res)
  <2>1. /\ c.servicePath \in Texts /\ c.serviceMethod \in Texts
        /\ md \in {r.metadata} /\ pl \in Texts /\ IsMetadata(r.metadata)
    BY <1>10, ExchangeAssumption
  <2>2. h \in Headers
    BY <1>13, <1>14 DEF ResponseHeader
  <2> QED BY <1>10, <1>12, <2>1, <2>2 DEF IsMessage, Headers
<1>16. Sound(res)
  BY <1>2, <1>14, <1>15 DEF Sound, ResponseHeader
<1>17. res = [header |-> res.header, servicePath |-> c.servicePath,
              serviceMethod |-> c.serviceMethod, metadata |-> r.metadata,
              payload |-> r.payload]
  BY <1>10, <1>12, <1>13, Zenon
<1> QED BY <1>14, <1>16, <1>17 DEF res, req

\* What Encode returns when it knows the compression.
LEMMA EncodeKnown ==
    ASSUME NEW m, CompressType(m.header) \in {None, Gzip}
    PROVE  Encode(m) = {m.header \o Text(Data(m, metadata)) : metadata \in EncodeMetadata(m.metadata)}
BY DEF Encode, Packed, Data

\* The response to a heartbeat.
LEMMA HeartbeatIs ==
    ASSUME NEW c \in Asks, NEW s \in Calls
    PROVE  LET req == CreateRequest(NewMessage, c, s)
               res == [req EXCEPT !.header = SetMessageType(@, Response)]
           IN  ResponseHeader(res.header, c, s) /\ Sound(res)
<1> DEFINE req == CreateRequest(NewMessage, c, s)
           h == SetMessageType(req.header, Response)
           res == [req EXCEPT !.header = h]
           pl == IF c.serializeType = SerializeNone THEN <<>> ELSE c.args
<1>1. /\ req = [header |-> req.header, servicePath |-> c.servicePath,
                serviceMethod |-> c.serviceMethod, metadata |-> ExtractMd(c), payload |-> pl]
      /\ RequestHeader(req.header, c, s) /\ Sound(req)
  BY CreateRequestIs
<1>2. ResponseHeader(h, c, s) /\ CompressType(h) = CompressType(req.header)
  BY <1>1, AnswerHeader
<1> DEFINE md == ExtractMd(c)
<1> HIDE DEF req, h, pl, md
<1>3. req \in Fields(req.header, c.servicePath, c.serviceMethod, md, pl)
  BY <1>1 DEF Fields, md
<1>4. res \in Fields(h, c.servicePath, c.serviceMethod, md, pl)
  BY <1>3 DEF Fields
<1> HIDE DEF res
<1>5. /\ res.header = h /\ res.servicePath = req.servicePath /\ res.serviceMethod = req.serviceMethod
      /\ res.metadata = req.metadata /\ res.payload = req.payload
  BY <1>3, <1>4 DEF Fields
<1>6. IsMessage(res)
  <2>1. IsMessage(req)
    BY <1>1 DEF Sound
  <2>2. h \in Headers
    BY <1>2 DEF ResponseHeader
  <2>3. /\ c.servicePath \in Texts /\ c.serviceMethod \in Texts /\ pl \in Texts /\ IsMetadata(md)
    BY <1>3, <2>1 DEF IsMessage, Fields
  <2> QED BY <1>4, <2>2, <2>3 DEF IsMessage, Headers, Fields
<1>7. ASSUME NEW e \in Encode(res)
      PROVE  FourBytes(Len(e) - 16)
  <2>1. CompressType(req.header) \in {None, Gzip} /\ CompressType(res.header) \in {None, Gzip}
    BY <1>1, <1>2, <1>5 DEF Sound
  <2>2. PICK metadata \in EncodeMetadata(req.metadata) : e = res.header \o Text(Data(res, metadata))
    <3>1. Encode(res) = {res.header \o Text(Data(res, a)) : a \in EncodeMetadata(res.metadata)}
      BY <2>1, EncodeKnown
    <3>2. e \in {res.header \o Text(Data(res, a)) : a \in EncodeMetadata(req.metadata)}
      BY <1>5, <3>1, Zenon
    <3> QED BY <3>2
  <2>3. Data(res, metadata) = Data(req, metadata)
    BY <1>2, <1>5 DEF Data, Packed
  <2> DEFINE t == Text(Data(req, metadata))
             d == req.header \o t
  <2>4. d \in Encode(req)
    <3>1. Encode(req) = {req.header \o Text(Data(req, a)) : a \in EncodeMetadata(req.metadata)}
      BY SMTT(40), <2>1, EncodeKnown
    <3>2. d \in {req.header \o Text(Data(req, a)) : a \in EncodeMetadata(req.metadata)}
      BY <2>2
    <3> QED BY <3>1, <3>2, Zenon
  <2>5. FourBytes(Len(d) - 16)
    BY <1>1, <2>4 DEF Sound, FitsWire
  <2>6. /\ req.header \in Texts /\ Len(req.header) = 12
        /\ res.header \in Texts /\ Len(res.header) = 12
    BY <1>1, <1>6, HeaderText DEF Sound, IsMessage
  <2>7. e = res.header \o t
    BY <2>2, <2>3
  <2>8. Len(e) = Len(d)
    <3>1. \A metadata2 \in EncodeMetadata(req.metadata) : metadata2 \in Texts
      <4> SUFFICES ASSUME NEW a \in EncodeMetadata(req.metadata) PROVE a \in Texts
        OBVIOUS
      <4>1. IsMetadata(req.metadata)
        BY <1>1 DEF Sound, IsMessage
      <4> QED BY <4>1, EncodeMetadataType
    <3>2. Data(req, metadata) \in Texts
      BY <1>1, <2>2, <3>1, DataParts
    <3>3. t \in Texts
      BY <3>2, TextType
    <3> HIDE DEF t
    <3>4. Len(e) = Len(res.header) + Len(t) /\ Len(d) = Len(req.header) + Len(t)
      BY <2>6, <2>7, <3>3, BytesConcat
    <3> QED BY <2>6, <3>4
  <2> HIDE DEF d
  <2> QED BY <2>5, <2>8
<1>8. Sound(res)
  BY <1>2, <1>5, <1>6, <1>7 DEF Sound, FitsWire, ResponseHeader
<1>9. ResponseHeader(res.header, c, s)
  BY <1>2, <1>5
<1> QED BY <1>8, <1>9 DEF res, h, req

-----------------------------------------------------------------------------
(* HTTP requests, and streams of messages.                                 *)

\* The header of an HTTP request made into one of the protocol.
LEMMA PostHeader ==
    ASSUME NEW p \in Posts
    PROVE  LET h == HTTPRequest2EmRpcRequest(NewMessage, p).header IN
           /\ h \in Headers /\ h[1] = MagicNumber
           /\ MessageType(h) = Request /\ CompressType(h) = None /\ IsOneway(h) = p.oneway
<1> DEFINE h1 == SetMessageType(NewHeader, Request)
           h2 == IF p.heartBeat THEN SetHeartbeat(h1, TRUE) ELSE h1
           h3 == IF p.oneway THEN SetOneway(h2, TRUE) ELSE h2
           h4 == SetSeq(h3, p.messageID)
           h5 == SetSerializeType(h4, p.serializeType)
           Plain(h) == /\ h \in Headers /\ h[1] = MagicNumber
                       /\ MessageType(h) = Request /\ CompressType(h) = None
<1>1. /\ p.messageID \in Nat /\ p.serializeType \in Nat
      /\ p.heartBeat \in BOOLEAN /\ p.oneway \in BOOLEAN
  BY ExchangeAssumption
<1>2. Plain(h1) /\ ~IsOneway(h1)
  <2>1. /\ h1 \in Headers /\ SameBut("MessageType", h1, NewHeader)
        /\ MessageType(h1) = IF MessageType(NewHeader) = Response THEN Response ELSE Request
    <3>1. Request \in {Request, Response}
      OBVIOUS
    <3> QED BY <3>1, NewHeaderIs, TypeApart
  <2>2. MessageType(NewHeader) # Response
    BY NewHeaderIs DEF Request, Response
  <2> HIDE DEF h1
  <2> QED BY <2>1, <2>2, NewHeaderIs DEF SameBut
<1> HIDE DEF h1
<1>3. Plain(h2) /\ ~IsOneway(h2)
  <2> DEFINE g == SetHeartbeat(h1, TRUE)
  <2>1. g \in Headers /\ SameBut("IsHeartbeat", g, h1)
    BY <1>2, HeartbeatApart
  <2> HIDE DEF g
  <2>2. Plain(g) /\ ~IsOneway(g)
    BY <1>2, <2>1 DEF SameBut
  <2>3. h2 = g \/ h2 = h1
    BY DEF g
  <2> HIDE DEF h2
  <2> QED BY <1>2, <2>2, <2>3
<1> HIDE DEF h2
<1>4. Plain(h3) /\ IsOneway(h3) = p.oneway
  <2> DEFINE g == SetOneway(h2, TRUE)
  <2>1. g \in Headers /\ SameBut("IsOneway", g, h2) /\ IsOneway(g) = TRUE
    BY <1>3, OnewayApart
  <2> HIDE DEF g
  <2>2. Plain(g)
    BY <1>3, <2>1 DEF SameBut
  <2>3. CASE p.oneway = TRUE
    <3>1. h3 = g
      BY <2>3 DEF g
    <3> HIDE DEF h3, Plain
    <3> QED BY <2>1, <2>2, <2>3, <3>1, Zenon
  <2>4. CASE p.oneway = FALSE
    <3>1. h3 = h2
      BY <2>4
    <3>2. IsOneway(h2) = FALSE
      BY <1>3 DEF IsOneway
    <3> HIDE DEF h3, Plain
    <3> QED BY <1>3, <2>4, <3>1, <3>2, Zenon
  <2> QED BY <1>1, <2>3, <2>4
<1> HIDE DEF h3
<1>5. Plain(h4) /\ IsOneway(h4) = p.oneway
  BY <1>1, <1>4, SeqApart
<1> HIDE DEF h4
<1>6. Plain(h5) /\ IsOneway(h5) = p.oneway
  <2>1. h5 \in Headers /\ SameBut("SerializeType", h5, h4)
    BY <1>1, <1>5, SerializeApart
  <2> HIDE DEF h5
  <2> QED BY <1>5, <2>1 DEF SameBut
<1>7. HTTPRequest2EmRpcRequest(NewMessage, p).header = h5
  <2> DEFINE path == LowerCase(p.servicePath)
             method == LowerCase(p.serviceMethod)
             meta == IF p.metadata # NoMetadata THEN p.metadata ELSE NewMessage.metadata
             md == IF p.auth # <<>> THEN Over(Pair(AuthKey, p.auth), meta) ELSE meta
             made == HTTPRequest2EmRpcRequest(NewMessage, p)
  <2>1. NewMessage \in Fields(NewHeader, <<>>, <<>>, NoMetadata, <<>>)
    BY DEF NewMessage, Fields
  <2>2. NewMessage.header = NewHeader
    BY DEF NewMessage
  <2>3. made = [NewMessage EXCEPT !.servicePath = path, !.serviceMethod = method,
                   !.header = h5, !.metadata = md, !.payload = p.body]
    BY <2>2, Zenon DEF HTTPRequest2EmRpcRequest, h1, h2, h3, h4
  <2> HIDE DEF path, method, meta, md, h5, made
  <2>4. made \in Fields(h5, path, method, md, p.body)
    BY <2>1, <2>3 DEF Fields
  <2>5. made.header = h5
    BY <2>4 DEF Fields
  <2> QED BY <2>5 DEF made
<1> HIDE DEF h5
<1> QED BY <1>6, <1>7

\* What Encode writes is a text.
LEMMA EncodeType ==
    ASSUME NEW m, Sound(m), NEW e \in Encode(m)
    PROVE  e \in Texts /\ Len(e) \in Nat /\ Len(e) >= 16
<1>1. PICK metadata \in EncodeMetadata(m.metadata) : e = m.header \o Text(Data(m, metadata))
  BY EncodeSound
<1>2. m.header \in Texts /\ Len(m.header) = 12 /\ metadata \in Texts
  BY HeaderText, EncodeMetadataType DEF Sound, IsMessage
<1>3. Data(m, metadata) \in Texts
  BY <1>2, DataParts
<1> DEFINE t == Text(Data(m, metadata))
<1>4. t \in Texts /\ Len(t) = 4 + Len(Data(m, metadata)) /\ Len(Data(m, metadata)) \in Nat
  BY <1>3, TextType
<1> HIDE DEF t
<1>5. e = m.header \o t
  BY <1>1 DEF t
<1>6. e \in Texts /\ Len(e) = 12 + Len(t)
  BY <1>2, <1>4, <1>5, BytesConcat
<1> QED BY <1>4, <1>6

-----------------------------------------------------------------------------
\* Finitely many sound messages.
AllSound(ms) == IsFiniteSet(DOMAIN ms) /\ \A s \in DOMAIN ms : Sound(ms[s])

\* Stream b has texts es, the encodings of the messages ms in the order of q.
Carries(b, ms, q, es) ==
    /\ q \in SetToSeqs(DOMAIN ms) /\ es \in Seq(Texts) /\ Len(es) = Len(q)
    /\ \A i \in 1..Len(q) : es[i] \in Encode(ms[q[i]])
    /\ b = FlattenSeq(es)

\* Streams in terms of Carries.
LEMMA StreamCarries ==
    ASSUME NEW ms, AllSound(ms), NEW b
    PROVE  b \in Streams(ms) <=> \E q, es : Carries(b, ms, q, es)
<1> DEFINE Written(q) == {e \in [DOMAIN q -> UNION {Encode(ms[s]) : s \in DOMAIN ms}] :
                             \A i \in DOMAIN q : e[i] \in Encode(ms[q[i]])}
<1>1. b \in Streams(ms) <=> \E q \in SetToSeqs(DOMAIN ms) : \E es \in Written(q) : b = FlattenSeq(es)
  BY DEF Streams
<1>2. ASSUME NEW q \in SetToSeqs(DOMAIN ms)
      PROVE  Len(q) \in Nat /\ DOMAIN q = 1..Len(q) /\ \A i \in 1..Len(q) : q[i] \in DOMAIN ms
  BY SetToSeqsType DEF AllSound
<1>3. ASSUME NEW q \in SetToSeqs(DOMAIN ms), NEW es \in Written(q), b = FlattenSeq(es)
      PROVE  Carries(b, ms, q, es)
  <2>1. /\ DOMAIN es = 1..Len(q) /\ es = [i \in 1..Len(q) |-> es[i]]
        /\ \A i \in 1..Len(q) : es[i] \in Encode(ms[q[i]])
    BY <1>2
  <2>2. \A i \in 1..Len(q) : es[i] \in Texts
    <3> SUFFICES ASSUME NEW i \in 1..Len(q) PROVE es[i] \in Texts
      OBVIOUS
    <3>1. es[i] \in Encode(ms[q[i]]) /\ Sound(ms[q[i]])
      BY <1>2, <2>1 DEF AllSound
    <3> QED BY <3>1, EncodeType
  <2>3. es \in [1..Len(q) -> Texts]
    BY <2>1, <2>2
  <2>4. es \in Seq(Texts) /\ Len(es) = Len(q)
    BY <1>2, <2>3, SeqDef, LenProperties
  <2> QED BY <1>3, <2>1, <2>4 DEF Carries
<1>4. ASSUME NEW q, NEW es, Carries(b, ms, q, es)
      PROVE  q \in SetToSeqs(DOMAIN ms) /\ es \in Written(q) /\ b = FlattenSeq(es)
  <2>1. q \in SetToSeqs(DOMAIN ms) /\ b = FlattenSeq(es) /\ es \in Seq(Texts) /\ Len(es) = Len(q)
    BY <1>4 DEF Carries
  <2>2. DOMAIN q = 1..Len(q) /\ \A i \in 1..Len(q) : q[i] \in DOMAIN ms /\ es[i] \in Encode(ms[q[i]])
    BY <1>2, <1>4, <2>1 DEF Carries
  <2>3. es \in [1..Len(q) -> Texts]
    BY <2>1, LenProperties
  <2>4. es \in [DOMAIN q -> UNION {Encode(ms[s]) : s \in DOMAIN ms}]
    BY <2>2, <2>3
  <2> QED BY <2>1, <2>2, <2>4
<1> HIDE DEF Written
<1> QED BY <1>1, <1>3, <1>4

\* A stream of no messages.
LEMMA StreamEmpty ==
    ASSUME NEW ms, DOMAIN ms = {}
    PROVE  <<>> \in Streams(ms)
<1>1. AllSound(ms)
  BY FS_EmptySet DEF AllSound
<1>2. Cardinality({}) = 0
  BY FS_EmptySet
<1>3. <<>> \in SetToSeqs(DOMAIN ms)
  <2>1. 1..0 = {}
    OBVIOUS
  <2>2. <<>> \in [{} -> {}]
    OBVIOUS
  <2> QED BY <1>2, <2>1, <2>2 DEF SetToSeqs
<1>4. Carries(<<>>, ms, <<>>, <<>>)
  <2>1. <<>> \in Seq(Texts) /\ Len(<<>>) = 0 /\ FlattenSeq(<<>>) = <<>>
    BY DEF FlattenSeq
  <2>2. 1..Len(<<>>) = {}
    BY <2>1
  <2> QED BY <1>3, <2>1, <2>2 DEF Carries
<1> QED BY <1>1, <1>4, StreamCarries

\* The order of a set without the first of its elements, ...
LEMMA OrderTail ==
    ASSUME NEW S, IsFiniteSet(S), NEW q \in SetToSeqs(S), q # <<>>
    PROVE  /\ q[1] \in S /\ Tail(q) \in SetToSeqs(S \ {q[1]}) /\ Len(q) \in Nat \ {0}
           /\ Len(Tail(q)) = Len(q) - 1 /\ \A i \in 1..Len(Tail(q)) : Tail(q)[i] = q[i + 1]
<1> DEFINE n == Cardinality(S)
           r == Tail(q)
<1>1. /\ n \in Nat /\ q \in [1..n -> S] /\ q \in Seq(S) /\ Len(q) = n
      /\ \A i, j \in 1..n : q[i] = q[j] => i = j
  BY SetToSeqsType
<1>2. n # 0
  <2> HIDE DEF n
  <2> QED BY <1>1, EmptySeq
<1>3. r \in Seq(S) /\ Len(r) = n - 1 /\ \A i \in 1..n - 1 : r[i] = q[i + 1]
  BY <1>1, HeadTailProperties
<1> HIDE DEF n
<1>4. q[1] \in S
  BY <1>1, <1>2
<1>5. n - 1 \in Nat /\ Cardinality(S \ {q[1]}) = n - 1
  <2>1. Cardinality(S \ {q[1]}) = Cardinality(S) - 1
    BY <1>4, FS_RemoveElement
  <2> QED BY <1>1, <1>2, <2>1 DEF n
<1> HIDE DEF r
<1>6. ASSUME NEW i \in 1..n - 1
      PROVE  r[i] \in S \ {q[1]}
  <2>1. i + 1 \in 1..n /\ i + 1 # 1 /\ 1 \in 1..n /\ r[i] = q[i + 1]
    BY <1>1, <1>3
  <2> QED BY <1>1, <2>1
<1>7. ASSUME NEW i \in 1..n - 1, NEW j \in 1..n - 1, i # j
      PROVE  r[i] # r[j]
  <2>1. /\ i + 1 \in 1..n /\ j + 1 \in 1..n /\ i + 1 # j + 1
        /\ r[i] = q[i + 1] /\ r[j] = q[j + 1]
    BY <1>1, <1>3, <1>7
  <2> QED BY <1>1, <2>1
<1>8. r \in [1..n - 1 -> S \ {q[1]}]
  <2>1. r \in [1..n - 1 -> S]
    BY <1>3, LenProperties
  <2> QED BY <1>6, <2>1
<1>9. r \in SetToSeqs(S \ {q[1]})
  BY <1>5, <1>7, <1>8 DEF SetToSeqs
<1> QED BY <1>1, <1>2, <1>3, <1>4, <1>9 DEF r

\* ... and with one more behind it.
LEMMA OrderAppend ==
    ASSUME NEW S, IsFiniteSet(S), NEW q \in SetToSeqs(S), NEW x, x \notin S
    PROVE  /\ Append(q, x) \in SetToSeqs(S \cup {x}) /\ Len(q) \in Nat
           /\ Len(Append(q, x)) = Len(q) + 1
           /\ Append(q, x)[Len(q) + 1] = x
           /\ \A i \in 1..Len(q) : q[i] \in S /\ Append(q, x)[i] = q[i]
<1> DEFINE n == Cardinality(S)
           r == Append(q, x)
           X == S \cup {x}
<1>1. /\ n \in Nat /\ q \in [1..n -> S] /\ q \in Seq(S) /\ Len(q) = n
      /\ \A i, j \in 1..n : q[i] = q[j] => i = j
  BY SetToSeqsType
<1>2. q \in Seq(X)
  <2>1. q \in [1..n -> X]
    BY <1>1
  <2> QED BY <1>1, <2>1, SeqDef
<1>3. r \in Seq(X) /\ Len(r) = n + 1 /\ r[n + 1] = x /\ \A i \in 1..n : r[i] = q[i]
  <2>1. x \in X
    OBVIOUS
  <2> QED BY <1>1, <1>2, <2>1, AppendProperties
<1>4. Cardinality(X) = n + 1
  BY FS_AddElement
<1> HIDE DEF n, r
<1>5. r \in [1..n + 1 -> X]
  BY <1>3, LenProperties
<1>6. ASSUME NEW i \in 1..n + 1, NEW j \in 1..n + 1, i # j
      PROVE  r[i] # r[j]
  <2>1. ASSUME NEW k \in 1..n + 1 PROVE k \in 1..n \/ k = n + 1
    BY <1>1
  <2>2. ASSUME NEW k \in 1..n PROVE r[k] \in S /\ r[k] = q[k]
    BY <1>1, <1>3
  <2>3. CASE i \in 1..n /\ j \in 1..n
    BY <1>1, <1>6, <2>2, <2>3
  <2>4. CASE i = n + 1 /\ j \in 1..n
    BY <1>3, <2>2, <2>4
  <2>5. CASE i \in 1..n /\ j = n + 1
    BY <1>3, <2>2, <2>5
  <2> QED BY <1>6, <2>1, <2>3, <2>4, <2>5
<1>7. r \in SetToSeqs(X)
  BY <1>4, <1>5, <1>6 DEF SetToSeqs
<1> QED BY <1>1, <1>3, <1>7 DEF r

\* The messages ms without number s, and with m as number s.
Without(ms, s) == [t \in DOMAIN ms \ {s} |-> ms[t]]
With(ms, s, m) == [t \in DOMAIN ms \cup {s} |-> IF t = s THEN m ELSE ms[t]]

\* At the head of a stream is one of its messages, and the others behind it.
LEMMA StreamHead ==
    ASSUME NEW ms, AllSound(ms), NEW b \in Streams(ms), b # <<>>
    PROVE  \E s \in DOMAIN ms : \E e \in Encode(ms[s]) :
               /\ b \in Texts /\ At(b, 0, e) /\ Len(e) <= Len(b)
               /\ SubSeq(b, Len(e) + 1, Len(b)) \in Streams(Without(ms, s))
<1>1. PICK q, es : Carries(b, ms, q, es)
  BY StreamCarries
<1>2. /\ q \in SetToSeqs(DOMAIN ms) /\ es \in Seq(Texts) /\ Len(es) = Len(q)
      /\ \A i \in 1..Len(q) : es[i] \in Encode(ms[q[i]])
      /\ b = FlattenSeq(es)
  BY <1>1 DEF Carries
<1>3. es # <<>>
  <2>1. FlattenSeq(<<>>) = <<>>
    BY DEF FlattenSeq
  <2> QED BY <1>2, <2>1
<1>4. q # <<>>
  <2>1. Len(q) # 0
    BY <1>2, <1>3, EmptySeq
  <2>2. Len(<<>>) = 0
    OBVIOUS
  <2> QED BY <2>1, <2>2
<1> DEFINE S == DOMAIN ms
           s == q[1]
           e == es[1]
           r == Tail(q)
           ds == Tail(es)
           rest == FlattenSeq(ds)
<1>5. /\ s \in S /\ r \in SetToSeqs(S \ {s}) /\ Len(q) \in Nat \ {0} /\ Len(r) = Len(q) - 1
      /\ \A i \in 1..Len(r) : r[i] = q[i + 1]
  BY <1>2, <1>4, OrderTail DEF AllSound
<1>6. e \in Texts /\ ds \in Seq(Texts) /\ rest \in Texts /\ b = e \o rest
  BY <1>2, <1>3, FlattenHead
<1>7. Len(ds) = Len(q) - 1 /\ \A i \in 1..Len(ds) : ds[i] = es[i + 1]
  BY <1>2, <1>3, HeadTailProperties
<1>8. e \in Encode(ms[s])
  <2>1. 1 \in 1..Len(q)
    BY <1>5
  <2> QED BY <1>2, <2>1
<1> HIDE DEF r, ds, rest
<1>9. AllSound(Without(ms, s)) /\ DOMAIN Without(ms, s) = S \ {s}
  BY FS_RemoveElement DEF AllSound, Without
<1>10. rest \in Streams(Without(ms, s))
  <2>1. ASSUME NEW i \in 1..Len(r)
        PROVE  ds[i] \in Encode(Without(ms, s)[r[i]])
    <3>1. i \in 1..Len(ds) /\ i + 1 \in 1..Len(q) /\ r[i] = q[i + 1] /\ ds[i] = es[i + 1]
      BY <1>5, <1>7
    <3>2. r[i] \in S \ {s}
      <4>1. IsFiniteSet(S \ {s})
        BY <1>9 DEF AllSound
      <4> QED BY <1>5, <4>1, SetToSeqsType
    <3>3. Without(ms, s)[r[i]] = ms[r[i]]
      BY <3>2 DEF Without
    <3> QED BY <1>2, <3>1, <3>3
  <2>2. Carries(rest, Without(ms, s), r, ds)
    BY <1>5, <1>6, <1>7, <1>9, <2>1 DEF Carries, rest
  <2> QED BY <1>9, <2>2, StreamCarries
<1> HIDE DEF s, e
<1>11. b \in Texts /\ At(b, 0, e) /\ At(b, Len(e), rest) /\ Len(b) = Len(e) + Len(rest)
  <2>1. b \in Texts /\ Len(b) = Len(e) + Len(rest)
    BY <1>6, BytesConcat
  <2>2. At(b, 0, b) /\ 0 \in Nat
    BY <2>1, AtSelf
  <2>3. At(b, 0, e) /\ At(b, 0 + Len(e), rest)
    BY <1>6, <2>2, AtConcat
  <2>4. 0 + Len(e) = Len(e)
    BY <1>6, LenProperties DEF Texts
  <2> QED BY <2>1, <2>3, <2>4
<1>12. Len(e) \in Nat /\ Len(rest) \in Nat
  BY <1>6, LenProperties DEF Texts
<1>13. SubSeq(b, Len(e) + 1, Len(b)) = rest
  BY <1>6, <1>11, <1>12, AtSubSeq
<1>14. Len(e) <= Len(b)
  BY <1>11, <1>12
<1> QED BY <1>5, <1>8, <1>10, <1>11, <1>13, <1>14 DEF s, e

\* A message more at the end of a stream.
LEMMA StreamAppend ==
    ASSUME NEW ms, AllSound(ms), NEW b \in Streams(ms), NEW s, s \notin DOMAIN ms,
           NEW m, Sound(m), NEW e \in Encode(m)
    PROVE  AllSound(With(ms, s, m)) /\ b \o e \in Streams(With(ms, s, m))
<1> DEFINE S == DOMAIN ms
           W == With(ms, s, m)
<1>1. /\ AllSound(W) /\ DOMAIN W = S \cup {s} /\ W[s] = m
      /\ \A t \in S : W[t] = ms[t]
  <2>1. IsFiniteSet(S \cup {s})
    BY FS_AddElement DEF AllSound
  <2> QED BY <2>1 DEF AllSound, With
<1>2. PICK q, es : Carries(b, ms, q, es)
  BY StreamCarries
<1>3. /\ q \in SetToSeqs(S) /\ es \in Seq(Texts) /\ Len(es) = Len(q)
      /\ \A i \in 1..Len(q) : es[i] \in Encode(ms[q[i]])
      /\ b = FlattenSeq(es)
  BY <1>2 DEF Carries
<1> DEFINE r == Append(q, s)
           ds == Append(es, e)
<1>4. /\ r \in SetToSeqs(S \cup {s}) /\ Len(q) \in Nat /\ Len(r) = Len(q) + 1
      /\ r[Len(q) + 1] = s /\ \A i \in 1..Len(q) : q[i] \in S /\ r[i] = q[i]
  <2>1. IsFiniteSet(S) /\ s \notin S
    BY DEF AllSound
  <2> HIDE DEF S
  <2>2. /\ Append(q, s) \in SetToSeqs(S \cup {s}) /\ Len(q) \in Nat
        /\ Len(Append(q, s)) = Len(q) + 1
        /\ Append(q, s)[Len(q) + 1] = s
        /\ \A i \in 1..Len(q) : q[i] \in S /\ Append(q, s)[i] = q[i]
    <3>1. q \in SetToSeqs(S)
      BY <1>3
    <3> HIDE DEF r, ds, W
    <3> QED BY <2>1, <3>1, OrderAppend
  <2> QED BY <2>2 DEF r
<1>5. e \in Texts
  BY EncodeType
<1>6. /\ ds \in Seq(Texts) /\ Len(ds) = Len(q) + 1 /\ ds[Len(q) + 1] = e
      /\ \A i \in 1..Len(q) : ds[i] = es[i]
  BY <1>3, <1>5, AppendProperties
<1>7. FlattenSeq(ds) = b \o e
  BY <1>3, <1>5, FlattenAppend
<1> HIDE DEF W, r, ds
<1>8. ASSUME NEW i \in 1..Len(r)
      PROVE  ds[i] \in Encode(W[r[i]])
  <2>1. i \in 1..Len(q) \/ i = Len(q) + 1
    BY <1>4
  <2>2. CASE i \in 1..Len(q)
    BY <1>1, <1>3, <1>4, <1>6, <2>2
  <2>3. CASE i = Len(q) + 1
    BY <1>1, <1>4, <1>6, <2>3
  <2> QED BY <2>1, <2>2, <2>3
<1>9. Carries(b \o e, W, r, ds)
  BY <1>1, <1>4, <1>6, <1>7, <1>8 DEF Carries
<1>10. b \o e \in Streams(W)
  BY <1>1, <1>9, StreamCarries
<1> QED BY <1>1, <1>10 DEF W

\* The first message of a stream can be decoded, and leaves a stream of the
\* others.
LEMMA StreamRead ==
    ASSUME NEW ms, AllSound(ms), NEW b \in Streams(ms), b # <<>>
    PROVE  /\ ~DecodeFails(b) /\ Length(b) <= Len(b)
           /\ \E s \in DOMAIN ms :
                  /\ \A m0 : Decode(m0, b) = Holding(m0, ms[s])
                  /\ SubSeq(b, Length(b) + 1, Len(b)) \in Streams(Without(ms, s))
<1>1. PICK s \in DOMAIN ms : \E e \in Encode(ms[s]) :
          /\ b \in Texts /\ At(b, 0, e) /\ Len(e) <= Len(b)
          /\ SubSeq(b, Len(e) + 1, Len(b)) \in Streams(Without(ms, s))
  BY StreamHead
<1>2. PICK e \in Encode(ms[s]) :
          /\ b \in Texts /\ At(b, 0, e) /\ Len(e) <= Len(b)
          /\ SubSeq(b, Len(e) + 1, Len(b)) \in Streams(Without(ms, s))
  BY <1>1
<1>3. Sound(ms[s])
  BY DEF AllSound
<1>4. /\ Length(b) = Len(e) /\ ~DecodeFails(b)
      /\ \A m0 : Decode(m0, b) = Holding(m0, ms[s])
  BY <1>2, <1>3, MessageInverse
<1>5. /\ Length(b) <= Len(b)
      /\ SubSeq(b, Length(b) + 1, Len(b)) \in Streams(Without(ms, s))
  BY <1>2, <1>4, Zenon
<1> QED BY <1>4, <1>5

\* A Message with the contents of another.
LEMMA HoldingIs ==
    ASSUME NEW m0, IsMessage(m0), NEW m, IsMessage(m)
    PROVE  LET g == Holding(m0, m) IN
           /\ IsMessage(g)
           /\ g = [header |-> m.header, servicePath |-> m.servicePath,
                   serviceMethod |-> m.serviceMethod,
                   metadata |-> IF m.metadata = NoMetadata THEN m0.metadata ELSE m.metadata,
                   payload |-> m.payload]
<1> DEFINE md == IF m.metadata = NoMetadata THEN m0.metadata ELSE m.metadata
           g == Holding(m0, m)
<1>1. g = [m0 EXCEPT !.header = m.header, !.servicePath = m.servicePath,
             !.serviceMethod = m.serviceMethod, !.metadata = md, !.payload = m.payload]
  BY Zenon DEF Holding
<1>2. IsMetadata(md)
  BY DEF IsMessage
<1> HIDE DEF md, g
<1>3. g \in Fields(m.header, m.servicePath, m.serviceMethod, md, m.payload)
  BY <1>1 DEF IsMessage, Fields
<1>4. g = [header |-> m.header, servicePath |-> m.servicePath,
           serviceMethod |-> m.serviceMethod, metadata |-> md, payload |-> m.payload]
  BY <1>3, FieldsGive
<1>5. IsMessage(g)
  BY <1>2, <1>3 DEF IsMessage, Fields
<1> QED BY <1>4, <1>5 DEF md, g

\* In a new Message, nothing else is found.
LEMMA HoldingNew ==
    ASSUME NEW m, IsMessage(m)
    PROVE  Holding(NewMessage, m) = m
<1> DEFINE g == Holding(NewMessage, m)
           md == IF m.metadata = NoMetadata THEN NewMessage.metadata ELSE m.metadata
<1>1. NewMessage \in Fields(NewHeader, <<>>, <<>>, NoMetadata, <<>>)
  BY DEF NewMessage, Fields
<1>2. NewMessage.metadata = NoMetadata
  BY DEF NewMessage
<1>3. md = m.metadata
  BY <1>2
<1>4. g = [NewMessage EXCEPT !.header = m.header, !.servicePath = m.servicePath,
             !.serviceMethod = m.serviceMethod, !.metadata = md, !.payload = m.payload]
  BY Zenon DEF Holding
<1> HIDE DEF g, md
<1>5. g \in Fields(m.header, m.servicePath, m.serviceMethod, m.metadata, m.payload)
  BY <1>1, <1>3, <1>4 DEF Fields
<1>6. m \in Fields(m.header, m.servicePath, m.serviceMethod, m.metadata, m.payload)
  BY DEF IsMessage, Fields
<1> QED BY <1>5, <1>6, FieldsGive DEF g

\* Message m is the request of call s, which asks c, ...
IsRequest(m, c, s) ==
    /\ m.servicePath = c.servicePath /\ m.serviceMethod = c.serviceMethod
    /\ m.metadata = ExtractMd(c)
    /\ m.payload = IF c.serializeType = SerializeNone THEN <<>> ELSE c.args
    /\ RequestHeader(m.header, c, s) /\ Seq8(m.header) = s /\ Sound(m)

\* ... or the answer to it, when the service replies r.
Answer(c, s, r) ==
    IF c.heartBeat
    THEN [CreateRequest(NewMessage, c, s) EXCEPT !.header = SetMessageType(@, Response)]
    ELSE HandleRequest(CreateRequest(NewMessage, c, s), NewMessage, r)

IsAnswer(m, c, s, r) ==
    /\ ~c.heartBeat => m.payload = r.payload
    /\ m.metadata = IF c.heartBeat THEN ExtractMd(c) ELSE r.metadata
    /\ ResponseHeader(m.header, c, s) /\ Seq8(m.header) = s /\ Sound(m)

\* createRequest makes the request, ...
LEMMA RequestIs ==
    ASSUME NEW c \in Asks, NEW s \in Calls
    PROVE  IsRequest(CreateRequest(NewMessage, c, s), c, s)
<1> DEFINE m == CreateRequest(NewMessage, c, s)
           payload == IF c.serializeType = SerializeNone THEN <<>> ELSE c.args
           md == ExtractMd(c)
<1>1. /\ m = [header |-> m.header, servicePath |-> c.servicePath,
              serviceMethod |-> c.serviceMethod, metadata |-> md, payload |-> payload]
      /\ RequestHeader(m.header, c, s) /\ Sound(m)
  BY CreateRequestIs
<1> HIDE DEF m
<1>2. Seq8(m.header) = s
  BY <1>1, NumberedRead DEF RequestHeader
<1>3. /\ m.servicePath = c.servicePath /\ m.serviceMethod = c.serviceMethod
      /\ m.metadata = md /\ m.payload = payload
  <2> HIDE DEF payload, md
  <2>1. m \in Fields(m.header, c.servicePath, c.serviceMethod, md, payload)
    BY <1>1 DEF Fields
  <2> QED BY <2>1 DEF Fields
<1>4. IsRequest(m, c, s)
  BY <1>1, <1>2, <1>3 DEF IsRequest
<1> QED BY <1>4 DEF m

\* ... and the server the answer.
LEMMA AnswerIs ==
    ASSUME NEW c \in Asks, NEW s \in Calls, NEW r, c.heartBeat \/ r \in Replies
    PROVE  IsAnswer(Answer(c, s, r), c, s, r)
<1> DEFINE req == CreateRequest(NewMessage, c, s)
           m == Answer(c, s, r)
<1>1. CASE c.heartBeat
  <2>1. m = [req EXCEPT !.header = SetMessageType(@, Response)]
    BY <1>1, Zenon DEF Answer
  <2>2. ResponseHeader(m.header, c, s) /\ Sound(m)
    BY <2>1, HeartbeatIs
  <2> HIDE DEF m
  <2>3. Seq8(m.header) = s
    BY <2>2, NumberedRead DEF ResponseHeader
  <2>4. m.metadata = ExtractMd(c)
    BY <2>1, RequestIs DEF IsRequest
  <2>5. IsAnswer(m, c, s, r)
    BY <1>1, <2>2, <2>3, <2>4 DEF IsAnswer
  <2> QED BY <2>5 DEF m
<1>2. CASE ~c.heartBeat
  <2>1. m = HandleRequest(req, NewMessage, r) /\ r \in Replies
    BY <1>2 DEF Answer
  <2>2. /\ m = [header |-> m.header, servicePath |-> c.servicePath,
                serviceMethod |-> c.serviceMethod, metadata |-> r.metadata,
                payload |-> r.payload]
        /\ ResponseHeader(m.header, c, s) /\ Sound(m)
    BY <2>1, HandleRequestIs
  <2> HIDE DEF m
  <2>3. Seq8(m.header) = s
    BY <2>2, NumberedRead DEF ResponseHeader
  <2>4. m.metadata = r.metadata /\ m.payload = r.payload
    <3>1. m \in Fields(m.header, c.servicePath, c.serviceMethod, r.metadata, r.payload)
      BY <2>2 DEF Fields
    <3> QED BY <3>1 DEF Fields
  <2>5. IsAnswer(m, c, s, r)
    BY <1>2, <2>2, <2>3, <2>4 DEF IsAnswer
  <2> QED BY <2>5 DEF m
<1> QED BY <1>1, <1>2

-----------------------------------------------------------------------------
\* The calls made.
AskedSoFar(a) == a \in Seq(Asks) /\ Len(a) <= MaxCalls

\* Those of U that are on their way, and the answers to those of D.
Asking(a, U) == [s \in U |-> CreateRequest(NewMessage, a[s], s)]
Answering(a, g, D) == [s \in D |-> Answer(a[s], s, g[s])]

\* Calls, and their numbers.
LEMMA AskedType ==
    ASSUME NEW a, AskedSoFar(a)
    PROVE  /\ IsFiniteSet(DOMAIN a) /\ Len(a) \in Nat /\ DOMAIN a = 1..Len(a)
           /\ \A s \in DOMAIN a : a[s] \in Asks /\ s \in Calls
<1>1. a \in Seq(Asks) /\ Len(a) \in Nat /\ DOMAIN a = 1..Len(a) /\ MaxCalls \in Nat
  BY LenProperties, ExchangeAssumption DEF AskedSoFar
<1>2. \A s \in DOMAIN a : a[s] \in Asks /\ s \in Calls
  BY <1>1, ElementOfSeq DEF AskedSoFar, Calls
<1>3. IsFiniteSet(1..Len(a))
  BY <1>1, FS_Interval
<1> QED BY <1>1, <1>2, <1>3

\* What is on its way to the server are requests, ...
LEMMA AskingSound ==
    ASSUME NEW a, AskedSoFar(a), NEW U \in SUBSET DOMAIN a
    PROVE  /\ AllSound(Asking(a, U)) /\ DOMAIN Asking(a, U) = U
           /\ \A s \in U : /\ Asking(a, U)[s] = CreateRequest(NewMessage, a[s], s)
                           /\ IsRequest(Asking(a, U)[s], a[s], s)
<1> DEFINE ms == Asking(a, U)
<1>1. IsFiniteSet(U)
  BY AskedType, FS_Subset
<1>2. DOMAIN ms = U /\ \A s \in U : ms[s] = CreateRequest(NewMessage, a[s], s)
  BY DEF Asking
<1> HIDE DEF ms
<1>3. ASSUME NEW s \in U
      PROVE  IsRequest(ms[s], a[s], s)
  <2>1. a[s] \in Asks /\ s \in Calls
    BY AskedType
  <2> QED BY <1>2, <2>1, RequestIs
<1>4. AllSound(ms)
  BY <1>1, <1>2, <1>3 DEF AllSound, IsRequest
<1> QED BY <1>2, <1>3, <1>4 DEF ms

\* ... and on its way back, answers.
LEMMA AnsweringSound ==
    ASSUME NEW a, AskedSoFar(a), NEW D \in SUBSET DOMAIN a, NEW g,
           \A s \in D : a[s].heartBeat \/ g[s] \in Replies
    PROVE  /\ AllSound(Answering(a, g, D)) /\ DOMAIN Answering(a, g, D) = D
           /\ \A s \in D : /\ Answering(a, g, D)[s] = Answer(a[s], s, g[s])
                           /\ IsAnswer(Answering(a, g, D)[s], a[s], s, g[s])
<1> DEFINE ms == Answering(a, g, D)
<1>1. IsFiniteSet(D)
  BY AskedType, FS_Subset
<1>2. DOMAIN ms = D /\ \A s \in D : ms[s] = Answer(a[s], s, g[s])
  BY DEF Answering
<1> HIDE DEF ms
<1>3. ASSUME NEW s \in D
      PROVE  IsAnswer(ms[s], a[s], s, g[s])
  <2>1. a[s] \in Asks /\ s \in Calls
    BY AskedType
  <2> QED BY <1>2, <2>1, AnswerIs
<1>4. AllSound(ms)
  BY <1>1, <1>2, <1>3 DEF AllSound, IsAnswer
<1> QED BY <1>2, <1>3, <1>4 DEF ms

-----------------------------------------------------------------------------
(* The calls on their way.                                                 *)

\* Where calls a are, with what services replied so far, g: those of U on
\* their way, in stream u; requests R in the server; those of D answered, in
\* stream d.
Settled(a, g, R, U, D) ==
    /\ AskedSoFar(a) /\ U \in SUBSET DOMAIN a /\ D \in SUBSET (DOMAIN a \ U)
    /\ g \in [DOMAIN g -> Replies] /\ DOMAIN g \subseteq DOMAIN a \ U
    /\ \A m \in R : \E s \in DOMAIN a \ (DOMAIN g \cup U) :
                        ~a[s].heartBeat /\ m = CreateRequest(NewMessage, a[s], s)
    /\ \A s \in D : a[s].heartBeat \/ s \in DOMAIN g

Flows(a, g, R, u, d, U, D) ==
    /\ Settled(a, g, R, U, D)
    /\ u \in Streams(Asking(a, U)) /\ d \in Streams(Answering(a, g, D))

\* The streams are of sound messages.
LEMMA FlowsSound ==
    ASSUME NEW a, NEW g, NEW R, NEW u, NEW d, NEW U, NEW D, Flows(a, g, R, u, d, U, D)
    PROVE  /\ AllSound(Asking(a, U)) /\ DOMAIN Asking(a, U) = U
           /\ AllSound(Answering(a, g, D)) /\ DOMAIN Answering(a, g, D) = D
           /\ \A s \in U : /\ Asking(a, U)[s] = CreateRequest(NewMessage, a[s], s)
                           /\ IsRequest(Asking(a, U)[s], a[s], s)
           /\ \A s \in D : /\ Answering(a, g, D)[s] = Answer(a[s], s, g[s])
                           /\ IsAnswer(Answering(a, g, D)[s], a[s], s, g[s])
<1>1. /\ AskedSoFar(a) /\ U \in SUBSET DOMAIN a /\ D \in SUBSET DOMAIN a
      /\ \A s \in D : a[s].heartBeat \/ g[s] \in Replies
  BY DEF Flows, Settled
<1>2. /\ AllSound(Asking(a, U)) /\ DOMAIN Asking(a, U) = U
      /\ \A s \in U : /\ Asking(a, U)[s] = CreateRequest(NewMessage, a[s], s)
                      /\ IsRequest(Asking(a, U)[s], a[s], s)
  BY <1>1, AskingSound
<1>3. /\ AllSound(Answering(a, g, D)) /\ DOMAIN Answering(a, g, D) = D
      /\ \A s \in D : /\ Answering(a, g, D)[s] = Answer(a[s], s, g[s])
                      /\ IsAnswer(Answering(a, g, D)[s], a[s], s, g[s])
  BY <1>1, AnsweringSound
<1> QED BY <1>2, <1>3

\* A call more.
LEMMA FlowsSend ==
    ASSUME NEW a, NEW g, NEW R, NEW u, NEW d, NEW U, NEW D, Flows(a, g, R, u, d, U, D),
           NEW c \in Asks, Len(a) + 1 <= MaxCalls,
           NEW e \in Encode(CreateRequest(NewMessage, c, Len(a) + 1))
    PROVE  Flows(Append(a, c), g, R, u \o e, d, U \cup {Len(a) + 1}, D)
<1> DEFINE n == Len(a) + 1
           b == Append(a, c)
           V == U \cup {n}
           m == CreateRequest(NewMessage, c, n)
<1>1. /\ AskedSoFar(a) /\ U \in SUBSET DOMAIN a /\ D \in SUBSET (DOMAIN a \ U)
      /\ g \in [DOMAIN g -> Replies] /\ DOMAIN g \subseteq DOMAIN a \ U
      /\ \A x \in R : \E s \in DOMAIN a \ (DOMAIN g \cup U) :
                          ~a[s].heartBeat /\ x = CreateRequest(NewMessage, a[s], s)
      /\ \A s \in D : a[s].heartBeat \/ s \in DOMAIN g
      /\ u \in Streams(Asking(a, U)) /\ d \in Streams(Answering(a, g, D))
  BY DEF Flows, Settled
<1>2. /\ DOMAIN a = 1..Len(a) /\ Len(a) \in Nat /\ a \in Seq(Asks) /\ MaxCalls \in Nat
  BY <1>1, AskedType, ExchangeAssumption DEF AskedSoFar
<1>3. /\ b \in Seq(Asks) /\ Len(b) = n /\ b[n] = c /\ \A s \in DOMAIN a : b[s] = a[s]
  BY <1>2, AppendProperties
<1>4. /\ DOMAIN b = DOMAIN a \cup {n} /\ n \notin DOMAIN a /\ n \in Calls /\ AskedSoFar(b)
  <2>1. DOMAIN b = 1..n
    BY <1>3, LenProperties
  <2> HIDE DEF b
  <2>2. 1..n = 1..Len(a) \cup {n} /\ n \notin 1..Len(a) /\ n \in 1..MaxCalls
    BY <1>2
  <2> QED BY <1>2, <1>3, <2>1, <2>2 DEF AskedSoFar, Calls
<1> HIDE DEF b, n, m
<1>5. Settled(b, g, R, V, D)
  <2>1. V \in SUBSET DOMAIN b /\ D \in SUBSET (DOMAIN b \ V) /\ DOMAIN g \subseteq DOMAIN b \ V
    BY <1>1, <1>4
  <2>2. ASSUME NEW x \in R
        PROVE  \E s \in DOMAIN b \ (DOMAIN g \cup V) :
                   ~b[s].heartBeat /\ x = CreateRequest(NewMessage, b[s], s)
    <3>1. PICK s \in DOMAIN a \ (DOMAIN g \cup U) :
              ~a[s].heartBeat /\ x = CreateRequest(NewMessage, a[s], s)
      BY <1>1
    <3>2. s \in DOMAIN b \ (DOMAIN g \cup V) /\ b[s] = a[s]
      BY <1>3, <1>4
    <3> QED BY <3>1, <3>2
  <2>3. \A s \in D : b[s].heartBeat \/ s \in DOMAIN g
    BY <1>1, <1>3
  <2> QED BY <1>1, <1>4, <2>1, <2>2, <2>3 DEF Settled
<1>6. u \o e \in Streams(Asking(b, V))
  <2> DEFINE ms == Asking(a, U)
  <2>1. AllSound(ms) /\ DOMAIN ms = U /\ \A s \in U : ms[s] = CreateRequest(NewMessage, a[s], s)
    BY FlowsSound
  <2>2. Sound(m)
    BY <1>4, RequestIs DEF IsRequest, m
  <2>3. n \notin DOMAIN ms
    BY <1>1, <1>4, <2>1
  <2>4. e \in Encode(m)
    BY DEF m, n
  <2>5. u \o e \in Streams(With(ms, n, m))
    <3> HIDE DEF ms
    <3>1. u \in Streams(ms)
      BY <1>1 DEF ms
    <3> QED BY <2>1, <2>2, <2>3, <2>4, <3>1, StreamAppend
  <2>6. Asking(b, V) = With(ms, n, m)
    <3>1. ASSUME NEW t \in V
          PROVE  CreateRequest(NewMessage, b[t], t) = IF t = n THEN m ELSE ms[t]
      <4>1. CASE t = n
        BY <1>3, <4>1 DEF m
      <4>2. CASE t # n
        <5>1. t \in U /\ b[t] = a[t]
          BY <1>1, <1>3, <4>2
        <5> QED BY <2>1, <4>2, <5>1
      <4> QED BY <4>1, <4>2
    <3> HIDE DEF ms
    <3> QED BY <2>1, <3>1 DEF Asking, With
  <2> QED BY <2>5, <2>6
<1>7. Answering(b, g, D) = Answering(a, g, D)
  <2>1. \A s \in D : b[s] = a[s]
    BY <1>1, <1>3
  <2> QED BY <2>1 DEF Answering
<1>8. Flows(b, g, R, u \o e, d, V, D)
  BY <1>1, <1>5, <1>6, <1>7 DEF Flows
<1> QED BY <1>8 DEF b, n

\* The streams without one of their messages.
LEMMA AskingWithout ==
    ASSUME NEW a, NEW U, NEW s \in U
    PROVE  Without(Asking(a, U), s) = Asking(a, U \ {s})
BY DEF Without, Asking

\* The same of answers.
LEMMA AnsweringWithout ==
    ASSUME NEW a, NEW g, NEW D, NEW s \in D
    PROVE  Without(Answering(a, g, D), s) = Answering(a, g, D \ {s})
BY DEF Without, Answering

\* What the server finds in stream u when it reads the request of call s.
Received(a, g, R, u, d, U, D, s) ==
    /\ s \in DOMAIN a \ D /\ s \in Calls /\ a[s] \in Asks
    /\ Decode(NewMessage, u) = CreateRequest(NewMessage, a[s], s)
    /\ Flows(a, g, R, SubSeq(u, Length(u) + 1, Len(u)), d, U \ {s}, D)
    /\ ~a[s].heartBeat =>
           Flows(a, g, R \cup {CreateRequest(NewMessage, a[s], s)},
                 SubSeq(u, Length(u) + 1, Len(u)), d, U \ {s}, D)

\* The server reads: a request goes to its own goroutine, ...
LEMMA FlowsReceive ==
    ASSUME NEW a, NEW g, NEW R, NEW u, NEW d, NEW U, NEW D, Flows(a, g, R, u, d, U, D),
           u # <<>>
    PROVE  /\ ~DecodeFails(u) /\ Length(u) <= Len(u)
           /\ \E s \in U : Received(a, g, R, u, d, U, D, s)
<1> DEFINE ms == Asking(a, U)
           rest == SubSeq(u, Length(u) + 1, Len(u))
<1>1. /\ AskedSoFar(a) /\ U \in SUBSET DOMAIN a /\ D \in SUBSET (DOMAIN a \ U)
      /\ g \in [DOMAIN g -> Replies] /\ DOMAIN g \subseteq DOMAIN a \ U
      /\ \A x \in R : \E s \in DOMAIN a \ (DOMAIN g \cup U) :
                          ~a[s].heartBeat /\ x = CreateRequest(NewMessage, a[s], s)
      /\ \A s \in D : a[s].heartBeat \/ s \in DOMAIN g
      /\ u \in Streams(ms) /\ d \in Streams(Answering(a, g, D))
  BY DEF Flows, Settled
<1>2. /\ AllSound(ms) /\ DOMAIN ms = U
      /\ \A s \in U : ms[s] = CreateRequest(NewMessage, a[s], s) /\ IsRequest(ms[s], a[s], s)
  BY FlowsSound
<1> HIDE DEF ms
<1>3. /\ ~DecodeFails(u) /\ Length(u) <= Len(u)
      /\ \E s \in DOMAIN ms :
             /\ \A m0 : Decode(m0, u) = Holding(m0, ms[s])
             /\ SubSeq(u, Length(u) + 1, Len(u)) \in Streams(Without(ms, s))
  BY <1>1, <1>2, StreamRead
<1>4. PICK s \in U : /\ \A m0 : Decode(m0, u) = Holding(m0, ms[s])
                     /\ rest \in Streams(Without(ms, s))
  BY <1>2, <1>3
<1> HIDE DEF rest
<1> DEFINE req == CreateRequest(NewMessage, a[s], s)
<1>5. s \in DOMAIN a \ D /\ s \in Calls /\ a[s] \in Asks
  BY <1>1, AskedType
<1>6. Decode(NewMessage, u) = req
  <2>1. IsMessage(ms[s])
    BY <1>2 DEF IsRequest, Sound
  <2>2. Holding(NewMessage, ms[s]) = ms[s]
    BY <2>1, HoldingNew
  <2> QED BY <1>2, <1>4, <2>2
<1>7. rest \in Streams(Asking(a, U \ {s}))
  BY <1>4, AskingWithout DEF ms
<1> DEFINE V == U \ {s}
<1>8. \A x \in R : \E t \in DOMAIN a \ (DOMAIN g \cup V) :
                       ~a[t].heartBeat /\ x = CreateRequest(NewMessage, a[t], t)
  <2> SUFFICES ASSUME NEW x \in R
               PROVE  \E t \in DOMAIN a \ (DOMAIN g \cup V) :
                          ~a[t].heartBeat /\ x = CreateRequest(NewMessage, a[t], t)
    OBVIOUS
  <2>1. PICK t \in DOMAIN a \ (DOMAIN g \cup U) :
            ~a[t].heartBeat /\ x = CreateRequest(NewMessage, a[t], t)
    BY <1>1
  <2> QED BY <2>1
<1>9. /\ V \in SUBSET DOMAIN a /\ D \in SUBSET (DOMAIN a \ V) /\ DOMAIN g \subseteq DOMAIN a \ V
      /\ s \in DOMAIN a \ (DOMAIN g \cup V)
  BY <1>1
<1> HIDE DEF V, req
<1>10. Flows(a, g, R, rest, d, V, D)
  <2>1. Settled(a, g, R, V, D)
    BY <1>1, <1>8, <1>9 DEF Settled
  <2> QED BY <1>1, <1>7, <2>1 DEF Flows, V
<1>11. ASSUME ~a[s].heartBeat
       PROVE  Flows(a, g, R \cup {req}, rest, d, V, D)
  <2>1. ASSUME NEW x \in R \cup {req}
        PROVE  \E t \in DOMAIN a \ (DOMAIN g \cup V) :
                   ~a[t].heartBeat /\ x = CreateRequest(NewMessage, a[t], t)
    <3>1. CASE x \in R
      BY <1>8, <3>1
    <3>2. CASE x = req
      BY <1>9, <1>11, <3>2 DEF req
    <3> QED BY <3>1, <3>2
  <2>2. Settled(a, g, R \cup {req}, V, D)
    BY <1>1, <1>9, <2>1 DEF Settled
  <2> QED BY <1>1, <1>7, <2>2 DEF Flows, V
<1>12. Received(a, g, R, u, d, U, D, s)
  BY <1>5, <1>6, <1>10, <1>11 DEF rest, V, req, Received
<1> QED BY <1>3, <1>12

\* ... a heartbeat is answered, ...
LEMMA FlowsHeartbeat ==
    ASSUME NEW a, NEW g, NEW R, NEW u, NEW d, NEW U, NEW D, Flows(a, g, R, u, d, U, D),
           NEW s \in DOMAIN a, s \notin U, s \notin D, a[s].heartBeat,
           NEW e \in Encode(Answer(a[s], s, g[s]))
    PROVE  Flows(a, g, R, u, d \o e, U, D \cup {s})
<1> DEFINE ms == Answering(a, g, D)
           E == D \cup {s}
           m == Answer(a[s], s, g[s])
<1>1. /\ AskedSoFar(a) /\ U \in SUBSET DOMAIN a /\ D \in SUBSET (DOMAIN a \ U)
      /\ g \in [DOMAIN g -> Replies] /\ DOMAIN g \subseteq DOMAIN a \ U
      /\ \A x \in R : \E t \in DOMAIN a \ (DOMAIN g \cup U) :
                          ~a[t].heartBeat /\ x = CreateRequest(NewMessage, a[t], t)
      /\ \A t \in D : a[t].heartBeat \/ t \in DOMAIN g
      /\ u \in Streams(Asking(a, U)) /\ d \in Streams(ms)
  BY DEF Flows, Settled
<1>2. AllSound(ms) /\ DOMAIN ms = D
  BY FlowsSound
<1>3. Sound(m)
  <2>1. a[s] \in Asks /\ s \in Calls
    BY <1>1, AskedType
  <2> QED BY <2>1, AnswerIs DEF IsAnswer
<1>4. Answering(a, g, E) = With(ms, s, m)
  BY DEF Answering, With
<1> HIDE DEF ms, m
<1>5. d \o e \in Streams(Answering(a, g, E))
  <2>1. e \in Encode(m)
    BY DEF m
  <2>2. d \o e \in Streams(With(ms, s, m))
    BY <1>1, <1>2, <1>3, <2>1, StreamAppend
  <2> QED BY <1>4, <2>2
<1>6. Settled(a, g, R, U, E)
  <2>1. E \in SUBSET (DOMAIN a \ U)
    BY <1>1
  <2>2. \A t \in E : a[t].heartBeat \/ t \in DOMAIN g
    BY <1>1
  <2> HIDE DEF E
  <2> QED BY <1>1, <2>1, <2>2 DEF Settled
<1> QED BY <1>1, <1>5, <1>6 DEF Flows

\* What the server does with the request of call s, ...
Handled(a, g, R, u, d, U, D, req, s) ==
    /\ s \in DOMAIN a \ DOMAIN g /\ s \in Calls /\ a[s] \in Asks /\ ~a[s].heartBeat
    /\ req = CreateRequest(NewMessage, a[s], s) /\ IsRequest(req, a[s], s)
    /\ \A r \in Replies :
           \A e \in Encode(HandleRequest(req, NewMessage, r)) :
               Flows(a, Over(Pair(s, r), g), R \ {req}, u, d \o e, U, D \cup {s})

\* ... and the client with the response.
Answered(a, g, R, u, d, U, D, s) ==
    /\ s \in DOMAIN a /\ (a[s].heartBeat \/ s \in DOMAIN g)
    /\ \A m0 : Decode(m0, d) = Holding(m0, Answer(a[s], s, g[s]))
    /\ IsAnswer(Answer(a[s], s, g[s]), a[s], s, g[s])
    /\ Flows(a, g, R, u, SubSeq(d, Length(d) + 1, Len(d)), U, D \ {s})

\* ... and so is a request, when its service has replied.
LEMMA FlowsHandle ==
    ASSUME NEW a, NEW g, NEW R, NEW u, NEW d, NEW U, NEW D, Flows(a, g, R, u, d, U, D),
           NEW req \in R
    PROVE  \E s : Handled(a, g, R, u, d, U, D, req, s)
<1>1. /\ AskedSoFar(a) /\ U \in SUBSET DOMAIN a /\ D \in SUBSET (DOMAIN a \ U)
      /\ g \in [DOMAIN g -> Replies] /\ DOMAIN g \subseteq DOMAIN a \ U
      /\ \A x \in R : \E t \in DOMAIN a \ (DOMAIN g \cup U) :
                          ~a[t].heartBeat /\ x = CreateRequest(NewMessage, a[t], t)
      /\ \A t \in D : a[t].heartBeat \/ t \in DOMAIN g
      /\ u \in Streams(Asking(a, U)) /\ d \in Streams(Answering(a, g, D))
  BY DEF Flows, Settled
<1>2. PICK s \in DOMAIN a \ (DOMAIN g \cup U) :
          ~a[s].heartBeat /\ req = CreateRequest(NewMessage, a[s], s)
  BY <1>1
<1>3. s \in Calls /\ a[s] \in Asks /\ IsRequest(req, a[s], s)
  <2>1. s \in Calls /\ a[s] \in Asks
    BY <1>1, AskedType
  <2> QED BY <1>2, <2>1, RequestIs
<1>4. s \notin D
  BY <1>1, <1>2
<1>5. ASSUME NEW r \in Replies, NEW e \in Encode(HandleRequest(req, NewMessage, r))
      PROVE  Flows(a, Over(Pair(s, r), g), R \ {req}, u, d \o e, U, D \cup {s})
  <2> DEFINE k == Over(Pair(s, r), g)
             E == D \cup {s}
             ms == Answering(a, g, D)
             m == Answer(a[s], s, r)
  <2>1. /\ DOMAIN k = DOMAIN g \cup {s} /\ k[s] = r
        /\ \A t \in DOMAIN g : t # s => k[t] = g[t]
    BY DEF Over, Pair
  <2>2. k \in [DOMAIN k -> Replies]
    <3>1. \A t \in DOMAIN g : g[t] \in Replies
      BY <1>1
    <3>2. k = [t \in DOMAIN k |-> k[t]]
      BY DEF Over
    <3>3. \A t \in DOMAIN k : k[t] \in Replies
      BY <2>1, <3>1
    <3> HIDE DEF k
    <3> QED BY <3>2, <3>3
  <2> HIDE DEF k
  <2>3. Settled(a, k, R \ {req}, U, E)
    <3>1. E \in SUBSET (DOMAIN a \ U) /\ DOMAIN k \subseteq DOMAIN a \ U
      BY <1>1, <1>2, <2>1
    <3>2. ASSUME NEW x \in R \ {req}
          PROVE  \E t \in DOMAIN a \ (DOMAIN k \cup U) :
                     ~a[t].heartBeat /\ x = CreateRequest(NewMessage, a[t], t)
      <4>1. PICK t \in DOMAIN a \ (DOMAIN g \cup U) :
                ~a[t].heartBeat /\ x = CreateRequest(NewMessage, a[t], t)
        BY <1>1
      <4>2. t # s
        BY <1>2, <4>1
      <4>3. t \in DOMAIN a \ (DOMAIN k \cup U)
        BY <2>1, <4>2
      <4> QED BY <4>1, <4>3
    <3>3. \A t \in E : a[t].heartBeat \/ t \in DOMAIN k
      BY <1>1, <2>1
    <3> HIDE DEF E
    <3> QED BY <1>1, <2>2, <3>1, <3>2, <3>3 DEF Settled
  <2>4. AllSound(ms) /\ DOMAIN ms = D /\ \A t \in D : ms[t] = Answer(a[t], t, g[t])
    BY FlowsSound
  <2>5. m = HandleRequest(req, NewMessage, r) /\ Sound(m)
    <3>1. Sound(m)
      BY <1>3, AnswerIs DEF IsAnswer
    <3> QED BY <1>2, <3>1 DEF Answer
  <2> HIDE DEF ms, m
  <2>6. Answering(a, k, E) = With(ms, s, m)
    <3>1. ASSUME NEW t \in E
          PROVE  Answer(a[t], t, k[t]) = IF t = s THEN m ELSE ms[t]
      <4>1. CASE t = s
        BY <2>1, <4>1 DEF m
      <4>2. CASE t # s
        <5>1. t \in D /\ (IF t = s THEN m ELSE ms[t]) = Answer(a[t], t, g[t])
          BY <2>4, <4>2
        <5>2. CASE t \in DOMAIN g
          BY <2>1, <4>2, <5>1, <5>2
        <5>3. CASE t \notin DOMAIN g
          <6>1. a[t].heartBeat
            BY <1>1, <5>1, <5>3
          <6>2. Answer(a[t], t, k[t]) = Answer(a[t], t, g[t])
            BY <6>1 DEF Answer
          <6> QED BY <5>1, <6>2
        <5> QED BY <5>2, <5>3
      <4> QED BY <4>1, <4>2
    <3>2. E = DOMAIN ms \cup {s}
      BY <2>4
    <3> HIDE DEF E
    <3> QED BY <3>1, <3>2 DEF Answering, With
  <2>7. d \o e \in Streams(Answering(a, k, E))
    <3>1. e \in Encode(m) /\ d \in Streams(ms) /\ s \notin DOMAIN ms
      BY <1>1, <1>4, <2>4, <2>5 DEF ms
    <3>2. d \o e \in Streams(With(ms, s, m))
      BY <2>4, <2>5, <3>1, StreamAppend
    <3> QED BY <2>6, <3>2
  <2>8. Flows(a, k, R \ {req}, u, d \o e, U, E)
    BY <1>1, <2>3, <2>7 DEF Flows
  <2> QED BY <2>8 DEF k
<1>6. Handled(a, g, R, u, d, U, D, req, s)
  BY <1>2, <1>3, <1>5 DEF Handled
<1> QED BY <1>6

\* A request that is dropped.
LEMMA FlowsDrop ==
    ASSUME NEW a, NEW g, NEW R, NEW u, NEW d, NEW U, NEW D, Flows(a, g, R, u, d, U, D), NEW req
    PROVE  Flows(a, g, R \ {req}, u, d, U, D)
BY DEF Flows, Settled

\* The client reads.
LEMMA FlowsRead ==
    ASSUME NEW a, NEW g, NEW R, NEW u, NEW d, NEW U, NEW D, Flows(a, g, R, u, d, U, D),
           d # <<>>
    PROVE  /\ ~DecodeFails(d) /\ Length(d) <= Len(d)
           /\ \E s \in D : Answered(a, g, R, u, d, U, D, s)
<1> DEFINE ms == Answering(a, g, D)
           rest == SubSeq(d, Length(d) + 1, Len(d))
<1>1. /\ AskedSoFar(a) /\ U \in SUBSET DOMAIN a /\ D \in SUBSET (DOMAIN a \ U)
      /\ g \in [DOMAIN g -> Replies] /\ DOMAIN g \subseteq DOMAIN a \ U
      /\ \A x \in R : \E s \in DOMAIN a \ (DOMAIN g \cup U) :
                          ~a[s].heartBeat /\ x = CreateRequest(NewMessage, a[s], s)
      /\ \A s \in D : a[s].heartBeat \/ s \in DOMAIN g
      /\ u \in Streams(Asking(a, U)) /\ d \in Streams(ms)
  BY DEF Flows, Settled
<1>2. /\ AllSound(ms) /\ DOMAIN ms = D
      /\ \A s \in D : /\ ms[s] = Answer(a[s], s, g[s])
                      /\ IsAnswer(ms[s], a[s], s, g[s])
  BY FlowsSound
<1> HIDE DEF ms
<1>3. /\ ~DecodeFails(d) /\ Length(d) <= Len(d)
      /\ \E s \in DOMAIN ms :
             /\ \A m0 : Decode(m0, d) = Holding(m0, ms[s])
             /\ SubSeq(d, Length(d) + 1, Len(d)) \in Streams(Without(ms, s))
  BY <1>1, <1>2, StreamRead
<1>4. PICK s \in D : /\ \A m0 : Decode(m0, d) = Holding(m0, ms[s])
                     /\ rest \in Streams(Without(ms, s))
  BY <1>2, <1>3
<1> HIDE DEF rest
<1> DEFINE E == D \ {s}
<1>5. rest \in Streams(Answering(a, g, E))
  BY <1>4, AnsweringWithout DEF ms
<1>6. Settled(a, g, R, U, E)
  <2>1. E \in SUBSET (DOMAIN a \ U) /\ \A t \in E : a[t].heartBeat \/ t \in DOMAIN g
    BY <1>1
  <2> HIDE DEF E
  <2> QED BY <1>1, <2>1 DEF Settled
<1>7. Flows(a, g, R, u, rest, U, E)
  BY <1>1, <1>5, <1>6 DEF Flows
<1>8. /\ s \in DOMAIN a /\ (a[s].heartBeat \/ s \in DOMAIN g)
      /\ IsAnswer(Answer(a[s], s, g[s]), a[s], s, g[s])
      /\ \A m0 : Decode(m0, d) = Holding(m0, Answer(a[s], s, g[s]))
  BY <1>1, <1>2, <1>4
<1>9. Answered(a, g, R, u, d, U, D, s)
  BY <1>7, <1>8 DEF rest, Answered
<1> QED BY <1>3, <1>9

-----------------------------------------------------------------------------
(* The messages of an HTTP request.                                        *)

\* The request made of an HTTP request, ...
LEMMA PostIs ==
    ASSUME NEW p \in Posts
    PROVE  LET m == HTTPRequest2EmRpcRequest(NewMessage, p) IN
           /\ m.metadata = IF p.auth = <<>> THEN p.metadata
                           ELSE Over(Pair(AuthKey, p.auth), p.metadata)
           /\ m.header \in Headers /\ m.header[1] = MagicNumber
           /\ MessageType(m.header) = Request /\ CompressType(m.header) = None
           /\ IsOneway(m.header) = p.oneway
<1> DEFINE path == LowerCase(p.servicePath)
           method == LowerCase(p.serviceMethod)
           h1 == SetMessageType(NewHeader, Request)
           h2 == IF p.heartBeat THEN SetHeartbeat(h1, TRUE) ELSE h1
           h3 == IF p.oneway THEN SetOneway(h2, TRUE) ELSE h2
           h == SetSerializeType(SetSeq(h3, p.messageID), p.serializeType)
           meta == IF p.metadata # NoMetadata THEN p.metadata ELSE NewMessage.metadata
           md == IF p.auth # <<>> THEN Over(Pair(AuthKey, p.auth), meta) ELSE meta
           m == HTTPRequest2EmRpcRequest(NewMessage, p)
<1>1. NewMessage \in Fields(NewHeader, <<>>, <<>>, NoMetadata, <<>>)
  BY DEF NewMessage, Fields
<1>2. NewMessage.header = NewHeader /\ NewMessage.metadata = NoMetadata
  BY DEF NewMessage
<1>3. m = [NewMessage EXCEPT !.servicePath = path, !.serviceMethod = method,
                 !.header = h, !.metadata = md, !.payload = p.body]
  BY <1>2, Zenon DEF HTTPRequest2EmRpcRequest
<1>4. meta = p.metadata
  BY <1>2
<1> HIDE DEF meta
<1>5. md = IF p.auth = <<>> THEN p.metadata ELSE Over(Pair(AuthKey, p.auth), p.metadata)
  <2>1. CASE p.auth = <<>>
    BY <1>4, <2>1
  <2>2. CASE p.auth # <<>>
    BY <1>4, <2>2, Zenon
  <2> QED BY <2>1, <2>2
<1>6. m.metadata = md
  <2> HIDE DEF path, method, md, h, m
  <2>1. m \in Fields(h, path, method, md, p.body)
    BY <1>1, <1>3 DEF Fields
  <2> QED BY <2>1 DEF Fields
<1>7. /\ m.header \in Headers /\ m.header[1] = MagicNumber
      /\ MessageType(m.header) = Request /\ CompressType(m.header) = None
      /\ IsOneway(m.header) = p.oneway
  BY PostHeader
<1> HIDE DEF m, md
<1> QED BY <1>5, <1>6, <1>7 DEF m

\* ... what the answer is made of, and that both are blank when put back.
LEMMA AnswerPostIs ==
    ASSUME NEW req, req.header \in Headers, req.header[1] = MagicNumber, NEW r
    PROVE  LET res == HandleRequest(req, NewMessage, r) IN
           /\ res.metadata = r.metadata
           /\ res.payload = IF IsOneway(req.header) THEN <<>> ELSE r.payload
           /\ res.header = SetMessageType(SetCompressType(req.header, None), Response)
           /\ res.header \in Headers /\ res.header[1] = MagicNumber
<1> DEFINE res == HandleRequest(req, NewMessage, r)
           h0 == SetCompressType(req.header, None)
           h == SetMessageType(h0, Response)
           md == IF r.metadata # NoMetadata THEN r.metadata ELSE NoMetadata
           pl == IF IsOneway(req.header) THEN <<>> ELSE r.payload
           cl == Clone(req, NewMessage)
<1>1. res = [cl EXCEPT !.header = SetMessageType(@, Response),
                       !.metadata = IF r.metadata # NoMetadata THEN r.metadata ELSE @,
                       !.payload = IF IsOneway(req.header) THEN @ ELSE r.payload]
  BY Zenon DEF HandleRequest
<1>2. cl = [NewMessage EXCEPT !.header = h0, !.servicePath = req.servicePath,
                              !.serviceMethod = req.serviceMethod]
  BY Zenon DEF Clone
<1>3. h0 \in Headers /\ h0[1] = MagicNumber
  <2>1. None \in Nat
    BY DEF None
  <2>2. h0 \in Headers /\ SameBut("CompressType", h0, req.header)
    BY <2>1, CompressApart
  <2> HIDE DEF h0
  <2> QED BY <2>2 DEF SameBut
<1> HIDE DEF h0
<1>4. h \in Headers /\ h[1] = MagicNumber
  <2>1. Response \in {Request, Response}
    OBVIOUS
  <2>2. h \in Headers /\ SameBut("MessageType", h, h0)
    BY <1>3, <2>1, TypeApart
  <2> HIDE DEF h
  <2> QED BY <1>3, <2>2 DEF SameBut
<1>5. NewMessage \in Fields(NewHeader, <<>>, <<>>, NoMetadata, <<>>)
  BY DEF NewMessage, Fields
<1> HIDE DEF cl, res
<1>6. cl \in Fields(h0, req.servicePath, req.serviceMethod, NoMetadata, <<>>)
  BY <1>2, <1>5 DEF Fields
<1>7. cl.header = h0 /\ cl.metadata = NoMetadata /\ cl.payload = <<>>
  BY <1>6 DEF Fields
<1>8. res = [cl EXCEPT !.header = h, !.metadata = md, !.payload = pl]
  BY <1>1, <1>7, Zenon
<1>9. md = r.metadata
  OBVIOUS
<1> HIDE DEF h, md, pl
<1>10. res \in Fields(h, req.servicePath, req.serviceMethod, md, pl)
  BY <1>6, <1>8 DEF Fields
<1>11. res.header = h /\ res.metadata = md /\ res.payload = pl
  BY <1>10 DEF Fields
<1> QED BY <1>4, <1>9, <1>11 DEF res, h, h0, pl

\* The error response of the gateway.
LEMMA FailPostIs ==
    ASSUME NEW req, req.header \in Headers, req.header[1] = MagicNumber
    PROVE  LET res == [Clone(req, NewMessage) EXCEPT
                          !.header = SetMessageStatusType(SetMessageType(@, Response), Error)]
           IN  res.header[1] = MagicNumber
<1> DEFINE h0 == SetCompressType(req.header, None)
           h1 == SetMessageType(h0, Response)
           h == SetMessageStatusType(h1, Error)
           cl == Clone(req, NewMessage)
           res == [cl EXCEPT !.header = SetMessageStatusType(SetMessageType(@, Response), Error)]
<1>1. cl = [NewMessage EXCEPT !.header = h0, !.servicePath = req.servicePath,
                              !.serviceMethod = req.serviceMethod]
  BY Zenon DEF Clone
<1>2. h0 \in Headers /\ h0[1] = MagicNumber
  <2>1. None \in Nat
    BY DEF None
  <2>2. h0 \in Headers /\ SameBut("CompressType", h0, req.header)
    BY <2>1, CompressApart
  <2> HIDE DEF h0
  <2> QED BY <2>2 DEF SameBut
<1> HIDE DEF h0
<1>3. h1 \in Headers /\ h1[1] = MagicNumber
  <2>1. Response \in {Request, Response}
    OBVIOUS
  <2>2. h1 \in Headers /\ SameBut("MessageType", h1, h0)
    BY <1>2, <2>1, TypeApart
  <2> HIDE DEF h1
  <2> QED BY <1>2, <2>2 DEF SameBut
<1> HIDE DEF h1
<1>4. h[1] = MagicNumber
  <2>1. Error \in Nat
    BY DEF Error
  <2>2. SameBut("MessageStatusType", h, h1)
    BY <1>3, <2>1, StatusApart
  <2> HIDE DEF h
  <2> QED BY <1>3, <2>2 DEF SameBut
<1> HIDE DEF h
<1>5. NewMessage \in Fields(NewHeader, <<>>, <<>>, NoMetadata, <<>>)
  BY DEF NewMessage, Fields
<1> HIDE DEF cl
<1>6. cl \in Fields(h0, req.servicePath, req.serviceMethod, NoMetadata, <<>>)
  BY <1>1, <1>5 DEF Fields
<1>7. cl.header = h0
  BY <1>6 DEF Fields
<1>8. res = [cl EXCEPT !.header = h]
  BY <1>7, Zenon DEF h, h1
<1> HIDE DEF res
<1>9. res \in Fields(h, req.servicePath, req.serviceMethod, NoMetadata, <<>>)
  BY <1>6, <1>8 DEF Fields
<1>10. res.header = h
  BY <1>9 DEF Fields
<1> QED BY <1>4, <1>10 DEF res, cl

-----------------------------------------------------------------------------
(* The invariant.                                                          *)

\* OnTheWay in terms of Flows: of a state, ...
LEMMA FlowsThere ==
    TypeOK /\ NothingLeft /\ OnTheWay => \E U, D : Flows(asked, given, reqs, up, down, U, D)
<1> SUFFICES ASSUME TypeOK, NothingLeft, OnTheWay
             PROVE  \E U, D : Flows(asked, given, reqs, up, down, U, D)
  OBVIOUS
<1>1. PICK U \in SUBSET DOMAIN asked : \E D \in SUBSET (DOMAIN asked \ U) :
        /\ \A s \in U : s \notin DOMAIN given \cup {Seq8(m.header) : m \in reqs}
        /\ \A s \in D : asked[s].heartBeat \/ s \in DOMAIN given
        /\ up \in Streams([s \in U |-> Req(s)])
        /\ down \in Streams([s \in D |-> Res(s)])
  BY DEF OnTheWay
<1>2. PICK D \in SUBSET (DOMAIN asked \ U) :
        /\ \A s \in U : s \notin DOMAIN given \cup {Seq8(m.header) : m \in reqs}
        /\ \A s \in D : asked[s].heartBeat \/ s \in DOMAIN given
        /\ up \in Streams([s \in U |-> Req(s)])
        /\ down \in Streams([s \in D |-> Res(s)])
  BY <1>1
<1>3. /\ asked \in Seq(Asks) /\ Len(asked) + Len(posted) <= MaxCalls /\ Len(posted) \in Nat
      /\ given \in [DOMAIN given -> Replies] /\ DOMAIN given \subseteq DOMAIN asked
  BY LenProperties DEF TypeOK
<1>4. AskedSoFar(asked)
  <2>1. Len(asked) \in Nat /\ MaxCalls \in Nat
    BY <1>3, LenProperties, ExchangeAssumption
  <2> QED BY <1>3, <2>1 DEF AskedSoFar
<1>5. ASSUME NEW m \in reqs
      PROVE  \E s \in DOMAIN asked \ (DOMAIN given \cup U) :
                 ~asked[s].heartBeat /\ m = CreateRequest(NewMessage, asked[s], s)
  <2>1. PICK s \in DOMAIN asked \ DOMAIN given : ~asked[s].heartBeat /\ m = Req(s)
    BY DEF NothingLeft
  <2>2. m = CreateRequest(NewMessage, asked[s], s)
    BY <2>1 DEF Req
  <2>3. asked[s] \in Asks /\ s \in Calls
    BY <1>4, AskedType
  <2>4. Seq8(m.header) = s
    BY <2>2, <2>3, RequestIs DEF IsRequest
  <2>5. s \notin U
    BY <1>2, <2>4
  <2> QED BY <2>1, <2>2, <2>5
<1>6. Settled(asked, given, reqs, U, D)
  BY <1>2, <1>3, <1>4, <1>5 DEF Settled
<1>7. up \in Streams(Asking(asked, U)) /\ down \in Streams(Answering(asked, given, D))
  <2>1. [s \in U |-> Req(s)] = Asking(asked, U)
    BY DEF Asking, Req
  <2>2. [s \in D |-> Res(s)] = Answering(asked, given, D)
    BY DEF Answering, Answer, Res, Req
  <2> QED BY <1>2, <2>1, <2>2
<1>8. Flows(asked, given, reqs, up, down, U, D)
  BY <1>6, <1>7 DEF Flows
<1> QED BY <1>8

\* ... and of the next one.
LEMMA FlowsThen ==
    ASSUME NEW U, NEW D, Flows(asked', given', reqs', up', down', U, D)
    PROVE  /\ asked' \in Seq(Asks)
           /\ given' \in [DOMAIN given' -> Replies] /\ DOMAIN given' \subseteq DOMAIN asked'
           /\ \A m \in reqs' : \E s \in DOMAIN asked' \ DOMAIN given' :
                                   ~asked'[s].heartBeat /\ m = Req(s)'
           /\ OnTheWay'
<1>1. /\ AskedSoFar(asked') /\ U \in SUBSET DOMAIN asked' /\ D \in SUBSET (DOMAIN asked' \ U)
      /\ given' \in [DOMAIN given' -> Replies] /\ DOMAIN given' \subseteq DOMAIN asked' \ U
      /\ \A m \in reqs' : \E s \in DOMAIN asked' \ (DOMAIN given' \cup U) :
                          ~asked'[s].heartBeat /\ m = CreateRequest(NewMessage, asked'[s], s)
      /\ \A s \in D : asked'[s].heartBeat \/ s \in DOMAIN given'
      /\ up' \in Streams(Asking(asked', U)) /\ down' \in Streams(Answering(asked', given', D))
  BY DEF Flows, Settled
<1>2. ASSUME NEW m \in reqs'
      PROVE  /\ \E s \in DOMAIN asked' \ DOMAIN given' : ~asked'[s].heartBeat /\ m = Req(s)'
             /\ Seq8(m.header) \notin U
  <2>1. PICK s \in DOMAIN asked' \ (DOMAIN given' \cup U) :
            ~asked'[s].heartBeat /\ m = CreateRequest(NewMessage, asked'[s], s)
    BY <1>1
  <2>2. asked'[s] \in Asks /\ s \in Calls
    BY <1>1, AskedType
  <2>3. Seq8(m.header) = s
    BY <2>1, <2>2, RequestIs DEF IsRequest
  <2>4. m = Req(s)'
    BY <2>1 DEF Req
  <2> QED BY <2>1, <2>3, <2>4
<1>3. /\ \A s \in U : s \notin (DOMAIN given \cup {Seq8(m.header) : m \in reqs})'
      /\ \A s \in D : (asked[s].heartBeat \/ s \in DOMAIN given)'
  BY <1>1, <1>2
<1>4. /\ up' \in Streams([s \in U |-> Req(s)])'
      /\ down' \in Streams([s \in D |-> Res(s)])'
  <2>1. [s \in U |-> Req(s)'] = Asking(asked', U)
    BY DEF Asking, Req
  <2>2. [s \in D |-> Res(s)'] = Answering(asked', given', D)
    BY DEF Answering, Answer, Res, Req
  <2> QED BY <1>1, <2>1, <2>2
<1>5. OnTheWay'
  <2> DEFINE On(V, E) ==
             /\ \A s \in V : s \notin DOMAIN given \cup {Seq8(m.header) : m \in reqs}
             /\ \A s \in E : asked[s].heartBeat \/ s \in DOMAIN given
             /\ up \in Streams([s \in V |-> Req(s)])
             /\ down \in Streams([s \in E |-> Res(s)])
  <2>1. On(U, D)'
    BY <1>3, <1>4
  <2>2. OnTheWay' <=> \E V \in SUBSET DOMAIN asked' : \E E \in SUBSET (DOMAIN asked' \ V) : On(V, E)'
    BY DEF OnTheWay
  <2> HIDE DEF On
  <2> QED BY <1>1, <2>1, <2>2
<1>6. asked' \in Seq(Asks)
  BY <1>1 DEF AskedSoFar
<1> QED BY <1>1, <1>2, <1>5, <1>6

\* What posted is a sequence of.
PostRecords ==
    [post : Posts, req : {HTTPRequest2EmRpcRequest(NewMessage, p) : p \in Posts},
     code : {Open, Aborted, 200, 400, 500}, given : Replies \cup {NoReply},
     reply : {[metadata |-> r.metadata, payload |-> b] :
                 r \in Replies \cup {NoReply},
                 b \in {q.payload : q \in Replies} \cup {<<>>}}]

\* What is left of IInv beside Flows: of HTTP requests and Messages.
Posted == /\ posted \in Seq(PostRecords)
          /\ \A i \in DOMAIN posted :
                 posted[i].req = HTTPRequest2EmRpcRequest(NewMessage, posted[i].post)
Blank == pool \subseteq {NewMessage} /\ IsMessage(resp)

\* What IInv says.
LEMMA IInvParts ==
    ASSUME IInv
    PROVE  /\ \E U, D : Flows(asked, given, reqs, up, down, U, D)
           /\ Len(asked) \in Nat /\ Len(posted) \in Nat /\ Len(asked) + Len(posted) <= MaxCalls
           /\ Posted /\ Blank /\ Remains /\ ResponsesArrive /\ PostsAnswered
<1>1. TypeOK /\ NothingLeft /\ Remains /\ OnTheWay /\ ResponsesArrive /\ PostsAnswered
  BY DEF IInv
<1>2. Posted /\ Blank /\ asked \in Seq(Asks) /\ Len(asked) + Len(posted) <= MaxCalls
  BY <1>1 DEF TypeOK, NothingLeft, Posted, Blank, PostRecords
<1>3. Len(asked) \in Nat /\ Len(posted) \in Nat
  BY <1>2, LenProperties DEF Posted
<1> QED BY <1>1, <1>2, <1>3, FlowsThere

\* What is to be shown of the next state.
LEMMA IInvAgain ==
    ASSUME \E U, D : Flows(asked', given', reqs', up', down', U, D),
           Len(asked') + Len(posted') <= MaxCalls,
           Posted', Blank', Remains', ResponsesArrive', PostsAnswered'
    PROVE  IInv'
<1>1. /\ asked' \in Seq(Asks)
      /\ given' \in [DOMAIN given' -> Replies] /\ DOMAIN given' \subseteq DOMAIN asked'
      /\ \A m \in reqs' : \E s \in DOMAIN asked' \ DOMAIN given' :
                              ~asked'[s].heartBeat /\ m = Req(s)'
      /\ OnTheWay'
  BY FlowsThen
<1>2. TypeOK'
  BY <1>1 DEF TypeOK, Posted, Blank, PostRecords
<1>3. NothingLeft'
  BY <1>1 DEF NothingLeft, Posted, Blank
<1> QED BY <1>1, <1>2, <1>3 DEF IInv

\* What input has read stands as long as the calls and the replies do.
LEMMA ReadSame ==
    ASSUME ResponsesArrive, Remains, got' = got, resp' = resp,
           \A s \in DOMAIN asked : s \in DOMAIN asked' /\ asked'[s] = asked[s],
           \A s \in DOMAIN given : s \in DOMAIN given' /\ given'[s] = given[s]
    PROVE  ResponsesArrive' /\ Remains'
<1>1. \A s \in DOMAIN got : AnswerMetadata(s)' = AnswerMetadata(s)
  BY DEF ResponsesArrive, AnswerMetadata
<1> QED BY <1>1 DEF ResponsesArrive, Remains

\* A Message taken from the pool is as good as a new one, ...
LEMMA PooledIsNew ==
    ASSUME Blank, NEW m \in GetPooledMsg
    PROVE  m = NewMessage
BY DEF Blank, GetPooledMsg

\* ... and remains so.
LEMMA FreeIsNew ==
    ASSUME Blank, NEW S, \A m \in S : m.header[1] = MagicNumber, FreeMsgs(S)
    PROVE  pool' \subseteq {NewMessage}
<1>1. \A m \in S : Reset(m) = NewMessage
  BY ResetNew
<1> QED BY <1>1 DEF Blank, FreeMsgs

\* The HTTP requests and input see nothing of another's action.
LEMMA PostedSame ==
    ASSUME posted' = posted
    PROVE  /\ Posted => Posted'
           /\ PostsAnswered => PostsAnswered'
BY DEF Posted, PostsAnswered

-----------------------------------------------------------------------------
(* Every action preserves IInv.                                            *)

\* Nothing is on its way in the beginning.
LEMMA InitIInv == Init => IInv
<1> SUFFICES ASSUME Init PROVE IInv
  OBVIOUS
<1>1. /\ asked = <<>> /\ posted = <<>> /\ up = <<>> /\ down = <<>> /\ pool = {} /\ reqs = {}
      /\ given = <<>> /\ resp = NewMessage /\ got = <<>>
  BY DEF Init
<1>2. DOMAIN <<>> = {} /\ <<>> \in Seq(Asks) /\ Len(<<>>) = 0 /\ <<>> \in [{} -> Replies]
  OBVIOUS
<1>3. MaxCalls \in Nat
  BY ExchangeAssumption
<1>4. IsMessage(NewMessage)
  <2>1. NewHeader \in [1..12 -> Byte]
    BY NewHeaderIs DEF Headers
  <2>2. <<>> \in Texts
    BY EmptySeq DEF Texts
  <2>3. NewMessage \in Fields(NewHeader, <<>>, <<>>, NoMetadata, <<>>)
    BY DEF NewMessage, Fields
  <2> QED BY <2>1, <2>2, <2>3, NoMetadataIs DEF IsMessage, Fields
<1>5. TypeOK
  <2>1. posted \in Seq(PostRecords)
    BY <1>1, EmptySeq
  <2> HIDE DEF Init
  <2>2. Len(asked) + Len(posted) <= MaxCalls
    BY <1>1, <1>2, <1>3
  <2> QED BY <1>1, <1>2, <1>4, <2>1, <2>2 DEF TypeOK, PostRecords
<1>6. NothingLeft
  BY <1>1, <1>2 DEF NothingLeft
<1>7. OnTheWay
  <2>1. {} \in SUBSET DOMAIN asked /\ {} \in SUBSET (DOMAIN asked \ {})
    OBVIOUS
  <2>2. <<>> \in Streams([s \in {} |-> Req(s)])
    <3>1. DOMAIN [s \in {} |-> Req(s)] = {}
      OBVIOUS
    <3> QED BY <3>1, StreamEmpty
  <2>3. <<>> \in Streams([s \in {} |-> Res(s)])
    <3>1. DOMAIN [s \in {} |-> Res(s)] = {}
      OBVIOUS
    <3> QED BY <3>1, StreamEmpty
  <2> DEFINE On(V, E) ==
             /\ \A s \in V : s \notin DOMAIN given \cup {Seq8(m.header) : m \in reqs}
             /\ \A s \in E : asked[s].heartBeat \/ s \in DOMAIN given
             /\ up \in Streams([s \in V |-> Req(s)])
             /\ down \in Streams([s \in E |-> Res(s)])
  <2>4. On({}, {})
    BY <1>1, <2>2, <2>3
  <2>5. OnTheWay <=> \E V \in SUBSET DOMAIN asked : \E E \in SUBSET (DOMAIN asked \ V) : On(V, E)
    BY DEF OnTheWay
  <2> HIDE DEF On
  <2> QED BY <2>1, <2>4, <2>5
<1>8. ResponsesArrive /\ Remains /\ PostsAnswered
  BY <1>1, <1>2 DEF ResponsesArrive, Remains, NewMessage, PostsAnswered
<1> QED BY <1>5, <1>6, <1>7, <1>8 DEF IInv

\* createRequest and the writing of the request.
LEMMA SendIInv ==
    ASSUME IInv, NEW c \in Asks, Send(c)
    PROVE  IInv'
<1>1. PICK U, D : Flows(asked, given, reqs, up, down, U, D)
  BY IInvParts
<1>2. /\ Len(asked) \in Nat /\ Len(posted) \in Nat /\ Len(asked) + Len(posted) < MaxCalls
      /\ Posted /\ Blank /\ Remains /\ ResponsesArrive /\ PostsAnswered
  BY IInvParts DEF Send, More
<1>3. /\ asked' = Append(asked, c) /\ posted' = posted /\ down' = down /\ pool' = pool
      /\ reqs' = reqs /\ given' = given /\ resp' = resp /\ got' = got
  BY DEF Send
<1>4. PICK e \in Encode(CreateRequest(NewMessage, c, Len(asked) + 1)) : up' = up \o e
  BY <1>2, PooledIsNew DEF Send
<1>5. MaxCalls \in Nat /\ Len(asked) + 1 <= MaxCalls
  BY <1>2, ExchangeAssumption
<1>6. Flows(asked', given', reqs', up', down', U \cup {Len(asked) + 1}, D)
  BY <1>1, <1>3, <1>4, <1>5, FlowsSend
<1>7. /\ Len(asked') + Len(posted') <= MaxCalls
      /\ \A s \in DOMAIN asked : s \in DOMAIN asked' /\ asked'[s] = asked[s]
  <2>1. asked \in Seq(Asks)
    BY <1>1 DEF Flows, Settled, AskedSoFar
  <2>2. /\ asked' \in Seq(Asks) /\ Len(asked') = Len(asked) + 1
        /\ \A s \in 1..Len(asked) : asked'[s] = asked[s]
    BY <1>3, <2>1, AppendProperties
  <2>3. DOMAIN asked = 1..Len(asked) /\ DOMAIN asked' = 1..Len(asked')
    BY <2>1, <2>2, LenProperties
  <2> QED BY <1>2, <1>3, <1>5, <2>2, <2>3
<1>8. ResponsesArrive' /\ Remains'
  BY <1>2, <1>3, <1>7, ReadSame
<1>9. Posted' /\ PostsAnswered' /\ Blank'
  BY <1>2, <1>3, PostedSame DEF Blank
<1> QED BY <1>6, <1>7, <1>8, <1>9, IInvAgain

\* serveConn.
LEMMA ReceiveIInv ==
    ASSUME IInv, Receive
    PROVE  IInv'
<1>1. PICK U, D : Flows(asked, given, reqs, up, down, U, D)
  BY IInvParts
<1>2. /\ Len(asked) + Len(posted) <= MaxCalls
      /\ Posted /\ Blank /\ Remains /\ ResponsesArrive /\ PostsAnswered
  BY IInvParts
<1> DEFINE rest == SubSeq(up, Length(up) + 1, Len(up))
<1>3. /\ up # <<>> /\ up' = rest
      /\ asked' = asked /\ posted' = posted /\ given' = given /\ resp' = resp /\ got' = got
  BY DEF Receive
<1> HIDE DEF rest
<1>4. PICK s \in U : Received(asked, given, reqs, up, down, U, D, s)
  BY <1>1, <1>3, FlowsReceive
<1>a. /\ s \in DOMAIN asked \ D /\ s \in Calls /\ asked[s] \in Asks
      /\ Decode(NewMessage, up) = CreateRequest(NewMessage, asked[s], s)
      /\ Flows(asked, given, reqs, rest, down, U \ {s}, D)
      /\ ~asked[s].heartBeat =>
             Flows(asked, given, reqs \cup {CreateRequest(NewMessage, asked[s], s)},
                   rest, down, U \ {s}, D)
  BY <1>4 DEF Received, rest
<1> DEFINE req == CreateRequest(NewMessage, asked[s], s)
           res == [req EXCEPT !.header = SetMessageType(@, Response)]
<1>5. IF IsHeartbeat(req.header)
      THEN (\E b \in Encode(res) : down' = down \o b) /\ FreeMsgs({res}) /\ reqs' = reqs
      ELSE reqs' = reqs \cup {req} /\ down' = down /\ pool' = pool
  <2> DEFINE read == Decode(NewMessage, up)
  <2>1. IF IsHeartbeat(read.header)
        THEN /\ \E b \in Encode([read EXCEPT !.header = SetMessageType(@, Response)]) :
                    down' = down \o b
             /\ FreeMsgs({[read EXCEPT !.header = SetMessageType(@, Response)]})
             /\ reqs' = reqs
        ELSE reqs' = reqs \cup {read} /\ down' = down /\ pool' = pool
    BY <1>2, PooledIsNew DEF Receive
  <2>2. read = req
    BY <1>a
  <2> HIDE DEF read, req
  <2> QED BY <2>1, <2>2
<1>6. IsHeartbeat(req.header) = asked[s].heartBeat
  BY <1>a, RequestIs DEF IsRequest, RequestHeader
<1>7. asked[s].heartBeat \in BOOLEAN
  BY <1>a, ExchangeAssumption
<1>8. (\E V, E : Flows(asked', given', reqs', up', down', V, E)) /\ pool' \subseteq {NewMessage}
  <2>1. CASE asked[s].heartBeat
    <3>1. PICK b \in Encode(res) : down' = down \o b
      BY <1>5, <1>6, <2>1
    <3>2. res = Answer(asked[s], s, given[s])
      BY <2>1 DEF Answer
    <3>3. res.header[1] = MagicNumber
      <4>1. IsAnswer(res, asked[s], s, given[s])
        BY <1>a, <2>1, <3>2, AnswerIs
      <4> HIDE DEF res
      <4> QED BY <4>1 DEF IsAnswer, ResponseHeader
    <3>4. FreeMsgs({res}) /\ reqs' = reqs
      BY <1>5, <1>6, <2>1
    <3> HIDE DEF res
    <3>5. s \notin U \ {s} /\ s \notin D /\ s \in DOMAIN asked
      BY <1>a
    <3>6. Flows(asked, given, reqs, rest, down \o b, U \ {s}, D \cup {s})
      BY <1>a, <2>1, <3>1, <3>2, <3>5, FlowsHeartbeat
    <3>7. Flows(asked', given', reqs', up', down', U \ {s}, D \cup {s})
      BY <1>3, <3>1, <3>4, <3>6
    <3>8. pool' \subseteq {NewMessage}
      BY <1>2, <3>3, <3>4, FreeIsNew
    <3> QED BY <3>7, <3>8
  <2>2. CASE ~asked[s].heartBeat
    <3>1. reqs' = reqs \cup {req} /\ down' = down /\ pool' = pool
      BY <1>5, <1>6, <2>2
    <3>2. Flows(asked', given', reqs', up', down', U \ {s}, D)
      BY <1>3, <1>a, <2>2, <3>1
    <3> QED BY <1>2, <3>1, <3>2 DEF Blank
  <2> QED BY <1>7, <2>1, <2>2
<1>9. ResponsesArrive' /\ Remains'
  BY <1>2, <1>3, ReadSame
<1>10. Posted' /\ PostsAnswered' /\ Blank'
  BY <1>2, <1>3, <1>8, PostedSame DEF Blank
<1>11. Len(asked') + Len(posted') <= MaxCalls
  BY <1>2, <1>3
<1> QED BY <1>8, <1>9, <1>10, <1>11, IInvAgain

\* handleTrueRequest.
LEMMA HandleIInv ==
    ASSUME IInv, NEW req \in reqs, Handle(req)
    PROVE  IInv'
<1>1. PICK U, D : Flows(asked, given, reqs, up, down, U, D)
  BY IInvParts
<1>2. /\ Len(asked) + Len(posted) <= MaxCalls
      /\ Posted /\ Blank /\ Remains /\ ResponsesArrive /\ PostsAnswered
  BY IInvParts
<1>3. /\ asked' = asked /\ posted' = posted /\ up' = up /\ resp' = resp /\ got' = got
      /\ reqs' = reqs \ {req}
  BY DEF Handle
<1>4. PICK s : Handled(asked, given, reqs, up, down, U, D, req, s)
  BY <1>1, FlowsHandle
<1>5. /\ s \in DOMAIN asked \ DOMAIN given /\ s \in Calls /\ asked[s] \in Asks
      /\ ~asked[s].heartBeat /\ IsRequest(req, asked[s], s)
      /\ req = CreateRequest(NewMessage, asked[s], s)
  BY <1>4 DEF Handled
<1>6. PICK r \in Replies :
          LET res == HandleRequest(req, NewMessage, r)
          IN  /\ \E b \in Encode(res) : down' = down \o b
              /\ given' = Over(Pair(Seq8(req.header), r), given)
              /\ FreeMsgs({req, res})
  <2>1. PICK c \in GetPooledMsg, r \in Replies :
            LET res == HandleRequest(req, c, r)
            IN  /\ \E b \in Encode(res) : down' = down \o b
                /\ given' = Over(Pair(Seq8(req.header), r), given)
                /\ FreeMsgs({req, res})
    BY DEF Handle
  <2>2. c = NewMessage
    BY <1>2, PooledIsNew
  <2> QED BY <2>1, <2>2
<1> DEFINE res == HandleRequest(req, NewMessage, r)
<1>7. (\E b \in Encode(res) : down' = down \o b) /\ FreeMsgs({req, res})
  BY <1>6
<1>8. given' = Over(Pair(s, r), given)
  BY <1>5, <1>6 DEF IsRequest
<1>9. req.header[1] = MagicNumber /\ res.header[1] = MagicNumber
  <2>1. req.header[1] = MagicNumber
    BY <1>5 DEF IsRequest, RequestHeader
  <2>2. IsAnswer(Answer(asked[s], s, r), asked[s], s, r)
    BY <1>5, AnswerIs
  <2>3. Answer(asked[s], s, r) = res
    BY <1>5 DEF Answer
  <2> HIDE DEF res
  <2>4. res.header[1] = MagicNumber
    BY <2>2, <2>3 DEF IsAnswer, ResponseHeader
  <2> QED BY <2>1, <2>4
<1>10. PICK b \in Encode(res) : down' = down \o b
  BY <1>7
<1>11. Flows(asked', given', reqs', up', down', U, D \cup {s})
  <2>1. Flows(asked, Over(Pair(s, r), given), reqs \ {req}, up, down \o b, U, D \cup {s})
    BY <1>4 DEF Handled
  <2> QED BY <1>3, <1>8, <1>10, <2>1
<1> HIDE DEF res
<1>12. pool' \subseteq {NewMessage}
  <2>1. \A m \in {req, res} : m.header[1] = MagicNumber
    BY <1>9
  <2> QED BY <1>2, <1>7, <2>1, FreeIsNew
<1>13. ResponsesArrive' /\ Remains'
  <2>1. \A t \in DOMAIN given : t \in DOMAIN given' /\ given'[t] = given[t]
    BY <1>5, <1>8 DEF Over, Pair
  <2> QED BY <1>2, <1>3, <2>1, ReadSame
<1>14. Posted' /\ PostsAnswered' /\ Blank' /\ Len(asked') + Len(posted') <= MaxCalls
  BY <1>2, <1>3, <1>12, PostedSame DEF Blank
<1> QED BY <1>11, <1>13, <1>14, IInvAgain

\* handleTrueRequest fails.
LEMMA HandleFailsIInv ==
    ASSUME IInv, NEW req \in reqs, HandleFails(req)
    PROVE  IInv'
<1>1. PICK U, D : Flows(asked, given, reqs, up, down, U, D)
  BY IInvParts
<1>2. /\ Len(asked) + Len(posted) <= MaxCalls
      /\ Posted /\ Blank /\ Remains /\ ResponsesArrive /\ PostsAnswered
  BY IInvParts
<1>3. /\ asked' = asked /\ posted' = posted /\ up' = up /\ down' = down /\ given' = given
      /\ resp' = resp /\ got' = got /\ reqs' = reqs \ {req} /\ FreeMsgs({req})
  BY DEF HandleFails
<1>4. PICK s : Handled(asked, given, reqs, up, down, U, D, req, s)
  BY <1>1, FlowsHandle
<1>5. req.header[1] = MagicNumber
  BY <1>4 DEF Handled, IsRequest, RequestHeader
<1>6. pool' \subseteq {NewMessage}
  BY <1>2, <1>3, <1>5, FreeIsNew
<1>7. Flows(asked', given', reqs', up', down', U, D)
  BY <1>1, <1>3, FlowsDrop
<1>8. ResponsesArrive' /\ Remains'
  BY <1>2, <1>3, ReadSame
<1>9. Posted' /\ PostsAnswered' /\ Blank' /\ Len(asked') + Len(posted') <= MaxCalls
  BY <1>2, <1>3, <1>6, PostedSame DEF Blank
<1> QED BY <1>7, <1>8, <1>9, IInvAgain

\* input.
LEMMA ReadIInv ==
    ASSUME IInv, Read
    PROVE  IInv'
<1>1. PICK U, D : Flows(asked, given, reqs, up, down, U, D)
  BY IInvParts
<1>2. /\ Len(asked) + Len(posted) <= MaxCalls
      /\ Posted /\ Blank /\ Remains /\ ResponsesArrive /\ PostsAnswered
  BY IInvParts
<1> DEFINE found == [heartBeat     |-> IsHeartbeat(resp'.header),
                     ok            |-> MessageStatusType(resp'.header) # Error,
                     serializeType |-> SerializeType(resp'.header),
                     payload       |-> resp'.payload,
                     metadata      |-> resp'.metadata]
<1>3. /\ down # <<>> /\ resp' = Decode(resp, down)
      /\ down' = SubSeq(down, Length(down) + 1, Len(down))
      /\ got' = Over(Pair(Seq8(resp'.header), found), got)
      /\ asked' = asked /\ posted' = posted /\ up' = up /\ pool' = pool /\ reqs' = reqs
      /\ given' = given
  BY DEF Read
<1>4. PICK s \in D : Answered(asked, given, reqs, up, down, U, D, s)
  BY <1>1, <1>3, FlowsRead
<1> DEFINE m == Answer(asked[s], s, given[s])
<1>5. /\ s \in DOMAIN asked /\ (asked[s].heartBeat \/ s \in DOMAIN given)
      /\ Decode(resp, down) = Holding(resp, m)
      /\ IsAnswer(m, asked[s], s, given[s])
      /\ Flows(asked, given, reqs, up, SubSeq(down, Length(down) + 1, Len(down)), U, D \ {s})
  BY <1>4 DEF Answered
<1> HIDE DEF m
<1>6. Flows(asked', given', reqs', up', down', U, D \ {s})
  BY <1>3, <1>5
<1>7. IsMessage(m) /\ IsMessage(resp)
  BY <1>2, <1>5 DEF IsAnswer, Sound, Blank
<1> DEFINE md == IF m.metadata = NoMetadata THEN resp.metadata ELSE m.metadata
<1>8. /\ IsMessage(resp') /\ resp'.header = m.header /\ resp'.payload = m.payload
      /\ resp'.metadata = md
  <2> DEFINE g == Holding(resp, m)
  <2>1. /\ IsMessage(g)
        /\ g = [header |-> m.header, servicePath |-> m.servicePath,
                serviceMethod |-> m.serviceMethod, metadata |-> md, payload |-> m.payload]
    BY <1>7, HoldingIs
  <2>2. resp' = g
    BY <1>3, <1>5
  <2> HIDE DEF g, md
  <2>3. g.header = m.header /\ g.payload = m.payload /\ g.metadata = md
    BY <2>1
  <2> QED BY <2>1, <2>2, <2>3
<1>9. /\ Seq8(resp'.header) = s /\ IsHeartbeat(resp'.header) = asked[s].heartBeat
      /\ MessageStatusType(resp'.header) = Normal
      /\ SerializeType(resp'.header) = asked[s].serializeType
  BY <1>5, <1>8 DEF IsAnswer, ResponseHeader
<1>10. /\ ~asked[s].heartBeat => s \in DOMAIN given /\ resp'.payload = given[s].payload
       /\ m.metadata = AnswerMetadata(s)
  BY <1>5, <1>8 DEF IsAnswer, AnswerMetadata
<1>11. /\ found.heartBeat = asked[s].heartBeat /\ found.ok
       /\ found.serializeType = asked[s].serializeType
       /\ found.payload = resp'.payload /\ found.metadata = resp'.metadata
  <2>1. Normal # Error
    BY DEF Normal, Error
  <2> QED BY <1>9, <2>1
<1> HIDE DEF found, md
<1>a. /\ DOMAIN got' = DOMAIN got \cup {s} /\ got'[s] = found
      /\ \A t \in DOMAIN got : t # s => got'[t] = got[t]
      /\ \A t : AnswerMetadata(t)' = AnswerMetadata(t)
  BY <1>3, <1>9 DEF Over, Pair, AnswerMetadata
<1>b. /\ \E t \in DOMAIN got' : resp'.metadata = AnswerMetadata(t)
      /\ m.metadata # NoMetadata => resp'.metadata = AnswerMetadata(s)
  <2>1. CASE m.metadata = NoMetadata /\ resp.metadata # NoMetadata
    BY <1>2, <1>8, <1>a, <2>1 DEF Remains, md
  <2>2. CASE m.metadata # NoMetadata \/ resp.metadata = NoMetadata
    BY <1>8, <1>10, <1>a, <2>2 DEF md
  <2> QED BY <2>1, <2>2
<1>c. Remains'
  BY <1>a, <1>b DEF Remains
<1>12. ResponsesArrive'
  <2> SUFFICES ASSUME NEW t \in DOMAIN got'
               PROVE  /\ t \in DOMAIN asked' /\ got'[t].ok
                      /\ got'[t].heartBeat = asked'[t].heartBeat
                      /\ got'[t].serializeType = asked'[t].serializeType
                      /\ ~got'[t].heartBeat =>
                             /\ t \in DOMAIN given' /\ got'[t].payload = given'[t].payload
                             /\ \E u \in DOMAIN got' :
                                    /\ u = t \/ given'[t].metadata = NoMetadata
                                    /\ got'[t].metadata = AnswerMetadata(u)'
    BY DEF ResponsesArrive
  <2>2. CASE t = s
    <3>1. ~asked[s].heartBeat => m.metadata = given[s].metadata
      BY <1>10 DEF AnswerMetadata
    <3> QED BY <1>3, <1>5, <1>10, <1>11, <1>a, <1>b, <2>2, <3>1
  <2>3. CASE t # s
    BY <1>2, <1>3, <1>a, <2>3 DEF ResponsesArrive
  <2> QED BY <2>2, <2>3
<1>13. Posted' /\ PostsAnswered' /\ Blank' /\ Len(asked') + Len(posted') <= MaxCalls
  BY <1>2, <1>3, <1>8, PostedSame DEF Blank
<1> QED BY <1>6, <1>12, <1>13, <1>c, IInvAgain

\* The part of PostsAnswered that is about one HTTP request.
PostAnswered(p) ==
    /\ p.code = Open =>
           /\ p.req.metadata = IF p.post.auth = <<>> THEN p.post.metadata
                               ELSE Over(Pair(AuthKey, p.post.auth), p.post.metadata)
           /\ MessageType(p.req.header) = Request
           /\ CompressType(p.req.header) = None
           /\ IsOneway(p.req.header) = p.post.oneway
    /\ p.code = 200 =>
           /\ p.reply.metadata = p.given.metadata
           /\ p.reply.payload = IF p.post.oneway THEN <<>> ELSE p.given.payload

\* PostsAnswered of a state, ...
LEMMA PostsAnsweredEach == PostsAnswered <=> \A i \in DOMAIN posted : PostAnswered(posted[i])
BY DEF PostsAnswered, PostAnswered

\* ... and of the next one.
LEMMA PostsAnsweredThen == PostsAnswered' <=> \A i \in DOMAIN posted' : PostAnswered(posted'[i])
BY DEF PostsAnswered, PostAnswered

\* What is the same in the actions of the HTTP gateway.
LEMMA GatewayIInv ==
    ASSUME IInv, UNCHANGED <<asked, up, down, reqs, given, resp, got>>,
           pool' \subseteq {NewMessage}, Posted', PostsAnswered',
           Len(asked) + Len(posted') <= MaxCalls
    PROVE  IInv'
<1>1. PICK U, D : Flows(asked, given, reqs, up, down, U, D)
  BY IInvParts
<1>2. Blank /\ Remains /\ ResponsesArrive
  BY IInvParts
<1>3. /\ asked' = asked /\ up' = up /\ down' = down /\ reqs' = reqs /\ given' = given
      /\ resp' = resp /\ got' = got
  OBVIOUS
<1>4. Flows(asked', given', reqs', up', down', U, D)
  BY <1>1, <1>3
<1>5. ResponsesArrive' /\ Remains'
  BY <1>2, <1>3, ReadSame
<1>6. Blank' /\ Len(asked') + Len(posted') <= MaxCalls
  BY <1>2, <1>3 DEF Blank
<1> QED BY <1>4, <1>5, <1>6, IInvAgain

\* handleGatewayRequest reads.
LEMMA PostIInv ==
    ASSUME IInv, NEW p \in Posts, Post(p)
    PROVE  IInv'
<1>1. /\ Len(asked) \in Nat /\ Len(posted) \in Nat /\ Len(asked) + Len(posted) < MaxCalls
      /\ Posted /\ Blank /\ PostsAnswered
  BY IInvParts DEF Post, More
<1> DEFINE req == HTTPRequest2EmRpcRequest(NewMessage, p)
           new == [post |-> p, req |-> req, code |-> IF p.malformed THEN 400 ELSE Open,
                   given |-> NoReply, reply |-> NoReply]
<1>2. /\ posted' = Append(posted, new)
      /\ UNCHANGED <<asked, up, down, reqs, given, resp, got>> /\ pool' = pool
  BY <1>1, PooledIsNew DEF Post
<1>3. /\ new \in PostRecords /\ new.req = HTTPRequest2EmRpcRequest(NewMessage, new.post)
  <2>1. NoReply \in {[metadata |-> r.metadata, payload |-> b] :
                        r \in Replies \cup {NoReply},
                        b \in {q.payload : q \in Replies} \cup {<<>>}}
    <3>1. NoReply = [metadata |-> NoReply.metadata, payload |-> <<>>]
      BY DEF NoReply
    <3> QED BY <3>1
  <2>2. (IF p.malformed THEN 400 ELSE Open) \in {Open, Aborted, 200, 400, 500}
    OBVIOUS
  <2> QED BY <2>1, <2>2 DEF PostRecords
<1>4. PostAnswered(new)
  <2>1. /\ req.metadata = IF p.auth = <<>> THEN p.metadata
                          ELSE Over(Pair(AuthKey, p.auth), p.metadata)
        /\ MessageType(req.header) = Request /\ CompressType(req.header) = None
        /\ IsOneway(req.header) = p.oneway
    BY PostIs
  <2> HIDE DEF req
  <2>2. new.post = p /\ new.req = req /\ new.code # 200
    BY DEF Open
  <2> HIDE DEF new
  <2> QED BY <2>1, <2>2 DEF PostAnswered
<1> HIDE DEF new
<1>5. posted \in Seq(PostRecords)
  BY <1>1 DEF Posted
<1>6. /\ posted' \in Seq(PostRecords) /\ Len(posted') = Len(posted) + 1
      /\ posted'[Len(posted) + 1] = new /\ \A i \in 1..Len(posted) : posted'[i] = posted[i]
  BY <1>2, <1>3, <1>5, AppendProperties
<1>7. /\ DOMAIN posted = 1..Len(posted)
      /\ \A i \in DOMAIN posted' : i = Len(posted) + 1 \/ i \in DOMAIN posted
  <2>1. DOMAIN posted = 1..Len(posted) /\ DOMAIN posted' = 1..Len(posted')
    BY <1>5, <1>6, LenProperties
  <2> QED BY <1>1, <1>6, <2>1
<1>8. Posted'
  <2>1. \A i \in DOMAIN posted :
            posted[i].req = HTTPRequest2EmRpcRequest(NewMessage, posted[i].post)
    BY <1>1 DEF Posted
  <2>2. \A i \in DOMAIN posted' :
            posted'[i].req = HTTPRequest2EmRpcRequest(NewMessage, posted'[i].post)
    BY <1>3, <1>6, <1>7, <2>1
  <2> QED BY <1>6, <2>2 DEF Posted
<1>9. PostsAnswered'
  <2>1. \A i \in DOMAIN posted : PostAnswered(posted[i])
    BY <1>1, PostsAnsweredEach
  <2>2. \A i \in DOMAIN posted' : PostAnswered(posted'[i])
    BY <1>4, <1>6, <1>7, <2>1
  <2> QED BY <2>2, PostsAnsweredThen
<1>10. pool' \subseteq {NewMessage} /\ Len(asked) + Len(posted') <= MaxCalls
  <2>1. MaxCalls \in Nat
    BY ExchangeAssumption
  <2> QED BY <1>1, <1>2, <1>6, <2>1 DEF Blank
<1> QED BY <1>2, <1>8, <1>9, <1>10, GatewayIInv

\* The record of an HTTP request, when the answer is written into it.
Rewrite(old, c, r, y) == [old EXCEPT !.code = c, !.given = r, !.reply = y]

\* The rest of the record remains.
LEMMA Rewritten ==
    ASSUME NEW P, NEW Q, NEW C, NEW G, NEW Y,
           NEW old \in [post : P, req : Q, code : C, given : G, reply : Y],
           NEW c \in C, NEW r \in G, NEW y \in Y
    PROVE  LET new == Rewrite(old, c, r, y) IN
           /\ new \in [post : P, req : Q, code : C, given : G, reply : Y]
           /\ new.post = old.post /\ new.req = old.req /\ new.code = c
           /\ new.given = r /\ new.reply = y
BY DEF Rewrite

\* It answers, in one way or another.
LEMMA WriteIInv ==
    ASSUME IInv, NEW i \in DOMAIN posted,
           NEW code \in {Aborted, 200, 400, 500}, NEW r \in Replies \cup {NoReply},
           NEW reply \in {[metadata |-> x.metadata, payload |-> b] :
                             x \in Replies \cup {NoReply},
                             b \in {q.payload : q \in Replies} \cup {<<>>}},
           NEW freed, \A m \in freed : m.header[1] = MagicNumber,
           code = 200 =>
               /\ reply.metadata = r.metadata
               /\ reply.payload = IF posted[i].post.oneway THEN <<>> ELSE r.payload,
           Write(i, code, r, reply, freed)
    PROVE  IInv'
<1>1. /\ Len(asked) \in Nat /\ Len(posted) \in Nat /\ Len(asked) + Len(posted) <= MaxCalls
      /\ Posted /\ Blank /\ PostsAnswered
  BY IInvParts
<1>2. /\ posted' = [posted EXCEPT ![i] = [@ EXCEPT !.code = code, !.given = r, !.reply = reply]]
      /\ UNCHANGED <<asked, up, down, reqs, given, resp, got>> /\ FreeMsgs(freed)
  BY DEF Write
<1> DEFINE old == posted[i]
           new == Rewrite(old, code, r, reply)
<1>3. posted \in Seq(PostRecords) /\ old \in PostRecords
  <2>1. posted \in Seq(PostRecords) /\ DOMAIN posted = 1..Len(posted)
    BY <1>1, LenProperties DEF Posted
  <2> QED BY <2>1, ElementOfSeq
<1>4. posted' = [posted EXCEPT ![i] = new]
  BY DEF Write, Rewrite
<1>5. /\ new \in PostRecords /\ new.post = old.post /\ new.req = old.req /\ new.code = code
      /\ new.given = r /\ new.reply = reply
  <2> DEFINE Q == {HTTPRequest2EmRpcRequest(NewMessage, p) : p \in Posts}
             C == {Open, Aborted, 200, 400, 500}
             G == Replies \cup {NoReply}
             Y == {[metadata |-> x.metadata, payload |-> b] :
                      x \in Replies \cup {NoReply},
                      b \in {q.payload : q \in Replies} \cup {<<>>}}
  <2>1. code \in C /\ r \in G /\ reply \in Y
    OBVIOUS
  <2>2. PostRecords = [post : Posts, req : Q, code : C, given : G, reply : Y]
    BY DEF PostRecords
  <2> HIDE DEF old, Q, C, G, Y
  <2>3. old \in [post : Posts, req : Q, code : C, given : G, reply : Y]
    BY <1>3, <2>2
  <2>4. /\ new \in [post : Posts, req : Q, code : C, given : G, reply : Y]
        /\ new.post = old.post /\ new.req = old.req /\ new.code = code
        /\ new.given = r /\ new.reply = reply
    BY <2>1, <2>3, Rewritten
  <2> QED BY <2>2, <2>4
<1> HIDE DEF new
<1>6. /\ posted' \in Seq(PostRecords) /\ Len(posted') = Len(posted)
      /\ DOMAIN posted' = DOMAIN posted /\ posted'[i] = new
      /\ \A j \in DOMAIN posted : j # i => posted'[j] = posted[j]
  <2>1. DOMAIN posted = 1..Len(posted) /\ posted \in [1..Len(posted) -> PostRecords]
    BY <1>3, LenProperties
  <2>2. posted' \in [1..Len(posted) -> PostRecords]
    BY <1>4, <1>5, <2>1
  <2>3. posted' \in Seq(PostRecords) /\ Len(posted') = Len(posted)
    BY <1>1, <2>2, SeqDef, LenProperties
  <2> QED BY <1>4, <2>1, <2>2, <2>3
<1>7. Posted'
  <2>1. \A j \in DOMAIN posted :
            posted[j].req = HTTPRequest2EmRpcRequest(NewMessage, posted[j].post)
    BY <1>1 DEF Posted
  <2>2. \A j \in DOMAIN posted' :
            posted'[j].req = HTTPRequest2EmRpcRequest(NewMessage, posted'[j].post)
    BY <1>5, <1>6, <2>1
  <2> QED BY <1>6, <2>2 DEF Posted
<1>8. PostAnswered(new)
  <2>1. code # Open
    BY DEF Open, Aborted
  <2> HIDE DEF old
  <2>2. code = 200 => /\ reply.metadata = r.metadata
                      /\ reply.payload = IF old.post.oneway THEN <<>> ELSE r.payload
    BY DEF old
  <2> QED BY <1>5, <2>1, <2>2 DEF PostAnswered
<1>9. PostsAnswered'
  <2>1. \A j \in DOMAIN posted : PostAnswered(posted[j])
    BY <1>1, PostsAnsweredEach
  <2>2. \A j \in DOMAIN posted' : PostAnswered(posted'[j])
    BY <1>6, <1>8, <2>1
  <2> QED BY <2>2, PostsAnsweredThen
<1>10. pool' \subseteq {NewMessage} /\ Len(asked) + Len(posted') <= MaxCalls
  BY <1>1, <1>2, <1>6, FreeIsNew
<1> QED BY <1>2, <1>7, <1>9, <1>10, GatewayIInv

\* The request of an HTTP request in the state.
LEMMA PostedIs ==
    ASSUME Posted, NEW i \in DOMAIN posted
    PROVE  /\ posted[i].post \in Posts
           /\ posted[i].req = HTTPRequest2EmRpcRequest(NewMessage, posted[i].post)
           /\ posted[i].req.header \in Headers /\ posted[i].req.header[1] = MagicNumber
           /\ IsOneway(posted[i].req.header) = posted[i].post.oneway
<1>1. posted \in Seq(PostRecords) /\ DOMAIN posted = 1..Len(posted)
  BY LenProperties DEF Posted
<1>2. posted[i] \in PostRecords
  BY <1>1, ElementOfSeq
<1>3. posted[i].post \in Posts
  BY <1>2 DEF PostRecords
<1>4. posted[i].req = HTTPRequest2EmRpcRequest(NewMessage, posted[i].post)
  BY DEF Posted
<1> QED BY <1>3, <1>4, PostIs

\* The service replies.
LEMMA AnswerPostIInv ==
    ASSUME IInv, NEW i \in DOMAIN posted, AnswerPost(i)
    PROVE  IInv'
<1>1. Posted /\ Blank
  BY IInvParts
<1> DEFINE req == posted[i].req
<1>2. PICK r \in Replies :
          LET res == HandleRequest(req, NewMessage, r)
          IN  Write(i, 200, r, [metadata |-> res.metadata, payload |-> res.payload], {req, res})
  <2>1. PICK c \in GetPooledMsg, r \in Replies :
            LET res == HandleRequest(req, c, r)
            IN  Write(i, 200, r, [metadata |-> res.metadata, payload |-> res.payload], {req, res})
    BY DEF AnswerPost
  <2>2. c = NewMessage
    BY <1>1, PooledIsNew
  <2> QED BY <2>1, <2>2
<1>3. req.header \in Headers /\ req.header[1] = MagicNumber
      /\ IsOneway(req.header) = posted[i].post.oneway
  BY <1>1, PostedIs
<1> HIDE DEF req
<1> DEFINE res == HandleRequest(req, NewMessage, r)
           pl == IF posted[i].post.oneway THEN <<>> ELSE r.payload
           reply == [metadata |-> res.metadata, payload |-> res.payload]
<1>4. res.metadata = r.metadata /\ res.payload = pl /\ res.header[1] = MagicNumber
  BY <1>3, AnswerPostIs
<1>5. Write(i, 200, r, reply, {req, res})
  BY <1>2
<1> HIDE DEF res
<1>6. reply.metadata = r.metadata /\ reply.payload = pl /\ reply = [metadata |-> r.metadata, payload |-> pl]
  BY <1>4
<1>7. pl \in {q.payload : q \in Replies} \cup {<<>>}
  OBVIOUS
<1>8. \A m \in {req, res} : m.header[1] = MagicNumber
  BY <1>3, <1>4
<1> HIDE DEF reply, pl
<1>9. reply \in {[metadata |-> x.metadata, payload |-> b] :
                     x \in Replies \cup {NoReply},
                     b \in {q.payload : q \in Replies} \cup {<<>>}}
  <2> DEFINE X == Replies \cup {NoReply}
             B == {q.payload : q \in Replies} \cup {<<>>}
  <2>1. r \in X /\ pl \in B
    BY <1>7
  <2> HIDE DEF X, B
  <2>2. [metadata |-> r.metadata, payload |-> pl] \in
            {[metadata |-> x.metadata, payload |-> b] : x \in X, b \in B}
    BY <2>1
  <2>3. reply \in {[metadata |-> x.metadata, payload |-> b] : x \in X, b \in B}
    BY <1>6, <2>2
  <2> QED BY <2>3 DEF X, B
<1>10. 200 \in {Aborted, 200, 400, 500} /\ r \in Replies \cup {NoReply}
  OBVIOUS
<1>11. /\ reply.metadata = r.metadata
       /\ reply.payload = IF posted[i].post.oneway THEN <<>> ELSE r.payload
  BY <1>6 DEF pl
<1> QED BY <1>5, <1>8, <1>9, <1>10, <1>11, WriteIInv

\* handleRequest fails.
LEMMA FailPostIInv ==
    ASSUME IInv, NEW i \in DOMAIN posted, FailPost(i) \/ AbortPost(i)
    PROVE  IInv'
<1>1. Posted /\ Blank
  BY IInvParts
<1> DEFINE req == posted[i].req
           res == [Clone(req, NewMessage) EXCEPT
                       !.header = SetMessageStatusType(SetMessageType(@, Response), Error)]
<1>2. req.header \in Headers /\ req.header[1] = MagicNumber
  BY <1>1, PostedIs
<1>3. res.header[1] = MagicNumber
  <2> HIDE DEF req
  <2> QED BY <1>2, FailPostIs
<1>4. Write(i, 500, NoReply, NoReply, {req, res}) \/ Write(i, Aborted, NoReply, NoReply, {req})
  <2>1. CASE FailPost(i)
    <3>1. PICK c \in GetPooledMsg :
            LET e == [Clone(req, c) EXCEPT
                         !.header = SetMessageStatusType(SetMessageType(@, Response), Error)]
            IN  Write(i, 500, NoReply, NoReply, {req, e})
      BY <2>1 DEF FailPost
    <3>2. c = NewMessage
      BY <1>1, PooledIsNew
    <3> QED BY <3>1, <3>2
  <2>2. CASE AbortPost(i)
    BY <2>2 DEF AbortPost
  <2> QED BY <2>1, <2>2
<1> HIDE DEF req, res
<1>5. NoReply \in {[metadata |-> x.metadata, payload |-> b] :
                      x \in Replies \cup {NoReply},
                      b \in {q.payload : q \in Replies} \cup {<<>>}}
  <2>1. NoReply = [metadata |-> NoReply.metadata, payload |-> <<>>]
    BY DEF NoReply
  <2> QED BY <2>1
<1>6. /\ \A m \in {req, res} : m.header[1] = MagicNumber
      /\ \A m \in {req} : m.header[1] = MagicNumber
  BY <1>2, <1>3
<1>7. /\ 500 \in {Aborted, 200, 400, 500} /\ Aborted \in {Aborted, 200, 400, 500}
      /\ 500 # 200 /\ Aborted # 200 /\ NoReply \in Replies \cup {NoReply}
  BY DEF Aborted
<1>8. CASE Write(i, 500, NoReply, NoReply, {req, res})
  BY <1>5, <1>6, <1>7, <1>8, WriteIInv
<1>9. CASE Write(i, Aborted, NoReply, NoReply, {req})
  BY <1>5, <1>6, <1>7, <1>9, WriteIInv
<1> QED BY <1>4, <1>8, <1>9

-----------------------------------------------------------------------------
(* The theorems.                                                           *)

\* IInv holds in every state: whoever makes, handles or answers a request, and
\* in whatever order the messages are written to the streams.
THEOREM Invariance == Spec => []IInv
<1>1. ASSUME IInv, [Next]_vars
      PROVE  IInv'
  <2>1. ASSUME NEW c \in Asks, Send(c) PROVE IInv'
    BY <1>1, <2>1, SendIInv
  <2>2. CASE Receive
    BY <1>1, <2>2, ReceiveIInv
  <2>3. ASSUME NEW req \in reqs, Handle(req) \/ HandleFails(req) PROVE IInv'
    BY <1>1, <2>3, HandleIInv, HandleFailsIInv
  <2>4. CASE Read
    BY <1>1, <2>4, ReadIInv
  <2>5. ASSUME NEW p \in Posts, Post(p) PROVE IInv'
    BY <1>1, <2>5, PostIInv
  <2>6. ASSUME NEW i \in DOMAIN posted, AnswerPost(i) \/ FailPost(i) \/ AbortPost(i) PROVE IInv'
    BY <1>1, <2>6, AnswerPostIInv, FailPostIInv
  <2>7. CASE UNCHANGED vars
    <3>1. /\ asked' = asked /\ posted' = posted /\ up' = up /\ down' = down /\ pool' = pool
          /\ reqs' = reqs /\ given' = given /\ resp' = resp /\ got' = got
      BY <2>7 DEF vars
    <3>2. /\ Len(asked) + Len(posted) <= MaxCalls
          /\ Posted /\ Blank /\ Remains /\ ResponsesArrive /\ PostsAnswered
      BY <1>1, IInvParts
    <3>3. PICK U, D : Flows(asked, given, reqs, up, down, U, D)
      BY <1>1, IInvParts
    <3>4. Flows(asked', given', reqs', up', down', U, D)
      BY <3>1, <3>3
    <3>5. ResponsesArrive' /\ Remains'
      BY <3>1, <3>2, ReadSame
    <3>6. Posted' /\ PostsAnswered' /\ Blank' /\ Len(asked') + Len(posted') <= MaxCalls
      BY <3>1, <3>2, PostedSame DEF Blank
    <3> QED BY <3>4, <3>5, <3>6, IInvAgain
  <2> QED BY <1>1, <2>1, <2>2, <2>3, <2>4, <2>5, <2>6, <2>7 DEF Next
<1> QED BY <1>1, InitIInv, PTL DEF Spec

\* A span over other metadata can be told from it.
LEMMA SpanApart ==
    ASSUME NEW c \in Asks, c.metadata = Common(c.metadata)
    PROVE  Common(ExtractMd(c)) = c.metadata /\ Span(ExtractMd(c)) = Span(c.span)
<1>1. /\ DOMAIN c.span \subseteq SpanKeys
      /\ c.metadata = [x \in DOMAIN c.metadata |-> c.metadata[x]]
      /\ c.span = [x \in DOMAIN c.span |-> c.span[x]]
  BY ExchangeAssumption DEF IsMetadata
<1>2. DOMAIN c.metadata \cap SpanKeys = {}
  <2>1. DOMAIN Common(c.metadata) = DOMAIN c.metadata \ SpanKeys
    BY DEF Common, Restrict
  <2> QED BY <2>1
<1> DEFINE md == ExtractMd(c)
           D == DOMAIN c.span \cup DOMAIN c.metadata
<1>3. /\ DOMAIN md = D /\ \A x \in DOMAIN c.span : md[x] = c.span[x]
      /\ \A x \in DOMAIN c.metadata : md[x] = c.metadata[x]
  <2>1. DOMAIN md = D /\ \A x \in D : md[x] = IF x \in DOMAIN c.span THEN c.span[x] ELSE c.metadata[x]
    BY DEF ExtractMd, Over
  <2> HIDE DEF md
  <2> QED BY <1>1, <1>2, <2>1
<1> HIDE DEF md
<1>4. D \ SpanKeys = DOMAIN c.metadata /\ D \cap SpanKeys = DOMAIN c.span
  BY <1>1, <1>2
<1>5. /\ Common(md) = [x \in DOMAIN c.metadata |-> md[x]]
      /\ Span(md) = {<<Field[x], md[x]>> : x \in DOMAIN c.span}
      /\ Span(c.span) = {<<Field[x], c.span[x]>> : x \in DOMAIN c.span}
  BY <1>1, <1>3, <1>4 DEF Common, Span, Restrict
<1>6. [x \in DOMAIN c.metadata |-> md[x]] = [x \in DOMAIN c.metadata |-> c.metadata[x]]
  BY <1>3
<1>7. Span(md) = Span(c.span)
  BY <1>3, <1>5
<1> QED BY <1>1, <1>5, <1>6, <1>7 DEF md

\* Every request that the server has decoded is the one that a caller made,
\* and nothing of another call, response or heartbeat is left in it.
THEOREM NothingIsLeft == Spec => []RequestsArrive
<1>1. IInv => RequestsArrive
  <2> SUFFICES ASSUME IInv, NEW m \in reqs
               PROVE  LET c == asked[Seq8(m.header)] IN
                      /\ m.servicePath = c.servicePath /\ m.serviceMethod = c.serviceMethod
                      /\ ~ExtractFails(m.metadata) /\ c.metadata = Common(c.metadata) =>
                             Common(m.metadata) = c.metadata /\ Span(m.metadata) = Span(c.span)
                      /\ m.payload = IF c.serializeType = SerializeNone THEN <<>> ELSE c.args
                      /\ SerializeType(m.header) = c.serializeType
                      /\ MessageType(m.header) = Request /\ ~IsOneway(m.header)
    BY DEF RequestsArrive
  <2>1. PICK U, D : Flows(asked, given, reqs, up, down, U, D)
    BY IInvParts
  <2>2. PICK s : Handled(asked, given, reqs, up, down, U, D, m, s)
    BY <2>1, FlowsHandle
  <2>3. s \in Calls /\ asked[s] \in Asks /\ IsRequest(m, asked[s], s)
    BY <2>2 DEF Handled
  <2> DEFINE c == asked[s]
  <2>4. /\ Seq8(m.header) = s
        /\ m.servicePath = c.servicePath /\ m.serviceMethod = c.serviceMethod
        /\ m.metadata = ExtractMd(c)
        /\ m.payload = IF c.serializeType = SerializeNone THEN <<>> ELSE c.args
        /\ SerializeType(m.header) = c.serializeType
        /\ MessageType(m.header) = Request /\ ~IsOneway(m.header)
    BY <2>3 DEF IsRequest, RequestHeader
  <2>5. c.metadata = Common(c.metadata) =>
            Common(m.metadata) = c.metadata /\ Span(m.metadata) = Span(c.span)
    BY <2>3, <2>4, SpanApart
  <2> HIDE DEF c
  <2>6. asked[Seq8(m.header)] = c
    BY <2>4 DEF c
  <2> QED BY <2>4, <2>5, <2>6
<1> QED BY <1>1, Invariance, PTL

\* What input finds in a response is the payload of the same call's service,
\* and its metadata if it sent any; if it sent none, nothing but the metadata
\* of an answer on the same connection.
THEOREM RepliesAreTheirOwn == Spec => []ResponsesArrive
<1>1. IInv => ResponsesArrive
  BY DEF IInv
<1> QED BY <1>1, Invariance, PTL

\* An HTTP client gets the reply of its own request, whatever the Messages that
\* were reused for it had held.
THEOREM PostsGetTheirReplies == Spec => []PostsAnswered
<1>1. IInv => PostsAnswered
  BY DEF IInv
<1> QED BY <1>1, Invariance, PTL

\* A stream of messages can always be decoded, whatever is in them.
THEOREM StreamsAreRead == Spec => []StreamsDecode
<1>1. IInv => StreamsDecode
  <2> SUFFICES ASSUME IInv
               PROVE  /\ up # <<>> => Length(up) <= Len(up) /\ ~DecodeFails(up)
                      /\ down # <<>> => Length(down) <= Len(down) /\ ~DecodeFails(down)
    BY DEF StreamsDecode
  <2>1. PICK U, D : Flows(asked, given, reqs, up, down, U, D)
    BY IInvParts
  <2>2. up # <<>> => Length(up) <= Len(up) /\ ~DecodeFails(up)
    BY <2>1, FlowsReceive
  <2>3. down # <<>> => Length(down) <= Len(down) /\ ~DecodeFails(down)
    BY <2>1, FlowsRead
  <2> QED BY <2>2, <2>3
<1> QED BY <1>1, Invariance, PTL
=============================================================================
