--------------------------- MODULE UdpCodecProofs ---------------------------
(* Proofs about UdpCodec for every choice of the packet constants: a ping  *)
(* udpRecvLoop echoes is parsed back by the client as the ping it was.     *)
EXTENDS UdpCodec, SequenceTheorems, TLAPS

Byte == 0..255
\* 2^64 - 1, as a literal: tlapm folds a product of constants in 63-bit
\* arithmetic, where 2^64 wraps around.
MaxUint64 == 18446744073709551615

-----------------------------------------------------------------------------
(* encoding/binary.                                                        *)

\* A uint64, and a byte, as the provers' arithmetic takes them best.
IsUint64(x) == x \in Int /\ 0 <= x /\ x <= MaxUint64
IsByte(x) == x \in Int /\ 0 <= x /\ x <= 255

\* Uint64 of eight bytes is a uint64.
LEMMA LEBound ==
    ASSUME NEW b, \A i \in 1..8 : IsByte(b[i])
    PROVE  IsUint64(LE(b))
<1> DEFINE h7 == b[7] + 256 * b[8]       h6 == b[6] + 256 * h7
           h5 == b[5] + 256 * h6       h4 == b[4] + 256 * h5
           h3 == b[3] + 256 * h4       h2 == b[2] + 256 * h3
<1>1. \A i \in 1..8 : b[i] \in Int /\ 0 <= b[i] /\ b[i] <= 255
  BY DEF IsByte
<1>2. h7 \in Int /\ 0 <= h7 /\ h7 <= 65535
  BY <1>1
<1>3. h5 \in Int /\ 0 <= h5 /\ h5 <= 4294967295
  BY <1>1, <1>2
<1>4. h3 \in Int /\ 0 <= h3 /\ h3 <= 281474976710655
  BY <1>1, <1>3
<1>5. h2 \in Int /\ 0 <= h2 /\ h2 <= 72057594037927935
  BY <1>1, <1>4
<1>6. LE(b) = b[1] + 256 * h2
  BY DEF LE
<1> HIDE DEF h2, h3, h4, h5, h6, h7
<1>7. QED
  BY <1>1, <1>5, <1>6 DEF IsUint64, MaxUint64

\* Division of a natural number by 256: the byte it drops and the number
\* shifted right by eight bits.
LEMMA Shift8 ==
    ASSUME NEW x \in Int, 0 <= x
    PROVE  /\ IsByte(x % 256)
           /\ x \div 256 \in Int /\ 0 <= x \div 256
           /\ x = (x % 256) + 256 * (x \div 256)
BY DEF IsByte

\* AppendUint64 writes eight bytes.
LEMMA LEBytesType ==
    ASSUME NEW v \in Int, 0 <= v
    PROVE  /\ LEBytes(v) \in Seq(Byte)
           /\ Len(LEBytes(v)) = 8
           /\ \A i \in 1..8 : IsByte(LEBytes(v)[i])
<1> DEFINE v1 == v \div 256   v2 == v1 \div 256  v3 == v2 \div 256
           v4 == v3 \div 256  v5 == v4 \div 256  v6 == v5 \div 256
           v7 == v6 \div 256
<1>1. /\ v1 \in Int /\ 0 <= v1  /\ v2 \in Int /\ 0 <= v2
      /\ v3 \in Int /\ 0 <= v3  /\ v4 \in Int /\ 0 <= v4
      /\ v5 \in Int /\ 0 <= v5  /\ v6 \in Int /\ 0 <= v6
      /\ v7 \in Int /\ 0 <= v7
  BY Shift8
<1>2. \A x \in {v, v1, v2, v3, v4, v5, v6, v7} : IsByte(x % 256)
  BY <1>1, Shift8
<1>3. LEBytes(v) = <<v % 256, v1 % 256, v2 % 256, v3 % 256, v4 % 256,
                     v5 % 256, v6 % 256, v7 % 256>>
  BY DEF LEBytes
<1> HIDE DEF v1, v2, v3, v4, v5, v6, v7
<1>4. Len(LEBytes(v)) = 8 /\ DOMAIN LEBytes(v) = 1..8
  BY <1>3
<1>5. \A i \in 1..8 : IsByte(LEBytes(v)[i])
  BY <1>2, <1>3
<1>6. LEBytes(v) \in Seq(Byte)
  BY <1>3, <1>5 DEF IsByte, Byte
<1>7. QED
  BY <1>4, <1>5, <1>6

\* Uint64 reads back the uint64 that AppendUint64 wrote: the legacy ping's
\* timestamp survives LegacyData and parsePingPacketLegacy.
LEMMA LERoundTrip ==
    ASSUME NEW v, IsUint64(v)
    PROVE  LE(LEBytes(v)) = v
<1> DEFINE v1 == v \div 256   v2 == v1 \div 256  v3 == v2 \div 256
           v4 == v3 \div 256  v5 == v4 \div 256  v6 == v5 \div 256
           v7 == v6 \div 256
<1>1. LEBytes(v) = <<v % 256, v1 % 256, v2 % 256, v3 % 256, v4 % 256,
                     v5 % 256, v6 % 256, v7 % 256>>
  BY DEF LEBytes
<1>2. /\ v1 \in Int /\ 0 <= v1 /\ v1 <= 72057594037927935
      /\ v = (v % 256) + 256 * v1
  BY Shift8 DEF IsUint64, MaxUint64
<1>3. /\ v2 \in Int /\ 0 <= v2 /\ v2 <= 281474976710655
      /\ v1 = (v1 % 256) + 256 * v2
  BY <1>2, Shift8
<1>4. /\ v3 \in Int /\ 0 <= v3 /\ v3 <= 1099511627775
      /\ v2 = (v2 % 256) + 256 * v3
  BY <1>3, Shift8
<1>5. /\ v4 \in Int /\ 0 <= v4 /\ v4 <= 4294967295
      /\ v3 = (v3 % 256) + 256 * v4
  BY <1>4, Shift8
<1>6. /\ v5 \in Int /\ 0 <= v5 /\ v5 <= 16777215
      /\ v4 = (v4 % 256) + 256 * v5
  BY <1>5, Shift8
<1>7. /\ v6 \in Int /\ 0 <= v6 /\ v6 <= 65535
      /\ v5 = (v5 % 256) + 256 * v6
  BY <1>6, Shift8
<1>8. /\ v7 \in Int /\ 0 <= v7 /\ v7 <= 255
      /\ v6 = (v6 % 256) + 256 * v7
      /\ v7 % 256 = v7
  BY <1>7, Shift8
<1> HIDE DEF v1, v2, v3, v4, v5, v6, v7
<1>9. QED
  BY <1>1, <1>2, <1>3, <1>4, <1>5, <1>6, <1>7, <1>8 DEF LE
-----------------------------------------------------------------------------
(* What a legacy client sends.                                             *)

\* A datagram of a legacy client: bytes, or a protobuf ping of at most four
\* elements (its tag and field values stand for bytes of the wire format).
LegacyDgram(d) == d \in Seq(Byte) \/ (d \in Seq(Int) /\ Len(d) <= 4)

\* Zeros(k) is k zero bytes.
LEMMA ZerosType ==
    ASSUME NEW k \in Nat
    PROVE  Zeros(k) \in Seq(Byte) /\ Len(Zeros(k)) = k
BY DEF Zeros, Byte

\* PutUint32/PutUint64 of a value below 0x4000 writes bytes.
LEMMA VarintType ==
    ASSUME NEW n \in Int, 0 <= n, n <= 16383
    PROVE  Varint(n) \in Seq(Byte)
<1>1. CASE n < 128
  BY <1>1 DEF Varint, Byte
<1>2. CASE n >= 128
  <2> DEFINE q == n \div 256  r == n % 256
  <2>1. IsByte(r) /\ q \in Int /\ 0 <= q /\ n = r + 256 * q
    BY Shift8
  <2>2. q <= 63
    <3> HIDE DEF q, r
    <3> QED  BY <2>1 DEF IsByte
  <2>3. Varint(n) = <<128 + q, r>>
    BY <1>2 DEF Varint
  <2>4. 128 + q \in Byte /\ r \in Byte
    BY <2>1, <2>2 DEF Byte, IsByte
  <2> HIDE DEF q, r
  <2>5. QED
    BY <2>3, <2>4
<1>3. QED
  BY <1>1, <1>2
\* Three byte strings concatenated are a byte string.
LEMMA Concat3 ==
    ASSUME NEW a \in Seq(Byte), NEW b \in Seq(Byte), NEW c \in Seq(Byte)
    PROVE  a \o b \o c \in Seq(Byte)
BY ConcatProperties

\* The packet constants of FieldAssumption and BytesAssumption, element by
\* element.
LEMMA CodecTypes ==
    /\ \A x \in Targets : x \in Int /\ 0 <= x /\ x <= 31
    /\ \A x \in Sessions : x \in Int /\ 0 <= x /\ x <= 8191
    /\ \A x \in FrameNumbers : x \in Int /\ 0 <= x /\ x <= 8191
    /\ \A x \in Timestamps : x \in Int /\ 0 <= x /\ x <= 8191
    /\ \A p \in OpusPayloads : p \in Seq(Byte) /\ Len(p) < 128
    /\ \A c \in CeltTocs : c \in Seq(Byte)
    /\ \A d \in RawDatagrams : d \in Seq(Byte)
    /\ VoiceCodecs \subseteq Codecs
<1>1. \A x \in Targets : x \in Int /\ 0 <= x /\ x <= 31
  <2>1. Targets \subseteq 0..31
    BY FieldAssumption
  <2>2. QED
    BY <2>1
<1>2. \A x \in Sessions : x \in Int /\ 0 <= x /\ x <= 8191
  <2>1. Sessions \subseteq 0..8191
    BY FieldAssumption
  <2>2. QED
    BY <2>1
<1>3. \A x \in FrameNumbers : x \in Int /\ 0 <= x /\ x <= 8191
  <2>1. FrameNumbers \subseteq 0..8191
    BY FieldAssumption
  <2>2. QED
    BY <2>1
<1>4. \A x \in Timestamps : x \in Int /\ 0 <= x /\ x <= 8191
  <2>1. Timestamps \subseteq 0..8191
    BY FieldAssumption
  <2>2. QED
    BY <2>1
<1>5. \A p \in OpusPayloads : p \in Seq(Byte) /\ Len(p) < 128
  BY BytesAssumption DEF Byte
<1>6. \A c \in CeltTocs : c \in Seq(Byte)
  BY BytesAssumption DEF Byte
<1>7. \A d \in RawDatagrams : d \in Seq(Byte)
  <2>1. \A d \in RawDatagrams : d \in Seq(0..191)
    BY BytesAssumption
  <2>2. QED
    BY <2>1, SeqMonotonic DEF Byte
<1>8. VoiceCodecs \subseteq Codecs
  <2>1. VoiceCodecs \subseteq {"CELTAlpha", "Speex", "CELTBeta", "Opus"}
    BY FieldAssumption
  <2>2. Codecs = {"CELTAlpha", "Speex", "CELTBeta", "Opus"}
    BY DEF Codecs, LegacyKind
  <2>3. QED
    BY <2>1, <2>2
<1>9. QED
  BY <1>1, <1>2, <1>3, <1>4, <1>5, <1>6, <1>7, <1>8

\* An extended ping is four zero bytes, the timestamp and padding.
LEMMA ExtEncode ==
    ASSUME NEW s, s.form = "ext", s.ts \in Nat, s.size \in {12, 24}
    PROVE  Encode(s) \in Seq(Byte)
<1>1. Encode(s) = Zeros(4) \o LEBytes(s.ts) \o Zeros(s.size - 12)
  BY Zenon DEF Encode
<1>2. LEBytes(s.ts) \in Seq(Byte)
  BY LEBytesType
<1>3. Zeros(4) \in Seq(Byte) /\ Zeros(s.size - 12) \in Seq(Byte)
  BY ZerosType
<1>4. QED
  BY <1>1, <1>2, <1>3, Concat3

\* A protobuf ping is its header and at most three elements.
LEMMA PbPingEncode ==
    ASSUME NEW s, s.form = "pbping", s.ts \in Int
    PROVE  Encode(s) \in Seq(Int) /\ Len(Encode(s)) <= 4
<1> DEFINE m == MarshalPing(Ping(s.ts, FALSE))
<1>1. Encode(s) = <<UDPPacketPing>> \o m
  BY Zenon DEF Encode, PingProtobufData
<1>2. m \in Seq(Int) /\ Len(m) <= 3
  BY DEF MarshalPing, Ping, PbPing
<1>3. <<UDPPacketPing>> \in Seq(Int) /\ Len(<<UDPPacketPing>>) = 1
  BY DEF UDPPacketPing
<1> HIDE DEF m
<1>4. <<UDPPacketPing>> \o m \in Seq(Int)
      /\ Len(<<UDPPacketPing>> \o m) = 1 + Len(m)
  BY <1>2, <1>3, ConcatProperties
<1>5. QED
  BY <1>1, <1>2, <1>4

\* The header, the varint session and frame of a legacy voice packet.
LEMMA VoiceHeadEncode ==
    ASSUME NEW s, s.codec \in Codecs, s.target \in Int, 0 <= s.target, s.target <= 31,
           s.session \in Int, 0 <= s.session, s.session <= 8191,
           s.frame \in Int, 0 <= s.frame, s.frame <= 8191
    PROVE  <<LegacyKind[s.codec] * 32 + s.target>> \o Varint(s.session)
           \o Varint(s.frame) \in Seq(Byte)
<1>1. <<LegacyKind[s.codec] * 32 + s.target>> \in Seq(Byte)
  BY DEF Codecs, LegacyKind, Byte
<1>2. Varint(s.session) \in Seq(Byte) /\ Varint(s.frame) \in Seq(Byte)
  BY VarintType
<1>3. QED
  BY <1>1, <1>2, Concat3

\* A legacy CELT/Speex voice packet is bytes.
LEMMA CeltEncode ==
    ASSUME NEW s, s.form = "legacyvoice", s.codec \in Codecs \ {"Opus"},
           s.chain \in Seq(Byte), s.pos \in BOOLEAN,
           <<LegacyKind[s.codec] * 32 + s.target>> \o Varint(s.session)
           \o Varint(s.frame) \in Seq(Byte)
    PROVE  Encode(s) \in Seq(Byte)
<1> DEFINE head == <<LegacyKind[s.codec] * 32 + s.target>> \o Varint(s.session)
                   \o Varint(s.frame)
<1>1. Encode(s) = head \o s.chain \o Zeros(IF s.pos THEN 12 ELSE 0)
  BY Zenon DEF Encode
<1>2. Zeros(IF s.pos THEN 12 ELSE 0) \in Seq(Byte)
  BY ZerosType
<1>3. QED
  BY <1>1, <1>2, Concat3

\* The size varint of an Opus frame, its length and bit 13 for the last one,
\* is bytes.
LEMMA OpusSize ==
    ASSUME NEW n \in Nat, n < 128, NEW t \in BOOLEAN
    PROVE  Varint(OpusFlag(n, t)) \in Seq(Byte)
<1>1. OpusFlag(n, t) = n + 8192 \/ OpusFlag(n, t) = n
  BY DEF OpusFlag
<1>2. OpusFlag(n, t) \in Int /\ 0 <= OpusFlag(n, t) /\ OpusFlag(n, t) <= 16383
  BY <1>1
<1>3. QED
  BY <1>2, VarintType

\* A legacy Opus voice packet is bytes: the size varint stays below 0x4000.
LEMMA OpusEncode ==
    ASSUME NEW s, s.form = "legacyvoice", s.codec = "Opus",
           s.payload \in Seq(Byte), Len(s.payload) < 128,
           s.term \in BOOLEAN, s.pos \in BOOLEAN,
           <<LegacyKind[s.codec] * 32 + s.target>> \o Varint(s.session)
           \o Varint(s.frame) \in Seq(Byte)
    PROVE  Encode(s) \in Seq(Byte)
<1> DEFINE size == Varint(OpusFlag(Len(s.payload), s.term))
           head == <<LegacyKind[s.codec] * 32 + s.target>> \o Varint(s.session)
                   \o Varint(s.frame)
           pos == Zeros(IF s.pos THEN 12 ELSE 0)
<1>1. Encode(s) = head \o (size \o s.payload) \o pos
  <2>1. Encode(s) = head \o (IF s.codec = "Opus" THEN size \o s.payload ELSE s.chain)
                    \o pos
    BY Zenon DEF Encode
  <2> HIDE DEF head, size, pos
  <2>2. QED
    BY <2>1, Zenon
<1>2. size \in Seq(Byte)
  <2>1. Len(s.payload) \in Nat
    BY LenProperties
  <2>2. QED
    BY <2>1, OpusSize
<1>3. pos \in Seq(Byte) /\ head \in Seq(Byte)
  BY ZerosType
<1> HIDE DEF size, head, pos
<1>4. size \o s.payload \in Seq(Byte)
  BY <1>2, ConcatProperties
<1>5. QED
  BY <1>1, <1>3, <1>4, Concat3

\* The header, session and frame bytes of a legacy voice packet.
VoiceHead(s) ==
    <<LegacyKind[s.codec] * 32 + s.target>> \o Varint(s.session) \o Varint(s.frame)
    \in Seq(Byte)

\* The fields of a legacy voice packet of Packets give a byte header.
LEMMA VoiceHeadOK ==
    ASSUME NEW s, s.codec \in Codecs, s.target \in Targets, s.session \in Sessions,
           s.frame \in FrameNumbers
    PROVE  VoiceHead(s)
<1>1. s.target \in Int /\ 0 <= s.target /\ s.target <= 31
  BY CodecTypes
<1>2. s.session \in Int /\ 0 <= s.session /\ s.session <= 8191
  BY CodecTypes
<1>3. s.frame \in Int /\ 0 <= s.frame /\ s.frame <= 8191
  BY CodecTypes
<1>4. QED
  BY <1>1, <1>2, <1>3, VoiceHeadEncode DEF VoiceHead

\* Whatever a legacy client sends (Send with isLegacy) is a legacy datagram.
LEMMA LegacyEncode ==
    ASSUME NEW s \in Packets, Sendable(s, TRUE)
    PROVE  LegacyDgram(Encode(s))
<1> USE DEF LegacyDgram
<1>1. CASE s \in [form: {"ext"}, ts: Timestamps, size: {12, 24}]
  <2>1. s.form = "ext" /\ s.ts \in Nat /\ s.size \in {12, 24}
    BY <1>1, CodecTypes
  <2>2. QED
    BY <2>1, ExtEncode
<1>2. CASE s \in [form: {"pbping"}, ts: Timestamps]
  <2>1. s.form = "pbping" /\ s.ts \in Int
    BY <1>2, CodecTypes
  <2>2. QED
    BY <2>1, PbPingEncode
<1>3. CASE s \in [form: {"legacyvoice"}, codec: VoiceCodecs \ {"Opus"}, target: Targets,
                  session: Sessions, frame: FrameNumbers, chain: CeltTocs, pos: BOOLEAN]
  <2>1. s.form = "legacyvoice" /\ s.codec \in Codecs \ {"Opus"}
        /\ s.chain \in Seq(Byte) /\ s.pos \in BOOLEAN
    BY <1>3, CodecTypes
  <2>2. VoiceHead(s)
    BY <1>3, <2>1, VoiceHeadOK
  <2>3. QED
    BY <2>1, <2>2, CeltEncode DEF VoiceHead
<1>4. CASE s \in [form: {"legacyvoice"}, codec: VoiceCodecs \cap {"Opus"}, target: Targets,
                  session: Sessions, frame: FrameNumbers, payload: OpusPayloads,
                  term: BOOLEAN, pos: BOOLEAN]
  <2>1. s.form = "legacyvoice" /\ s.codec = "Opus"
        /\ s.term \in BOOLEAN /\ s.pos \in BOOLEAN
    BY <1>4
  <2>2. s.payload \in Seq(Byte) /\ Len(s.payload) < 128
    BY <1>4, CodecTypes
  <2>3. s.codec \in Codecs
    BY <2>1 DEF Codecs, LegacyKind
  <2>4. VoiceHead(s)
    BY <1>4, <2>3, VoiceHeadOK
  <2>5. QED
    BY <2>1, <2>2, <2>4, OpusEncode DEF VoiceHead
<1>5. CASE s \in [form: {"pbaudio"}, target: Targets, session: Sessions,
                  frame: FrameNumbers, payload: OpusPayloads, term: BOOLEAN]
  BY <1>5 DEF Sendable
<1>6. CASE s \in [form: {"raw"}, bytes: RawDatagrams]
  <2>1. s.form = "raw" /\ s.bytes \in Seq(Byte)
    BY <1>6, CodecTypes
  <2>2. Encode(s) = s.bytes
    BY <2>1, Zenon DEF Encode
  <2>3. QED
    BY <2>1, <2>2
<1>7. QED
  BY <1>1, <1>2, <1>3, <1>4, <1>5, <1>6 DEF Packets
-----------------------------------------------------------------------------
(* The inductive invariant behind PingEcho.                                *)

\* A parsed ping is a well-formed Ping; a legacy one is extended and its
\* timestamp a uint64 (read from eight bytes).
PingOK(r) ==
    r.pkt.type = "ping" =>
        /\ r.pkt = Ping(r.pkt.ts, r.pkt.ext) /\ r.pkt.ext \in BOOLEAN
        /\ (r.legacy => r.pkt.ext = TRUE /\ IsUint64(r.pkt.ts))

\* PingEcho, strengthened: what udprecv holds for a legacy client is a legacy
\* datagram; a packet parsed as legacy came from a legacy client; the reply
\* to a ping is its Data in the format ParseUDPPacket reported.
IInv ==
    /\ isLegacy \in BOOLEAN /\ res.legacy \in BOOLEAN
    /\ pc \in {"idle", "sent", "echoed"}
    /\ isLegacy => LegacyDgram(dgram)
    /\ res.legacy => isLegacy
    /\ PingOK(res)
    /\ (pc = "echoed" /\ res.pkt.type = "ping") => reply = Data(res.pkt, res.legacy)
    /\ PingEcho

\* parseAudioPacketLegacy yields no ping, whatever it reads.
LEMMA AudioLegacyNoPing ==
    ASSUME NEW t, NEW c
    PROVE  parseAudioPacketLegacy(t, c).type # "ping"
BY DEF parseAudioPacketLegacy, Nil, Overread, Audio

\* parseAudioPacketProtobuf yields no ping either.
LEMMA AudioProtobufNoPing ==
    ASSUME NEW t
    PROVE  parseAudioPacketProtobuf(t).type # "ping"
BY Zenon DEF parseAudioPacketProtobuf, Nil, Audio

\* A ping parsed from a PingUDP message is well formed.
LEMMA PingProtobufOK ==
    ASSUME NEW t
    PROVE  LET p == parsePingPacketProtobuf(t)
           IN  p.type = "ping" => p = Ping(p.ts, p.ext) /\ p.ext \in BOOLEAN
<1> DEFINE m == UnmarshalPing(t)
<1>1. m = ProtoError \/ m.ext \in BOOLEAN
  BY Zenon DEF UnmarshalPing
<1>2. QED
  BY <1>1, Zenon DEF parsePingPacketProtobuf, Ping, Nil

\* A ping parsePingPacketLegacy reads from a legacy datagram is extended, and
\* its timestamp, Uint64 of eight bytes, a uint64.
LEMMA PingLegacyOK ==
    ASSUME NEW t, LegacyDgram(t)
    PROVE  LET p == parsePingPacketLegacy(t)
           IN  p.type = "ping" => p = Ping(p.ts, TRUE) /\ p.ext = TRUE /\ IsUint64(p.ts)
<1> DEFINE b == SubSeq(t, 5, 12)
<1>1. CASE Len(t) # 12 \/ \E i \in 1..4 : t[i] # 0
  BY <1>1, Zenon DEF parsePingPacketLegacy, Nil
<1>2. CASE ~(Len(t) # 12 \/ \E i \in 1..4 : t[i] # 0)
  <2>1. parsePingPacketLegacy(t) = Ping(LE(b), TRUE)
    BY <1>2, Zenon DEF parsePingPacketLegacy
  <2>0. Len(t) = 12
    BY <1>2
  <2>2. t \in Seq(Byte)
    BY <2>0 DEF LegacyDgram
  <2>3. \A i \in 1..8 : IsByte(b[i])
    <3>1. \A i \in 5..12 : t[i] \in Byte
      <4> SUFFICES ASSUME NEW i \in 5..12 PROVE t[i] \in Byte
        OBVIOUS
      <4>1. i \in 1..Len(t)
        BY <2>0
      <4>2. QED
        BY <2>2, <4>1, ElementOfSeq
    <3>2. \A i \in 1..8 : b[i] = t[4 + i]
      BY <3>1, SubSeqProperties
    <3>3. \A i \in 1..8 : b[i] \in Byte
      BY <3>1, <3>2
    <3>4. \A x \in Byte : IsByte(x)
      BY DEF Byte, IsByte
    <3>5. QED
      BY <3>3, <3>4
  <2>4. IsUint64(LE(b))
    BY <2>3, LEBound
  <2> HIDE DEF b
  <2>5. QED
    BY <2>1, <2>4 DEF Ping
<1>3. QED
  BY <1>1, <1>2

\* The body of a non-empty legacy datagram is a legacy datagram.
LEMMA TailLegacy ==
    ASSUME NEW d, LegacyDgram(d), Len(d) >= 1
    PROVE  LegacyDgram(Tail(d))
<1>1. CASE d \in Seq(Byte)
  BY <1>1, HeadTailProperties DEF LegacyDgram
<1>2. CASE d \in Seq(Int) /\ Len(d) <= 4
  BY <1>2, HeadTailProperties DEF LegacyDgram
<1>3. QED
  BY <1>1, <1>2 DEF LegacyDgram

\* ParseUDPPacket reports a legacy packet only in legacy mode, and the ping
\* it returns from a legacy client's datagram, or from any datagram in
\* protobuf mode, satisfies PingOK.
LEMMA ParseOK ==
    ASSUME NEW d, NEW l \in BOOLEAN, l => LegacyDgram(d)
    PROVE  LET r == ParseUDPPacket(d, l)
           IN  r.legacy \in BOOLEAN /\ (r.legacy => l) /\ PingOK(r)
<1> DEFINE r == ParseUDPPacket(d, l)
           kind == (d[1] \div 32) % 8
           pb == parsePingPacketProtobuf(Tail(d))
<1> SUFFICES r.legacy \in BOOLEAN /\ (r.legacy => l) /\ PingOK(r)
  OBVIOUS
<1> USE DEF Result
<1>1. CASE Len(d) < 1
  <2>1. r = Result(Nil, l)
    BY <1>1, Zenon DEF ParseUDPPacket
  <2>2. QED
    BY <2>1 DEF PingOK, Nil
<1>2. CASE ~(Len(d) < 1) /\ l /\ d[1] = UDPPacketPing
  <2>1. r = Result(pb, FALSE)
    BY <1>2, Zenon DEF ParseUDPPacket
  <2>2. pb.type = "ping" => pb = Ping(pb.ts, pb.ext) /\ pb.ext \in BOOLEAN
    BY PingProtobufOK
  <2>3. QED
    BY <2>1, <2>2 DEF PingOK
<1>3. CASE /\ ~(Len(d) < 1) /\ l /\ d[1] # UDPPacketPing
           /\ Len(d) \in {12, 24} /\ parsePingPacketLegacy(d) # Nil
  <2> DEFINE p == parsePingPacketLegacy(d)
  <2>1. r = Result(p, TRUE)
    BY <1>3, Zenon DEF ParseUDPPacket
  <2>2. p.type = "ping" => p = Ping(p.ts, TRUE) /\ p.ext = TRUE /\ IsUint64(p.ts)
    BY <1>3, PingLegacyOK
  <2> HIDE DEF r, p
  <2>3. QED
    BY <1>3, <2>1, <2>2 DEF PingOK
<1>4. CASE /\ ~(Len(d) < 1) /\ l /\ d[1] # UDPPacketPing
           /\ ~(Len(d) \in {12, 24} /\ parsePingPacketLegacy(d) # Nil)
  <2> DEFINE p == parsePingPacketLegacy(Tail(d))
             a == parseAudioPacketLegacy(Tail(d), KindCodec[kind])
  <2>1. r = Result(p, TRUE) \/ r = Result(a, TRUE) \/ r = Result(Nil, l)
    <3> DEFINE c == CASE kind = UDPMessagePing -> Result(p, TRUE)
                      [] kind \in DOMAIN KindCodec -> Result(a, TRUE)
                      [] OTHER -> Result(Nil, l)
    <3>1. r = c
      BY <1>4, Zenon DEF ParseUDPPacket
    <3>2. DOMAIN KindCodec = {0, 2, 3, 4}
      BY DEF KindCodec
    <3> HIDE DEF r, p, a
    <3>3. c = Result(p, TRUE) \/ c = Result(a, TRUE) \/ c = Result(Nil, l)
      <4>1. CASE kind = UDPMessagePing
        BY <3>2, <4>1 DEF UDPMessagePing
      <4>2. CASE kind # UDPMessagePing /\ kind \in DOMAIN KindCodec
        BY <4>2
      <4>3. CASE kind # UDPMessagePing /\ kind \notin DOMAIN KindCodec
        BY <4>3
      <4>4. QED
        BY <4>1, <4>2, <4>3
    <3>4. QED
      BY <3>1, <3>3
  <2>2. p.type = "ping" => p = Ping(p.ts, TRUE) /\ p.ext = TRUE /\ IsUint64(p.ts)
    <3>1. LegacyDgram(Tail(d))
      BY <1>4, TailLegacy
    <3>2. QED
      BY <3>1, PingLegacyOK
  <2>3. a.type # "ping"
    BY AudioLegacyNoPing
  <2> HIDE DEF r, p, a
  <2>4. CASE r = Result(p, TRUE)
    BY <1>4, <2>2, <2>4, Zenon DEF PingOK
  <2>5. CASE r = Result(a, TRUE)
    BY <1>4, <2>3, <2>5 DEF PingOK
  <2>6. CASE r = Result(Nil, l)
    BY <2>6 DEF PingOK, Nil
  <2>7. QED
    BY <2>1, <2>4, <2>5, <2>6
<1>5. CASE ~(Len(d) < 1) /\ ~l
  <2> DEFINE a == parseAudioPacketProtobuf(Tail(d))
  <2>1. r = Result(pb, FALSE) \/ r = Result(a, FALSE) \/ r = Result(Nil, l)
    <3> DEFINE c == CASE d[1] = UDPPacketPing -> Result(pb, FALSE)
                      [] d[1] = UDPPacketAudio -> Result(a, FALSE)
                      [] OTHER -> Result(Nil, l)
    <3>1. r = c
      BY <1>5, Zenon DEF ParseUDPPacket
    <3> HIDE DEF r, pb, a
    <3>2. c = Result(pb, FALSE) \/ c = Result(a, FALSE) \/ c = Result(Nil, l)
      <4>1. CASE d[1] = UDPPacketPing
        BY <4>1
      <4>2. CASE d[1] # UDPPacketPing /\ d[1] = UDPPacketAudio
        BY <4>2
      <4>3. CASE d[1] # UDPPacketPing /\ d[1] # UDPPacketAudio
        BY <4>3
      <4>4. QED
        BY <4>1, <4>2, <4>3
    <3>3. QED
      BY <3>1, <3>2
  <2>2. pb.type = "ping" => pb = Ping(pb.ts, pb.ext) /\ pb.ext \in BOOLEAN
    BY PingProtobufOK
  <2>3. a.type # "ping"
    BY AudioProtobufNoPing
  <2> HIDE DEF r, pb, a
  <2>4. CASE r = Result(pb, FALSE)
    BY <2>2, <2>4, Zenon DEF PingOK
  <2>5. CASE r = Result(a, FALSE)
    BY <2>3, <2>5 DEF PingOK
  <2>6. CASE r = Result(Nil, l)
    BY <2>6 DEF PingOK, Nil
  <2>7. QED
    BY <2>1, <2>4, <2>5, <2>6
<1>6. QED
  BY <1>1, <1>2, <1>3, <1>4, <1>5

\* A header byte in front of a body: the header is the first element and
\* Tail gives the body back.
LEMMA TailCons ==
    ASSUME NEW S, NEW x \in S, NEW m \in Seq(S)
    PROVE  /\ <<x>> \o m \in Seq(S) /\ Len(<<x>> \o m) = 1 + Len(m)
           /\ (<<x>> \o m)[1] = x /\ Tail(<<x>> \o m) = m
<1> DEFINE d == <<x>> \o m
<1>1. <<x>> \in Seq(S) /\ Len(<<x>>) = 1
  OBVIOUS
<1>2. d \in Seq(S) /\ Len(d) = 1 + Len(m)
      /\ \A i \in 1..1 + Len(m) : d[i] = IF i <= 1 THEN <<x>>[i] ELSE m[i - 1]
  BY <1>1, ConcatProperties
<1>3. d # <<>>
  BY <1>2
<1>4. Tail(d) \in Seq(S) /\ Len(Tail(d)) = Len(m)
      /\ \A i \in 1..Len(Tail(d)) : Tail(d)[i] = d[i + 1]
  BY <1>2, <1>3, HeadTailProperties
<1>5. \A i \in 1..Len(m) : Tail(d)[i] = m[i]
  BY <1>2, <1>4
<1>6. Tail(d) = m
  BY <1>4, <1>5, SeqEqual
<1>7. QED
  BY <1>2, <1>6

\* A protobuf ping reply is parsed back, in either mode, as the ping it was:
\* PingProtobufData and parsePingPacketProtobuf agree.
LEMMA EchoProtobuf ==
    ASSUME NEW q, q = Ping(q.ts, q.ext), q.ext \in BOOLEAN, NEW l \in BOOLEAN
    PROVE  ParseUDPPacket(PingProtobufData(q), l).pkt = q
<1> DEFINE m == MarshalPing(q)
           data == <<UDPPacketPing>> \o m
<1>1. m \in Seq({UDPPacketPing, PbPing, q.ts, 0})
  <2>1. CASE q.ts = 0 /\ ~q.ext
    BY <2>1 DEF MarshalPing
  <2>2. CASE ~(q.ts = 0 /\ ~q.ext)
    <3>1. m = <<PbPing, q.ts, IF q.ext THEN 1 ELSE 0>>
      BY <2>2 DEF MarshalPing
    <3>2. (IF q.ext THEN 1 ELSE 0) \in {UDPPacketPing, PbPing, q.ts, 0}
      BY DEF UDPPacketPing
    <3> HIDE DEF m
    <3>3. QED
      BY <3>1, <3>2
  <2>3. QED
    BY <2>1, <2>2
<1>2. Len(data) = 1 + Len(m) /\ data[1] = UDPPacketPing /\ Tail(data) = m
  <2>1. UDPPacketPing \in {UDPPacketPing, PbPing, q.ts, 0}
    OBVIOUS
  <2> HIDE DEF m
  <2>2. QED
    BY <1>1, <2>1, TailCons
<1>3. parsePingPacketProtobuf(m) = q
  <2>1. CASE q.ts = 0 /\ ~q.ext
    <3>1. m = <<>>
      BY <2>1 DEF MarshalPing
    <3>2. UnmarshalPing(m) = [ts |-> 0, ext |-> FALSE]
      BY <3>1 DEF UnmarshalPing
    <3>3. QED
      BY <2>1, <3>2 DEF parsePingPacketProtobuf, ProtoError, Ping
  <2>2. CASE ~(q.ts = 0 /\ ~q.ext)
    <3>1. m = <<PbPing, q.ts, IF q.ext THEN 1 ELSE 0>>
      BY <2>2 DEF MarshalPing
    <3>2. UnmarshalPing(m) = [ts |-> q.ts, ext |-> q.ext]
      BY <3>1 DEF UnmarshalPing, PbPing, PbAudio
    <3>3. QED
      BY <3>2 DEF parsePingPacketProtobuf, ProtoError, Ping
  <2>3. QED
    BY <2>1, <2>2
<1>4. ParseUDPPacket(data, l) = Result(parsePingPacketProtobuf(m), FALSE)
  <2>1. ~(Len(data) < 1)
    BY <1>1, <1>2, LenProperties
  <2> HIDE DEF data, m
  <2>2. CASE l
    BY <1>2, <2>1, <2>2, Zenon DEF ParseUDPPacket
  <2>3. CASE ~l
    <3>1. UDPPacketPing # UDPPacketAudio
      BY DEF UDPPacketPing, UDPPacketAudio
    <3>2. QED
      BY <1>2, <2>1, <2>3, <3>1, Zenon DEF ParseUDPPacket
  <2>4. QED
    BY <2>2, <2>3
<1>5. QED
  BY <1>3, <1>4 DEF PingProtobufData, Result

\* A legacy ping reply is parsed back by a legacy client as the ping it was:
\* PingLegacyData writes the kind in the top three bits, four zero bytes and
\* AppendUint64 of the timestamp, which parsePingPacketLegacy reads back.
LEMMA EchoLegacy ==
    ASSUME NEW q, q = Ping(q.ts, TRUE), IsUint64(q.ts)
    PROVE  ParseUDPPacket(PingLegacyData(q), TRUE).pkt = q
<1> DEFINE lb == LEBytes(q.ts)
           z == Zeros(4)
           body == z \o lb
           data == <<32>> \o body
<1>1. lb \in Seq(Byte) /\ Len(lb) = 8 /\ z \in Seq(Byte) /\ Len(z) = 4
      /\ \A i \in 1..4 : z[i] = 0
  <2>1. lb \in Seq(Byte) /\ Len(lb) = 8
    BY LEBytesType DEF IsUint64
  <2>2. z \in Seq(Byte) /\ Len(z) = 4 /\ \A i \in 1..4 : z[i] = 0
    BY ZerosType DEF Zeros
  <2>3. QED
    BY <2>1, <2>2
<1> HIDE DEF lb, z
<1>2. /\ body \in Seq(Byte) /\ Len(body) = 12
      /\ \A i \in 1..4 : body[i] = 0
      /\ \A j \in 1..8 : body[4 + j] = lb[j]
  <2>1. /\ body \in Seq(Byte) /\ Len(body) = Len(z) + Len(lb)
        /\ \A i \in 1..Len(z) + Len(lb) :
              body[i] = IF i <= Len(z) THEN z[i] ELSE lb[i - Len(z)]
    BY <1>1, ConcatProperties
  <2> HIDE DEF body
  <2>2. Len(body) = 12
    BY <1>1, <2>1
  <2>3. \A i \in 1..4 : body[i] = 0
    BY <1>1, <2>1
  <2>4. \A j \in 1..8 : body[4 + j] = lb[j]
    BY <1>1, <2>1
  <2>5. QED
    BY <2>1, <2>2, <2>3, <2>4
<1>3. PingLegacyData(q) = data
  <2>1. PingLegacyData(q) = (<<32>> \o z) \o lb
    BY DEF PingLegacyData, UDPMessagePing, lb, z
  <2>2. <<32>> \in Seq(Byte)
    BY DEF Byte
  <2>3. QED
    BY <1>1, <2>1, <2>2, ConcatAssociative
<1> HIDE DEF body
<1>4. Len(data) = 13 /\ data[1] = 32 /\ Tail(data) = body
  <2>1. 32 \in Byte
    BY DEF Byte
  <2>2. \A x \in Byte, m \in Seq(Byte) :
            Len(<<x>> \o m) = 1 + Len(m) /\ (<<x>> \o m)[1] = x /\ Tail(<<x>> \o m) = m
    BY TailCons
  <2>3. Len(data) = 1 + Len(body) /\ data[1] = 32 /\ Tail(data) = body
    BY <1>2, <2>1, <2>2 DEF data
  <2>4. QED
    BY <1>2, <2>3
<1> HIDE DEF data
<1>5. ParseUDPPacket(data, TRUE) = Result(parsePingPacketLegacy(body), TRUE)
  <2> DEFINE kind == (data[1] \div 32) % 8
             c == CASE kind = UDPMessagePing ->
                         Result(parsePingPacketLegacy(Tail(data)), TRUE)
                    [] kind \in DOMAIN KindCodec ->
                         Result(parseAudioPacketLegacy(Tail(data), KindCodec[kind]), TRUE)
                    [] OTHER -> Result(Nil, TRUE)
  <2>1. ~(Len(data) < 1) /\ data[1] # UDPPacketPing /\ Len(data) \notin {12, 24}
    BY <1>4 DEF UDPPacketPing
  <2>2. ParseUDPPacket(data, TRUE) = c
    BY <2>1, Zenon DEF ParseUDPPacket
  <2>3. kind = UDPMessagePing
    BY <1>4 DEF UDPMessagePing
  <2>4. kind \notin DOMAIN KindCodec
    <3>1. DOMAIN KindCodec = {0, 2, 3, 4}
      BY DEF KindCodec
    <3>2. QED
      BY <2>3, <3>1 DEF UDPMessagePing
  <2>5. c = Result(parsePingPacketLegacy(Tail(data)), TRUE)
    BY <2>3, <2>4
  <2>6. QED
    BY <1>4, <2>2, <2>5
<1>6. parsePingPacketLegacy(body) = Ping(LE(SubSeq(body, 5, 12)), TRUE)
  BY <1>2 DEF parsePingPacketLegacy
<1>7. LE(SubSeq(body, 5, 12)) = LE(lb)
  <2>1. \A i \in 5..12 : body[i] \in Byte
    <3> SUFFICES ASSUME NEW i \in 5..12 PROVE body[i] \in Byte
      OBVIOUS
    <3>1. i \in 1..Len(body)
      BY <1>2
    <3>2. QED
      BY <1>2, <3>1, ElementOfSeq
  <2>2. \A j \in 1..8 : SubSeq(body, 5, 12)[j] = lb[j]
    <3>1. \A j \in 1..8 : SubSeq(body, 5, 12)[j] = body[4 + j]
      BY <2>1, SubSeqProperties
    <3>2. QED
      BY <1>2, <3>1
  <2>3. QED
    BY <2>2 DEF LE
<1>8. LE(lb) = q.ts
  BY LERoundTrip DEF lb
<1>9. ParseUDPPacket(PingLegacyData(q), TRUE).pkt = parsePingPacketLegacy(body)
  <2>1. ParseUDPPacket(PingLegacyData(q), TRUE)
        = Result(parsePingPacketLegacy(body), TRUE)
    BY <1>3, <1>5, Zenon
  <2>2. Result(parsePingPacketLegacy(body), TRUE).pkt = parsePingPacketLegacy(body)
    BY DEF Result
  <2>3. QED
    BY <2>1, <2>2, Zenon
<1>10. parsePingPacketLegacy(body) = Ping(q.ts, TRUE)
  BY <1>6, <1>7, <1>8
<1>11. QED
  BY <1>9, <1>10

\* The reply udpRecvLoop sends to a ping, in the format ParseUDPPacket
\* reported, is parsed by the client, in its mode, as that ping.
LEMMA EchoOK ==
    ASSUME NEW r, PingOK(r), r.pkt.type = "ping", r.legacy \in BOOLEAN,
           NEW l \in BOOLEAN, r.legacy => l
    PROVE  ParseUDPPacket(Data(r.pkt, r.legacy), l).pkt = r.pkt
<1>1. r.pkt = Ping(r.pkt.ts, r.pkt.ext) /\ r.pkt.ext \in BOOLEAN
  BY DEF PingOK
<1>2. CASE r.legacy
  <2>1. Data(r.pkt, r.legacy) = PingLegacyData(r.pkt)
    BY <1>2, Zenon DEF Data
  <2>2. l = TRUE /\ r.pkt.ext = TRUE /\ IsUint64(r.pkt.ts)
    BY <1>2 DEF PingOK
  <2>3. r.pkt = Ping(r.pkt.ts, TRUE)
    BY <1>1, <2>2
  <2>4. QED
    BY <2>1, <2>2, <2>3, EchoLegacy
<1>3. CASE ~r.legacy
  <2>1. Data(r.pkt, r.legacy) = PingProtobufData(r.pkt)
    BY <1>3, Zenon DEF Data
  <2>2. QED
    BY <1>1, <2>1, EchoProtobuf
<1>4. QED
  BY <1>2, <1>3

-----------------------------------------------------------------------------
(* IInv is inductive.                                                      *)

\* The initial state: nothing parsed, an empty datagram.
LEMMA InitIInv == Init => IInv
<1> SUFFICES ASSUME Init PROVE IInv
  OBVIOUS
<1>1. <<>> \in Seq(Byte)
  OBVIOUS
<1>2. QED
  BY <1>1 DEF Init, IInv, LegacyDgram, PingOK, PingEcho, Result, Nil

\* Send: a legacy client's datagram is a legacy datagram (LegacyEncode).
LEMMA SendIInv == IInv /\ Send => IInv'
<1> SUFFICES ASSUME IInv, Send PROVE IInv'
  OBVIOUS
<1>1. PICK l \in BOOLEAN, s \in Packets :
          /\ Sendable(s, l)
          /\ sent' = s /\ isLegacy' = l /\ dgram' = Encode(s)
          /\ res' = Result(Nil, l) /\ echo' = Result(Nil, l)
  BY DEF Send
<1>2. l => LegacyDgram(Encode(s))
  BY <1>1, LegacyEncode
<1>3. pc' = "sent"
  BY DEF Send
<1>4. QED
  BY <1>1, <1>2, <1>3 DEF IInv, PingOK, PingEcho, Result, Nil

\* A parse of the datagram in udprecv: the result satisfies PingOK and is
\* legacy only for a legacy client (ParseOK).
LEMMA RecvParse ==
    ASSUME IInv, res' = ParseUDPPacket(dgram, isLegacy)
    PROVE  res'.legacy \in BOOLEAN /\ (res'.legacy => isLegacy) /\ PingOK(res')
<1>1. isLegacy \in BOOLEAN /\ (isLegacy => LegacyDgram(dgram))
  BY DEF IInv
<1>2. QED
  BY <1>1, ParseOK

\* UdpRecvDrop and UdpRecvBroadcast: the loop goes back to udprecv with a
\* packet that is no ping.
LEMMA DropIInv == IInv /\ (UdpRecvDrop \/ UdpRecvBroadcast) => IInv'
<1> SUFFICES ASSUME IInv, UdpRecvDrop \/ UdpRecvBroadcast PROVE IInv'
  OBVIOUS
<1>1. res' = ParseUDPPacket(dgram, isLegacy) /\ res'.pkt.type # "ping"
      /\ pc' = "idle" /\ UNCHANGED <<isLegacy, dgram>>
  BY DEF UdpRecvDrop, UdpRecvBroadcast
<1>2. res'.legacy \in BOOLEAN /\ (res'.legacy => isLegacy) /\ PingOK(res')
  BY <1>1, RecvParse
<1>3. QED
  BY <1>1, <1>2 DEF IInv, PingEcho

\* UdpRecvEcho: the reply to a ping is its Data in the reported format.
LEMMA EchoIInv == IInv /\ UdpRecvEcho => IInv'
<1> SUFFICES ASSUME IInv, UdpRecvEcho PROVE IInv'
  OBVIOUS
<1>1. res' = ParseUDPPacket(dgram, isLegacy) /\ pc' = "echoed"
      /\ UNCHANGED <<isLegacy, dgram>>
  BY DEF UdpRecvEcho
<1>2. res'.legacy \in BOOLEAN /\ (res'.legacy => isLegacy) /\ PingOK(res')
  BY <1>1, RecvParse
<1>3. res'.pkt.type = "ping" => reply' = Data(res'.pkt, res'.legacy)
  BY Zenon DEF UdpRecvEcho
<1>4. QED
  BY <1>1, <1>2, <1>3 DEF IInv, PingEcho

\* ClientRecv: the client parses the reply to a ping as that ping (EchoOK).
LEMMA ClientRecvIInv == IInv /\ ClientRecv => IInv'
<1> SUFFICES ASSUME IInv, ClientRecv PROVE IInv'
  OBVIOUS
<1>1. echo' = ParseUDPPacket(reply, isLegacy) /\ pc = "echoed" /\ pc' = "idle"
      /\ UNCHANGED <<isLegacy, dgram, res, reply>>
  BY DEF ClientRecv
<1>2. res.pkt.type = "ping" => echo'.pkt = res.pkt
  <2> SUFFICES ASSUME res.pkt.type = "ping" PROVE echo'.pkt = res.pkt
    OBVIOUS
  <2>1. reply = Data(res.pkt, res.legacy)
    BY <1>1 DEF IInv
  <2>2. PingOK(res) /\ res.legacy \in BOOLEAN /\ (res.legacy => isLegacy)
        /\ isLegacy \in BOOLEAN
    BY DEF IInv
  <2>3. QED
    BY <1>1, <2>1, <2>2, EchoOK
<1>3. QED
  BY <1>1, <1>2 DEF IInv, PingEcho

\* IInv holds in every reachable state.
LEMMA IInvInvariant == Spec => []IInv
<1>1. IInv /\ [Next]_vars => IInv'
  <2> SUFFICES ASSUME IInv, [Next]_vars PROVE IInv'
    OBVIOUS
  <2>1. CASE Send
    BY <2>1, SendIInv
  <2>2. CASE UdpRecvDrop \/ UdpRecvBroadcast
    BY <2>2, DropIInv
  <2>3. CASE UdpRecvEcho
    BY <2>3, EchoIInv
  <2>4. CASE ClientRecv
    BY <2>4, ClientRecvIInv
  <2>5. CASE UNCHANGED vars
    BY <2>5 DEF vars, IInv, PingOK, PingEcho, LegacyDgram
  <2>6. QED
    BY <2>1, <2>2, <2>3, <2>4, <2>5 DEF Next
<1>2. QED
  BY <1>1, InitIInv, PTL DEF Spec

\* PingEcho for every choice of the packet constants: a ping udpRecvLoop
\* echoes (PingPacket.LegacyData or ProtobufData, chosen by the legacy flag
\* ParseUDPPacket returned) is parsed back by the client as the same ping.
THEOREM PingEchoHolds == Spec => []PingEcho
<1>1. IInv => PingEcho
  BY DEF IInv
<1>2. QED
  BY <1>1, IInvInvariant, PTL
====
