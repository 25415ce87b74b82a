------------------------------ MODULE UdpCodec ------------------------------
(***************************************************************************)
(* The mumbleproto UDP packet codec of src/tlsserver.go (89-388) and the   *)
(* use udpRecvLoop makes of it (part_000 330-376): a client sends one      *)
(* datagram, the loop parses it with ParseUDPPacket, echoes pings and      *)
(* loopback voice with Data(legacy), and the client parses the echo.       *)
(*                                                                         *)
(* A datagram is a sequence of byte values.  The packetdata cursor is a    *)
(* record [buf, off, ok] (Size() = off, Left() = Len(buf) - off).  A       *)
(* serialized protobuf message is abstracted to a tag symbol (PbPing,      *)
(* PbAudio, outside the byte alphabet of raw datagrams) followed by its    *)
(* field values; proto3 encodes an all-default message as no bytes.       *)
(***************************************************************************)
EXTENDS Integers, Sequences

CONSTANTS
    Targets,      \* values of the 5-bit target/context field
    Sessions,     \* client session ids
    FrameNumbers, \* voice frame counters
    Timestamps,   \* ping timestamps
    VoiceCodecs,  \* codecs of the legacy voice packets sent
    OpusPayloads, \* Opus payloads (byte sequences)
    CeltTocs,     \* CELT/Speex frame chains, each frame behind its TOC byte
    RawDatagrams  \* arbitrary datagrams, as a hostile or broken peer sends

\* Symbols that stand for a serialized PingUDP / AudioUDP message.
PbPing == 250
PbAudio == 251

\* The 5-bit target field, the codecs of the legacy header, and values of the
\* one- and two-byte varint forms.
ASSUME FieldAssumption ==
    /\ Targets \subseteq 0..31
    /\ VoiceCodecs \subseteq {"CELTAlpha", "Speex", "CELTBeta", "Opus"}
    /\ Sessions \subseteq 0..8191 /\ FrameNumbers \subseteq 0..8191
    /\ Timestamps \subseteq 0..8191

\* Payloads, TOC chains and datagrams are byte slices; an Opus payload fits
\* the 13-bit size field; no protobuf symbol in raw data.
ASSUME BytesAssumption ==
    /\ OpusPayloads \subseteq Seq(0..255) /\ \A p \in OpusPayloads : Len(p) < 128
    /\ CeltTocs \subseteq Seq(0..255)
    /\ RawDatagrams \subseteq Seq(0..191)

-----------------------------------------------------------------------------
(* Constants of lines 100-118 and the legacy message kinds (top 3 bits).   *)
UDPPacketAudio == 0
UDPPacketPing == 1
TargetServerLoopback == 31
UDPMessagePing == 1
LegacyKind == [CELTAlpha |-> 0, Speex |-> 2, CELTBeta |-> 3, Opus |-> 4]
Codecs == DOMAIN LegacyKind
KindCodec == [k \in {0, 2, 3, 4} |-> CHOOSE c \in Codecs : LegacyKind[c] = k]

Nil == [type |-> "nil"]
\* A slice past len(data): a panic when cap = len (the tunnelled buffer of
\* readProtoMessage), bytes of an earlier datagram on the socket buffer.
Overread == [type |-> "overread"]

\* binary.LittleEndian.Uint64: b[1] | b[2] << 8 | ... | b[8] << 56.
LE(b) ==
    b[1] + 256 * (b[2] + 256 * (b[3] + 256 * (b[4]
         + 256 * (b[5] + 256 * (b[6] + 256 * (b[7] + 256 * b[8]))))))
\* binary.LittleEndian.AppendUint64: byte(v), byte(v >> 8), ..., byte(v >> 56).
LEBytes(v) ==
    LET v1 == v \div 256   v2 == v1 \div 256  v3 == v2 \div 256  v4 == v3 \div 256
        v5 == v4 \div 256  v6 == v5 \div 256  v7 == v6 \div 256
    IN  <<v % 256, v1 % 256, v2 % 256, v3 % 256, v4 % 256, v5 % 256, v6 % 256,
          v7 % 256>>
Zeros(k) == [i \in 1..k |-> 0]

(* packetdata: a cursor over a byte slice with a validity flag.            *)
Cursor(b) == [buf |-> b, off |-> 0, ok |-> TRUE]
Left(c) == Len(c.buf) - c.off
Next8Val(c) == IF Left(c) > 0 THEN c.buf[c.off + 1] ELSE 0
Next8(c) == IF Left(c) > 0 THEN [c EXCEPT !.off = @ + 1] ELSE [c EXCEPT !.ok = FALSE]
Skip(c, n) == IF Left(c) >= n THEN [c EXCEPT !.off = @ + n] ELSE [c EXCEPT !.ok = FALSE]
\* GetUint64: the one- and two-byte varint forms (first byte < 0xC0).
VarVal(c) == IF Next8Val(c) < 128 THEN Next8Val(c)
             ELSE (Next8Val(c) - 128) * 256 + Next8Val(Next8(c))
Var(c) == IF Next8Val(c) < 128 THEN Next8(c) ELSE Next8(Next8(c))
\* PutUint32/PutUint64 for values below 0x4000.
Varint(n) == IF n < 128 THEN <<n>> ELSE <<128 + n \div 256, n % 256>>

(* proto.Marshal / proto.Unmarshal of PingUDP and AudioUDP.                *)
MarshalPing(p) == IF p.ts = 0 /\ ~p.ext THEN <<>>
                  ELSE <<PbPing, p.ts, IF p.ext THEN 1 ELSE 0>>
MarshalAudio(a) == <<PbAudio, a.target, a.session, a.frame, IF a.term THEN 1 ELSE 0>>
                   \o a.payload
\* An empty buffer or one of the other message type decodes to the default
\* message (unknown fields are skipped); raw bytes are not a valid encoding.
ProtoError == [error |-> TRUE]
UnmarshalPing(b) ==
    CASE b = <<>> \/ b[1] = PbAudio -> [ts |-> 0, ext |-> FALSE]
      [] b[1] = PbPing /\ Len(b) = 3 -> [ts |-> b[2], ext |-> b[3] = 1]
      [] OTHER -> ProtoError
UnmarshalAudio(b) ==
    CASE b = <<>> \/ b[1] = PbPing ->
            [target |-> 0, session |-> 0, frame |-> 0, term |-> FALSE, opus |-> <<>>]
      [] b[1] = PbAudio /\ Len(b) >= 5 ->
            [target |-> b[2], session |-> b[3], frame |-> b[4], term |-> b[5] = 1,
             opus |-> SubSeq(b, 6, Len(b))]
      [] OTHER -> ProtoError

-----------------------------------------------------------------------------
(* Parsed packets.                                                         *)
Ping(ts, ext) == [type |-> "ping", ts |-> ts, ext |-> ext]
Audio(codec, target, session, frame, payload, term, pos) ==
    [type |-> "audio", codec |-> codec, target |-> target, session |-> session,
     frame |-> frame, payload |-> payload, term |-> term, pos |-> pos]

\* parsePingPacketLegacy: 12 bytes, the first uint32 zero.
parsePingPacketLegacy(data) ==
    IF Len(data) # 12 \/ \E i \in 1..4 : data[i] # 0 THEN Nil
    ELSE Ping(LE(SubSeq(data, 5, 12)), TRUE)

parsePingPacketProtobuf(data) ==
    LET m == UnmarshalPing(data)
    IN  IF m = ProtoError THEN Nil ELSE Ping(m.ts, m.ext)

\* The CELT/Speex TOC chain: each flag byte holds a frame length (0x7f) and
\* a continuation bit (0x80); a zero length marks the terminator.
\* The loop runs at most once per byte left and once more, so Len(c.buf) + 1
\* iterations of it[] reach its break.
TocLoop(c) ==
    LET iter(st) ==
            LET flag == Next8Val(st.cur)
                fs   == flag % 128
                c2   == Skip(Next8(st.cur), fs)
            IN  [cur |-> c2, size |-> st.size + fs, term |-> st.term \/ fs = 0,
                 done |-> flag < 128 \/ ~c2.ok]
        it[j \in 0..Len(c.buf)] ==
            IF j = 0 THEN iter([cur |-> c, size |-> 0, term |-> FALSE])
            ELSE LET st == it[j - 1] IN IF st.done THEN st ELSE iter(st)
    IN  it[Len(c.buf)]

\* parseAudioPacketLegacy(data, codec), data being the datagram after the
\* header byte.
parseAudioPacketLegacy(data, codec) ==
    LET c1     == Var(Cursor(Tail(data)))             \* after GetUint64
        frame  == VarVal(Cursor(Tail(data)))
        toc    == TocLoop(c1)
        osize  == VarVal(c1) % 65536                   \* GetUint16
        copus  == Skip(Var(c1), osize % 8192)
        isOpus == codec = "Opus"
        end    == IF isOpus THEN copus ELSE toc.cur
        offset == IF isOpus THEN copus.off ELSE c1.off
        psize  == IF isOpus THEN osize % 8192 ELSE toc.size
        term   == IF isOpus THEN (osize \div 8192) % 2 = 1 ELSE toc.term
        audio(pos) == Audio(codec, data[1] % 32, 0, frame,
                            SubSeq(data, 2 + offset, 1 + offset + psize), term, pos)
    IN  IF Len(data) < 3 \/ ~end.ok THEN Nil
        ELSE IF 1 + offset + psize > Len(data) THEN Overread
        ELSE IF Left(end) = 12 THEN audio(TRUE)
        ELSE IF Left(end) > 0 THEN Nil
        ELSE audio(FALSE)

parseAudioPacketProtobuf(data) ==
    LET m == UnmarshalAudio(data)
    IN  IF m = ProtoError \/ m.opus = <<>> THEN Nil
        ELSE Audio("Opus", m.target % 256, m.session, m.frame, m.opus, m.term, FALSE)

\* ParseUDPPacket(data, isLegacy): the packet and whether it was legacy.
Result(pkt, legacy) == [pkt |-> pkt, legacy |-> legacy]
ParseUDPPacket(data, isLegacy) ==
    IF Len(data) < 1 THEN Result(Nil, isLegacy)
    ELSE LET header == data[1]
             kind   == (header \div 32) % 8
         IN  IF isLegacy
             THEN IF header = UDPPacketPing
                  THEN Result(parsePingPacketProtobuf(Tail(data)), FALSE)
                  ELSE IF Len(data) \in {12, 24} /\ parsePingPacketLegacy(data) # Nil
                  THEN Result(parsePingPacketLegacy(data), TRUE)
                  ELSE CASE kind = UDPMessagePing ->
                              Result(parsePingPacketLegacy(Tail(data)), TRUE)
                         [] kind \in DOMAIN KindCodec ->
                              Result(parseAudioPacketLegacy(Tail(data), KindCodec[kind]), TRUE)
                         [] OTHER -> Result(Nil, isLegacy)
             ELSE CASE header = UDPPacketPing ->
                        Result(parsePingPacketProtobuf(Tail(data)), FALSE)
                    [] header = UDPPacketAudio ->
                        Result(parseAudioPacketProtobuf(Tail(data)), FALSE)
                    [] OTHER -> Result(Nil, isLegacy)

-----------------------------------------------------------------------------
(* Emission.                                                               *)
\* Mutant: the ping kind written to the header without the shift (<< 5).
PingLegacyDataNoShift(p) == <<UDPMessagePing>> \o Zeros(4) \o LEBytes(p.ts)

PingLegacyData(p) ==
    <<UDPMessagePing * 32>> \o Zeros(4) \o LEBytes(p.ts)

PingProtobufData(p) == <<UDPPacketPing>> \o MarshalPing(p)

\* The Opus size field: the payload length, with 0x2000 set on the last frame.
OpusFlag(len, term) == len + (IF term THEN 8192 ELSE 0)

\* The header carries the kind only; positional data is not written.
AudioLegacyData(a) ==
    <<LegacyKind[a.codec] * 32>> \o Varint(a.session) \o Varint(a.frame)
    \o (IF a.codec = "Opus"
        THEN Varint(OpusFlag(Len(a.payload), a.term))
        ELSE <<>>)
    \o a.payload

AudioProtobufData(a) == <<UDPPacketPing>> \o MarshalAudio(a)

\* Data(legacy): the format of the recipient.
Data(p, legacy) ==
    CASE p.type = "ping" /\ legacy  -> PingLegacyData(p)
      [] p.type = "ping" /\ ~legacy -> PingProtobufData(p)
      [] p.type # "ping" /\ legacy  -> AudioLegacyData(p)
      [] OTHER                      -> AudioProtobufData(p)

-----------------------------------------------------------------------------
(* What clients send, built by the spec's framing (section 4.b): a legacy *)
(* voice header holds the kind and the target, the body a varint session,  *)
(* a varint frame counter, the codec frames and 12 optional bytes of       *)
(* positional data; an extended ping is four zero bytes and a timestamp.   *)
Packets ==
    [form: {"ext"}, ts: Timestamps, size: {12, 24}]
    \cup [form: {"pbping"}, ts: Timestamps]
    \cup [form: {"legacyvoice"}, codec: VoiceCodecs \ {"Opus"}, target: Targets,
          session: Sessions, frame: FrameNumbers, chain: CeltTocs, pos: BOOLEAN]
    \cup [form: {"legacyvoice"}, codec: VoiceCodecs \cap {"Opus"}, target: Targets,
          session: Sessions, frame: FrameNumbers, payload: OpusPayloads,
          term: BOOLEAN, pos: BOOLEAN]
    \cup [form: {"pbaudio"}, target: Targets, session: Sessions,
          frame: FrameNumbers, payload: OpusPayloads, term: BOOLEAN]
    \cup [form: {"raw"}, bytes: RawDatagrams]

\* A client speaks the legacy format exactly when isLegacy is set for it;
\* protobuf pings and arbitrary bytes may come in either mode.
Sendable(s, isLegacy) ==
    CASE s.form \in {"ext", "legacyvoice"} -> isLegacy
      [] s.form = "pbaudio"                -> ~isLegacy
      [] OTHER                             -> TRUE

Encode(s) ==
    CASE s.form = "ext" -> Zeros(4) \o LEBytes(s.ts) \o Zeros(s.size - 12)
      [] s.form = "pbping" -> PingProtobufData(Ping(s.ts, FALSE))
      [] s.form = "legacyvoice" ->
            <<LegacyKind[s.codec] * 32 + s.target>> \o Varint(s.session)
            \o Varint(s.frame)
            \o (IF s.codec = "Opus"
                THEN Varint(OpusFlag(Len(s.payload), s.term)) \o s.payload
                ELSE s.chain)
            \o Zeros(IF s.pos THEN 12 ELSE 0)
      [] s.form = "pbaudio" ->
            <<UDPPacketAudio>>
            \o MarshalAudio(Audio("Opus", s.target, 0, s.frame, s.payload, s.term, FALSE))
      [] OTHER -> s.bytes

-----------------------------------------------------------------------------
VARIABLES
    sent,    \* what the client meant to send (a member of Packets)
    isLegacy,\* the client's format: !(client and server support protobuf)
    dgram,   \* the bytes udpRecvLoop takes from udprecv
    res,     \* ParseUDPPacket's result [pkt, legacy]
    reply,   \* the bytes SendUDP sends back to the client
    echo,    \* the client's parse of the reply
    pc       \* "idle", "sent" (in udprecv), "echoed" (reply in flight)

vars == <<sent, isLegacy, dgram, res, reply, echo, pc>>

NoPacket == [form |-> "none"]

TypeOK ==
    /\ sent \in Packets \cup {NoPacket}
    /\ isLegacy \in BOOLEAN
    /\ dgram \in Seq(Nat)
    /\ res.legacy \in BOOLEAN /\ echo.legacy \in BOOLEAN
    /\ reply \in Seq(Nat)
    /\ pc \in {"idle", "sent", "echoed"}

Init ==
    /\ sent = NoPacket
    /\ isLegacy \in BOOLEAN
    /\ dgram = <<>>
    /\ res = Result(Nil, isLegacy)
    /\ reply = <<>>
    /\ echo = Result(Nil, isLegacy)
    /\ pc = "idle"

\* The client sends one datagram; it reaches udpRecvLoop over UDP or the
\* UDPTunnel message.
Send ==
    /\ pc = "idle"
    /\ \E l \in BOOLEAN, s \in Packets :
          /\ Sendable(s, l)
          /\ sent' = s /\ isLegacy' = l /\ dgram' = Encode(s)
          /\ res' = Result(Nil, l) /\ echo' = Result(Nil, l)
    /\ reply' = <<>>
    /\ pc' = "sent"

\* One iteration of udpRecvLoop from ParseUDPPacket (344) on.  A nil packet
\* makes the loop return; an overread panics or yields stale bytes.
UdpRecvDrop ==
    /\ pc = "sent"
    /\ res' = ParseUDPPacket(dgram, isLegacy)
    /\ res'.pkt.type \in {"nil", "overread"}
    /\ pc' = "idle"
    /\ UNCHANGED <<sent, isLegacy, dgram, reply, echo>>

\* A ping, or voice to TargetServerLoopback after SetSenderSession, is
\* encoded with Data(legacy) and sent back.
UdpRecvEcho ==
    /\ pc = "sent"
    /\ res' = ParseUDPPacket(dgram, isLegacy)
    /\ \/ res'.pkt.type = "ping"
       \/ res'.pkt.type = "audio" /\ res'.pkt.target = TargetServerLoopback
    /\ reply' = Data(IF res'.pkt.type = "audio"
                     THEN [res'.pkt EXCEPT !.session = sent.session]
                     ELSE res'.pkt, res'.legacy)
    /\ pc' = "echoed"
    /\ UNCHANGED <<sent, isLegacy, dgram, echo>>

\* Other voice goes to server.voicebroadcast.
UdpRecvBroadcast ==
    /\ pc = "sent"
    /\ res' = ParseUDPPacket(dgram, isLegacy)
    /\ res'.pkt.type = "audio" /\ res'.pkt.target # TargetServerLoopback
    /\ pc' = "idle"
    /\ UNCHANGED <<sent, isLegacy, dgram, reply, echo>>

\* The client parses the echo with the same codec.
ClientRecv ==
    /\ pc = "echoed"
    /\ echo' = ParseUDPPacket(reply, isLegacy)
    /\ pc' = "idle"
    /\ UNCHANGED <<sent, isLegacy, dgram, res, reply>>

Next == Send \/ UdpRecvDrop \/ UdpRecvEcho \/ UdpRecvBroadcast \/ ClientRecv

Spec == Init /\ [][Next]_vars

-----------------------------------------------------------------------------
(* Properties.                                                             *)

\* A ping udpRecvLoop answers (352-360) comes back, parsed by the same codec
\* in the client's mode, as the ping it was: the reply format chosen by the
\* legacy flag of ParseUDPPacket and PingPacket.LegacyData/ProtobufData
\* agree with the parser.
PingEcho ==
    (pc = "idle" /\ res.pkt.type = "ping") => echo.pkt = res.pkt

\* A legacy voice packet that ParseUDPPacket does not drop is parsed as
\* voice, for the target in the low 5 bits of its header: udpRecvLoop
\* decides between echo and broadcast on the packet's type and target.
LegacyTargetRecovered ==
    (sent.form = "legacyvoice" /\ res.pkt.type # "nil" /\ pc # "sent")
        => res.pkt.type = "audio" /\ res.pkt.target = sent.target

\* The payload parseAudioPacketLegacy slices lies within the datagram.
PayloadWithinDatagram == res.pkt # Overread

\* Spec 8.1, legacy format: re-emitting a parsed packet with LegacyData and
\* parsing it again gives the same packet.
LegacyRoundTrip ==
    (res.legacy /\ res.pkt.type = "audio")
        => ParseUDPPacket(Data(res.pkt, TRUE), TRUE).pkt = res.pkt

\* Spec 8.1, length-delimited format: re-emitting a parsed packet with
\* ProtobufData and parsing it again gives the same packet.
ProtobufRoundTrip ==
    (~res.legacy /\ res.pkt.type \in {"ping", "audio"})
        => ParseUDPPacket(Data(res.pkt, FALSE), FALSE).pkt = res.pkt

\* Spec 4.b: a 12- or 24-byte datagram of four zero bytes and a timestamp
\* is a legacy extended ping.
ExtendedPingRecognised ==
    (sent.form = "ext" /\ pc # "sent") => res.pkt = Ping(sent.ts, TRUE)
====
