----------------------------- MODULE MC_UdpCodec -----------------------------
(* UdpCodec for TLC: targets normal and loopback, two sessions, a one- and *)
(* a two-byte varint frame counter, Opus payloads and CELT chains of up to *)
(* two frames, and every datagram of up to three bytes over the header and *)
(* varint bytes that select the parser's branches.                         *)
EXTENDS UdpCodec

MCTargets == {0, 1, 31}
MCSessions == {1, 31}
MCFrameNumbers == {2, 130}
MCTimestamps == {0, 5}
MCVoiceCodecs == {"CELTAlpha", "Speex", "CELTBeta", "Opus"}
MCOpusPayloads == {<<>>, <<7>>, <<7, 7>>}
MCCeltFrames == {<< <<>> >>, << <<7>> >>, << <<7, 7>>, <<>> >>}
\* The spec's framing of a chain: each frame behind a TOC byte holding its
\* length, with the continuation bit set on all but the last.
MCTocChain(ch) ==
    LET f[i \in 0..Len(ch)] ==
            IF i = 0 THEN <<>>
            ELSE f[i - 1] \o <<Len(ch[i]) + (IF i < Len(ch) THEN 128 ELSE 0)>> \o ch[i]
    IN  f[Len(ch)]
MCCeltTocs == {MCTocChain(ch) : ch \in MCCeltFrames}
MCRawBytes == {0, 1, 32, 128}
MCRawDatagrams == UNION {[1..n -> MCRawBytes] : n \in 1..3}
====
