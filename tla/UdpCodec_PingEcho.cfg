CONSTANTS
    Targets <- MCTargets
    Sessions <- MCSessions
    FrameNumbers <- MCFrameNumbers
    Timestamps <- MCTimestamps
    VoiceCodecs <- MCVoiceCodecs
    OpusPayloads <- MCOpusPayloads
    CeltTocs <- MCCeltTocs
    RawDatagrams <- MCRawDatagrams
SPECIFICATION Spec
INVARIANT PingEcho
