CONSTANTS
    Datagrams <- MCDatagramsAll
    MaxMsgs <- MCMaxMsgs
    MaxDgrams <- MCMaxDgrams
SPECIFICATION Spec
INVARIANT NoDoubleCloseUdprecv
