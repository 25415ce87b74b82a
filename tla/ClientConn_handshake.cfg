CONSTANTS
    Datagrams <- MCDatagramsAll
    MaxMsgs <- MCMaxMsgs
    MaxDgrams <- MCMaxDgrams
SPECIFICATION Spec
INVARIANT SignalDelivered
INVARIANT AuthExclusive
INVARIANT ReadyChanSafe
PROPERTY LifecycleRefined
