CONSTANTS
    MaxVersion <- MCMaxVersion
    MaxCalls <- MCMaxCalls
SPECIFICATION Spec
INVARIANT MainComplete
INVARIANT SnapshotDurable
PROPERTY StoreRefined
