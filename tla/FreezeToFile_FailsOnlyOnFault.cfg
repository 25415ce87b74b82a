CONSTANTS
    MaxVersion <- MCMaxVersion
    MaxCalls <- MCMaxCalls
SPECIFICATION Spec
INVARIANT FailsOnlyOnFault
