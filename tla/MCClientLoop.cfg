SPECIFICATION FairSpec
CONSTANTS
    InitialBackoff = 1
    MaxBackoff = 3
INVARIANTS Agreed FailureNotPeer
PROPERTIES Reconnects ShutdownReturns
