SPECIFICATION FairSpec
CONSTANTS
    MaxSendBytes = 1
    PollBufferBytes = 2
    MaxSendChunk = 2
    MaxBytes = 2
    Modes <- MCModes
INVARIANTS DownIntact NoSilentHole
PROPERTIES NothingAfterClose UpDelivered DownDelivered EndNoticed ImplementsConn
