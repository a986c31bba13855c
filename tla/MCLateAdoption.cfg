SPECIFICATION Spec
CONSTANTS
    MaxSendBytes = 1
    PollBufferBytes = 2
    MaxSendChunk = 2
    MaxBytes = 2
    Modes <- MCModes
INVARIANT SupersededByNewer
