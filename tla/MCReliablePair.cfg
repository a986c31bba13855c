SPECIFICATION Spec
CONSTANTS
    MaxReplay = 2
    BufSize = 2
    MaxBytes <- OneWay
INVARIANTS
    StreamIntact
    NothingForgotten
    NoBadAck
PROPERTIES
    FramesContiguous
    ImplementsByteStream
CHECK_DEADLOCK FALSE
