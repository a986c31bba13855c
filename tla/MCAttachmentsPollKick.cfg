SPECIFICATION Spec
CONSTANTS
    h1 = h1
    h2 = h2
    h3 = h3
    None = None
    Handlers <- Three
    Sessions <- Mixes
INVARIANT
    KickWakesPoll
CHECK_DEADLOCK FALSE
