SPECIFICATION FairSpec
CONSTANTS
    h1 = h1
    h2 = h2
    h3 = h3
    None = None
    Handlers <- Three
    Sessions <- Mixes
INVARIANTS
    OneUser
    QuietResume
    NoOrphan
    NoHoldAndWait
    ResumeFlag
    KickWakes
PROPERTIES
    ResumeAnswered
    KickedLeaves
CHECK_DEADLOCK FALSE
