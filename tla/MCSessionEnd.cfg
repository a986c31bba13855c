CONSTANTS
    s1 = s1
    s2 = s2
    r1 = r1
    r2 = r2
    c1 = c1
    c2 = c2
    None = None
    SessionIDs = {s1}
    Requests = {r1}
    Closers = {c1}
    Kinds <- AllKinds
    ResumeGrace = 1
    SessionTimeout = 1
    PollGap = 0
    MaxDetached = 0
    MaxTime = 2
SPECIFICATION FairSpec
PROPERTIES EndIsReported
CHECK_DEADLOCK FALSE
