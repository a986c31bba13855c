CONSTANTS
    s1 = s1
    s2 = s2
    r1 = r1
    r2 = r2
    c1 = c1
    c2 = c2
    None = None
    SessionIDs = {s1, s2}
    Requests = {r1, r2}
    Closers = {c1, c2}
    Kinds <- AllKinds
    ResumeGrace = 1
    SessionTimeout = 1
    PollGap = 0
    MaxDetached = 1
    MaxTime = 3
SPECIFICATION MCSpec
INVARIANTS CapHolds NoEvictionUnderPoll GraceHonoured ReportedOnce
PROPERTIES ExpiredForGood RemovedIsReported SilentIsClosed
CHECK_DEADLOCK FALSE
