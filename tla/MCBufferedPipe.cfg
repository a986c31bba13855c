CONSTANTS
    r1 = r1
    r2 = r2
    Readers = {r1, r2}
    Dst = 2
    WarnThreshold = 3
    MaxBytes = 4
SPECIFICATION FairSpec
INVARIANTS NoMissedWakeup EndIsFinal InterruptPrompt
PROPERTIES EmptyHandedIsTimeout CallsReturn
