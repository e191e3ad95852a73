SPECIFICATION Spec
CONSTANTS
    Calls = {c1, c2}
    Sessions = {s1}
    Msgs = {m1}
    Contents = {x, y}
    NoCall = NoCall
    SessionResumeTTL = 1
    DedupTTL = 1
    MaxDelay = 1
    MaxTime = 2
SYMMETRY CallSymmetry
INVARIANT AtMostOnce
CHECK_DEADLOCK FALSE
