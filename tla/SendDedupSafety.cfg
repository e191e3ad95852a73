SPECIFICATION Spec
CONSTANTS
    Calls = {c1, c2, c3}
    Sessions = {s1}
    Msgs = {m1}
    Contents = {x, y}
    NoCall = NoCall
    SessionResumeTTL = 1
    DedupTTL = 2
    MaxDelay = 1
    MaxTime = 2
SYMMETRY CallSymmetry
INVARIANTS TypeOK AtMostOnce AckMeansApplied
PROPERTIES CompletedIsFinal
CHECK_DEADLOCK FALSE
