SPECIFICATION FairSpec
CONSTANTS
    Calls = {c1, c2, c3}
    Sessions = {s1}
    Msgs = {m1, m2}
    Contents = {x}
    NoCall = NoCall
    SessionResumeTTL = 1
    DedupTTL = 1
    MaxDelay = 0
    MaxTime = 0
PROPERTIES EveryCallReturns
CHECK_DEADLOCK FALSE
