SPECIFICATION Spec
CONSTANTS
    Handlers = {h1, h2}
    Sessions = {s1, s2}
    NoSession = NoSession
    MaxGeneration = 2
SYMMETRY AdmissionSymmetry
PROPERTIES OnlyResumeEndsResuming
CHECK_DEADLOCK FALSE
