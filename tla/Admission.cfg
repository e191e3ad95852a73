SPECIFICATION Spec
CONSTANTS
    Handlers = {h1, h2, h3}
    Sessions = {s1, s2}
    NoSession = NoSession
    MaxGeneration = 2
SYMMETRY AdmissionSymmetry
INVARIANTS TypeOK TrafficNeedsHandshake CapabilitiesMatchSession
PROPERTIES ClosedIsFinal
CHECK_DEADLOCK FALSE
