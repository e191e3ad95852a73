SPECIFICATION Spec
CONSTANTS
    e1 = e1
    e2 = e2
    chat = chat
    presence = presence
    msg1 = msg1
    msg2 = msg2
    Identities <- NoIdentities
    MaxVersion = 1
    Data <- MCData
    DataBytes <- MCDataBytes
    MaxStateObjects = 1
    MaxStateBytes = 1
    Sessions = {s1, s2}
    NoSession = NoSession
    EventIDs = {e1, e2}
    MaxSeq = 5
    EventBytes <- MCEventBytes
    MaxReplayEvents = 3
    MaxReplayBytes = 5
    EventIdentityWindow = 2
    Msgs = {m1}
    Pings = {p1, p2}
    NoPing = NoPing
    Queries = {q1}
    MaxCapabilities = 2
    MaxCapabilityVersions = 2
    Offers <- MCOffers
    MaxGeneration = 3
INVARIANTS TypeOK DeliveredInOrder IdentityWindow HeartbeatIsCurrent CleanWithoutSession NegotiationAgrees
PROPERTIES ReplayAllOrNothing
