SPECIFICATION Spec
CONSTANTS
    e1 = e1
    e2 = e2
    chat = chat
    presence = presence
    msg1 = msg1
    msg2 = msg2
    Identities <- MCIdentities
    MaxVersion = 2
    Data <- MCData
    DataBytes <- MCDataBytes
    MaxStateObjects = 2
    MaxStateBytes = 4
    Sessions = {s1}
    NoSession = NoSession
    EventIDs = {e1, e2}
    MaxSeq = 2
    EventBytes <- MCEventBytes
    MaxReplayEvents = 2
    MaxReplayBytes = 4
    EventIdentityWindow = 2
    Msgs = {}
    Pings = {}
    NoPing = NoPing
    Queries = {q1}
    MaxCapabilities = 2
    MaxCapabilityVersions = 2
    Offers <- MCOffers
    MaxGeneration = 2
INVARIANTS StateAccounting NumbersCompareByValue
PROPERTIES ReplayAllOrNothing StateNeverRegresses
