SPECIFICATION SyncSpec
CONSTANTS
    chat = chat
    msg1 = msg1
    Identities <- MCIdentities
    MaxVersion = 0
    Data = {}
    DataBytes <- MCDataBytes
    MaxStateObjects = 0
    MaxStateBytes = 0
    Sessions = {s1, s2}
    NoSession = NoSession
    EventIDs = {e1, e2, e3, e4}
    MaxSeq = 5
    EventBytes <- MCEventBytes
    MaxReplayEvents = 3
    MaxReplayBytes = 9
    EventIdentityWindow = 1
    Msgs = {}
    Pings = {}
    NoPing = NoPing
    Queries = {}
    MaxCapabilities = 1
    MaxCapabilityVersions = 1
    Offers <- MCOffers
    Registry <- MCRegistry
    SnapshotMaxObjects = 1
    SnapshotMaxBytes = 16
    MaxGeneration = 2
    ServerMaxReplayEvents = 3
    ServerMaxReplayBytes = 3
    PrunePoints = {2}
INVARIANTS SyncTypeOK StoreRetainsSuffix RequestsAdmitted NoResumeForgotten
PROPERTIES ImplementsEventStream FullSyncOnlyOnDemand ReplayReachesLatest
SYMMETRY Symmetry
CHECK_DEADLOCK FALSE
