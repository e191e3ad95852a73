SPECIFICATION FreshSpec
CONSTANTS
    chat = chat
    msg1 = msg1
    msg2 = msg2
    Identities <- MCIdentities
    MaxVersion = 2
    Data <- MCData
    DataBytes <- MCDataBytes
    MaxStateObjects = 2
    MaxStateBytes = 2
    MaxCapabilities = 1
    MaxCapabilityVersions = 1
    Offers <- MCOffers
    Registry <- MCRegistry
    HasStateStore = TRUE
    SnapshotMaxObjects = 1
    SnapshotMaxBytes = 16
    MaxCommits = 2
    MaxInFlight = 1
    Sessions = {s1}
    NoSession = NoSession
    EventIDs = {}
    MaxSeq = 1
    EventBytes <- MCEventBytes
    MaxReplayEvents = 2
    MaxReplayBytes = 2
    EventIdentityWindow = 1
    Msgs = {}
    Pings = {}
    NoPing = NoPing
    Queries = {q1}
    MaxGeneration = 2
    ServerMaxReplayEvents = 2
    ServerMaxReplayBytes = 2
    PrunePoints = {}
INVARIANTS SnapshotsAccepted NoQueryForgotten NoResumeForgotten
PROPERTIES SnapshotsAreFresh FullSyncOnlyOnDemand
CHECK_DEADLOCK FALSE
