SPECIFICATION Spec
CONSTANTS
    Documents <- MCDocuments
    Names <- MCNames
    GraphOrder <- MCGraphOrder
    Types <- MCTypes
    Publishers <- MCPublishers
    ExcludeTopics <- MCExclude
    IncludeTopics <- MCInclude
    Graphs <- MCGraphs
    Active <- MCActive
    MaxInt32 = 7
    RmwInfinite = 34
    RecordAll = TRUE
    UseSimTime = TRUE
    Oversize <- MCOversize
    MaxSamples = 4
    MaxEpisodes = 2
    MaxQueued = 2
INVARIANTS
    TypeOK
    IndexMatchesTable
    CallbackFindsItsTopic
    BuffersBounded
    LatchedKeptOrRecorded
    ResubscribedIsFresh
    WrittenUnderOwnName
    DiscoveredTornDown
    ContractTopicsInOrder
    DiscoveredConnects
