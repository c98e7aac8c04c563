SPECIFICATION Spec
CONSTANTS
    Sizes = {1, 2}
    MaxMessages = 2
    MaxBytes = 3
    BatchMax = 2
    MaxArrivals = 3
    MaxEpisodes = 2
    MaxRetained = 1
INVARIANTS
    TypeOK
    QueueAccounting
    WrittenOnceInOrder
    Conserved
    CountMatchesBag
    DropCountHonest
    WriterIsLive
    QueueHoldsOneEpisode
    LossIsTail
    NothingLeftAfterJoin
PROPERTY KeepsMessageLog
