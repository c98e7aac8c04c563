SPECIFICATION FairSpec
CONSTANTS
    Stamps = {1, 2}
    RetryCount = 3
    MaxEpisodes = 2
    MaxForeign = 1
    MaxRestarts = 1
INVARIANTS
    TypeOK
    NameIsOwn
    StampedOrReported
    InfoLostOnlyWhenCutShort
PROPERTIES
    DeletesOnlyLastFinished
    StampTerminates
