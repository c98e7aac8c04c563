SPECIFICATION FairSpec
CONSTANTS
    Sizes = {1}
    MaxMessages = 3
    MaxBytes = 3
    BatchMax = 2
    MaxArrivals = 3
    MaxEpisodes = 2
    MaxRetained = 1
INVARIANT AckMeansDrained
PROPERTIES
    EveryMessageSettles
    FinishTerminates
