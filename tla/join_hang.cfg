SPECIFICATION FairSpec
CONSTANTS
    Sizes = {1}
    MaxMessages = 2
    MaxBytes = 3
    BatchMax = 2
    MaxArrivals = 1
    MaxEpisodes = 2
    MaxRetained = 1
PROPERTY JoinTerminates
