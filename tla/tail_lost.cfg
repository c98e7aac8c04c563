SPECIFICATION Spec
CONSTANTS
    Sizes = {1}
    MaxMessages = 2
    MaxBytes = 3
    BatchMax = 2
    MaxArrivals = 2
    MaxEpisodes = 2
    MaxRetained = 1
INVARIANT TailNotLost
