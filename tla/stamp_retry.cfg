SPECIFICATION Spec
CONSTANTS
    Stamps = {1}
    RetryCount = 3
    MaxEpisodes = 1
    MaxForeign = 0
    MaxRestarts = 0
INVARIANT StampKeepsBagInfo
