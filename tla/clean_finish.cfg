SPECIFICATION Spec
CONSTANTS
    MaxGoals = 2
    MaxEpisodes = 2
    MaxCalls = 1
INVARIANT FailureIsReported
