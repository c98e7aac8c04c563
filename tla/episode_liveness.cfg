SPECIFICATION FairSpec
CONSTANTS
    MaxGoals = 1
    MaxEpisodes = 2
    MaxCalls = 1
PROPERTIES
    StopNeverDropped
    GoalTerminates
