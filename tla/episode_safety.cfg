SPECIFICATION Spec
CONSTANTS
    MaxGoals = 2
    MaxEpisodes = 2
    MaxCalls = 1
INVARIANTS
    TypeOK
    HandleIsTheLiveGoal
    NoGoalLeftBehind
    OnlyActiveRecords
    OutcomeFitsReason
    StampNeverForeign
    ResultNamesOwnBag
PROPERTY KeepsGoalProtocol
