CONSTANTS
    Activities <- MCActivities
    ActivityFacts <- MCActivityFacts
    HQ = 2
    Tolerance = 0
    DuelEntry = "duel"
    DuelDays <- MCDuelDays
    OverflowMax = 2
    Registry <- MCRegistry
    FeatureFacts <- MCFeatureFacts
    Scenarios <- MCScenarios
    FirstEvents <- MCFirstEvents
    MaxNow = 1
SPECIFICATION Spec
INVARIANTS
    NothingDueLeft
    FeaturesHeedLoss
PROPERTY
    HeldOffDuty
