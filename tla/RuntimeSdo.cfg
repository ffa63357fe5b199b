CONSTANTS
    Enabled = TRUE
    LockFailureLimit = 3
    MaxTicks = 6
SPECIFICATION FairHistorySpec
INVARIANTS PausedIffCause EveryAttemptCollected CountersAddUp
PROPERTIES PauseIsFinal AlarmShown SupervisionGoesOn
