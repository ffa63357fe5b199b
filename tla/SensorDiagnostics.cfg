CONSTANTS
    Callers = {"lc", "rt", "ex", "wk"}
    ReadCalibration = TRUE
    ReceiveOverwritesOutputs = FALSE
    AutoBias = {}
    ReadsOverlap = TRUE
    ShutdownWhileActive = FALSE
    LockFailureLimit = 2
    Lateness = {TRUE, FALSE}
SPECIFICATION DiagnosticsSpec
INVARIANTS AgedReadingOnce ActiveShownHasReason
PROPERTIES SensorSpec SdoSpec
