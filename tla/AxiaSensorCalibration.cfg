CONSTANTS
    Callers = {"lc", "rt", "ex", "wk"}
    ReadCalibration = TRUE
    ReceiveOverwritesOutputs = FALSE
    AutoBias = {}
    ReadsOverlap = TRUE
    ShutdownWhileActive = FALSE
SPECIFICATION Spec
INVARIANTS OneInDriver FaultOnlyByRace
