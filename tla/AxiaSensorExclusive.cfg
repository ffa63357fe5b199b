CONSTANTS
    Callers = {"lc", "rt", "ex", "wk"}
    ReadCalibration = TRUE
    ReceiveOverwritesOutputs = TRUE
    AutoBias = {"clear", "set"}
    ReadsOverlap = FALSE
    ShutdownWhileActive = TRUE
SPECIFICATION FairSpec
INVARIANTS ShownIsOfSession MasterGivenBack
PROPERTY BiasAnswered
