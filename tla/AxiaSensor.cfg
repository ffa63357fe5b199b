CONSTANTS
    Callers = {"lc", "rt", "ex", "wk"}
    ReadCalibration = FALSE
    ReceiveOverwritesOutputs = FALSE
    AutoBias = {}
    ReadsOverlap = TRUE
    ShutdownWhileActive = FALSE
SPECIFICATION FairSpec
INVARIANTS TypeOK NoFault QuietWhenFree
PROPERTIES SessionSpec BiasRefusedUnlessActive CallsReturn
