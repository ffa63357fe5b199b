CONSTANTS
    Described = {"bit0", "bit26"}
    Undescribed = {"bit4"}
    RangeWarning = "bit26"
    Samples <- MCSamples
    NoWord = NoWord
    Lag = Lag
SPECIFICATION FairReportsSpec
INVARIANTS RowsAgree WindowShown LogLagsByThrottle
PROPERTY ArrayCatchesUp
