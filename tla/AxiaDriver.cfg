CONSTANTS
    Callers = {"ex", "lc"}
    ReadCalibration = TRUE
    ReceiveOverwritesOutputs = FALSE
SPECIFICATION DriverSpec
INVARIANTS HeldIffKnown SampleIsSound BiasOnWire
