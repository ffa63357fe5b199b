CONSTANTS
    Aliases = {0, 5}
    MaxSlaves = 3
    AliasIsRelative = TRUE
    Word16 = 32
    Word32 = 64
    Word64 = 256
    Grain = 3
    SampleRates <- MCRates
    Numbers <- MCNumbers
    Gaps = {0, 1, 2}
    MaxFrames = 4
SPECIFICATION MCSpec
INVARIANTS SearchIsTrue ParametersAsWritten LayoutAgrees
PROPERTY SearchesAgree
