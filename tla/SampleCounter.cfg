CONSTANTS
    Modulus = 16
    Advances = {0, 1, 2, 3, 11}
    MaxReads = 5
    MaxRun = 7
    RunWarn = 3
    RunError = 6
    RepeatWarn = 2
    RepeatError = 3
    SkipWarn = 4
    SkipError = 6
    JumpThreshold = 2
    SensorRate = 5
    ReadRate = 5
SPECIFICATION Spec
INVARIANTS CountsAgree
PROPERTIES StoppedIsReported SteadyIsOk
