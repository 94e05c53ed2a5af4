CONSTANTS
    Nil = Nil
    MaxRuns <- MCMaxRuns
    MaxClock <- MCMaxClock
SPECIFICATION EngineSpec
CHECK_DEADLOCK FALSE
INVARIANT CurrentFailureReported
