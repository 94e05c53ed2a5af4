CONSTANTS
    Nil = Nil
    MaxRuns <- MCMaxRuns
    MaxClock <- MCMaxClock
    MaxQueue <- MCMaxQueue
SPECIFICATION Spec
CHECK_DEADLOCK FALSE
INVARIANT NoContradictoryLines
