CONSTANTS
    Nil = Nil
    MaxRuns <- MCMaxRuns
    MaxClock <- MCMaxClock
SPECIFICATION Spec
CHECK_DEADLOCK FALSE
INVARIANT FinalStatusShown
