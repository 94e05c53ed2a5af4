CONSTANTS
    NoValue = NoValue
    SampleNames <- MCSampleNames
    Values <- MCValues
    MaxOptions <- MCMaxOptions
SPECIFICATION Spec
INVARIANTS
    TypeOK
CHECK_DEADLOCK FALSE
