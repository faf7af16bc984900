\* Up to two exported variables; every request against every log level.
SPECIFICATION Spec
CONSTANTS
    Missing = Missing
    Unset = Unset
    Garbage = Garbage
    NoRequest = NoRequest
    MaxInt <- MCMaxInt
    Second <- MCSecond
    Values <- MCValues
    Inputs <- MCInputs
    Known = {"a"}
    MaxExports = 2
INVARIANTS
    StartsUnlessWrong
    LevelIsHonoured
    ErrorsAreLogged
    LoggedCodeIsSent
    LimitsDecide
    PathNamesTask
    SleepIsExact
    QueueKeepsPayload
\* A refused configuration ends the process; one request is served.
CHECK_DEADLOCK FALSE
