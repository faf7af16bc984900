\* The defaults; every request, among them sleeps whose product exceeds an int.
SPECIFICATION Spec
CONSTANTS
    Missing = Missing
    Unset = Unset
    Garbage = Garbage
    NoRequest = NoRequest
    MaxInt <- MCMaxInt
    Second <- MCSecond
    Values <- MCValues
    Inputs <- MCInputs
    Known = {"a"}
    MaxExports = 0
INVARIANTS
    SleepsAsAsked
CHECK_DEADLOCK FALSE
