SPECIFICATION FairSpec
CONSTANTS
    AppCmd = {"Exchange"}
    OldCmd = {"GetFirmwareVersion"}
    Timeout = {0, 5}
    Default = 3
    Slice = 2
    MaxCalls = 5
    MaxAborts = 1
    MaxFaults = 1
INVARIANTS InStepUnlessFailed WaitsLessASlice
PROPERTIES CallReturns AbortEndsCall
CHECK_DEADLOCK FALSE
