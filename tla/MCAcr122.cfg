SPECIFICATION Spec
CONSTANTS
    Kind = {"ACR122", "TOUCHATAG", "T0", "T1"}
    AppCmd = {"Exchange", "GetFirmwareVersion"}
    Timeout = {0, 1, 3}
    MaxCalls = 8
    MaxAborts = 2
    MaxFaults = 1
INVARIANTS OneBehind InStepUnlessFailed
PROPERTIES CallReturns
CHECK_DEADLOCK FALSE
