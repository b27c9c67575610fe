SPECIFICATION FairSpec
CONSTANTS
    AppCmd = {"Exchange", "TgInitAsTarget", "PowerDown"}
    MaxCalls = 3
    MaxAborts = 1
    MaxLost = 1
    Blocking = {"TgInitAsTarget"}
INVARIANTS StaleNeedsHaste AwakeUnlessFailed
PROPERTIES CallReturns AbortUnblocks
CHECK_DEADLOCK FALSE
