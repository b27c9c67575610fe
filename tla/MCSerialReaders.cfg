SPECIFICATION Spec
CONSTANTS
    Io = {"arygon", "acr122s"}
    AppCmd = {"Exchange", "TgInitAsTarget"}
    Blocking = {"TgInitAsTarget"}
    SeqMod = 256
    MaxCalls = 6
    MaxAborts = 1
    MaxLost = 2
INVARIANTS ForeignNeedsHaste AbortStopsCommand
PROPERTIES CallReturns
CHECK_DEADLOCK FALSE
