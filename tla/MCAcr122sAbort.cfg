SPECIFICATION Spec
CONSTANTS
    Io = {"acr122s"}
    AppCmd = {"Exchange"}
    Blocking = {"Exchange"}
    SeqMod = 256
    MaxCalls = 5
    MaxAborts = 1
    MaxLost = 0
INVARIANTS AbortsOneCall
CHECK_DEADLOCK FALSE
