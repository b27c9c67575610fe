INIT MCInit
NEXT MCNext
CONSTANTS
    Card <- MCCard
    Odd <- MCOdd
    Firmware <- MCFirmware
    Tags = {"PN531", "RCS360"}
    Sizes = {1, 4}
    RxLen = 3
    SizeMod = 16
    AtsSize = 2
    BufSize = 12
    MaxFaults = 1
    Millis <- MCMillis
    AnswerLens = {0, 1, 3, 5}
    FifoSize = 2
    Uninit = {0, 2, 130}
    MaxCycles = 65535
    MaxLost = 1
    MaxBits = 140
INVARIANTS FoundIsDecoded ListRight OfferedWorks InitFits TimedAnswer TimeoutsNear FrameRight RoundTrip OneByteOver
