INIT MCInit
NEXT MCNext
CONSTANTS
    Small = 2
    Big = 4
    Threshold = 4
    LastBlock <- MCLastBlock
    Deck <- MCDeck
    Files <- MCFiles
    KeyFile <- MCKeyFile
    Keys <- MCKeys
    BadBcc = 99
    MaxRuns = 2
    MaxFaults = 2
    Byte = 3
    Room = 7
    Messages <- MCMessages
    Strays <- MCStrays
    Chunk = 2
    MaxFrames = 8
    MaxCommands = 3
    MaxFailures = 1
INVARIANTS SavedIsCard  SavedIsMessage WaitNeedsFailure
CHECK_DEADLOCK FALSE
