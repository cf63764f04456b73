CONSTANTS
    LogId = {"main"}
    Source = {"a", "b", "n", "w"}
    MsgLen = 100
    MaxSize = 100
    MinPrune = 1
    MaxPrune = 4
    Second = 2
    MaxDropped = 2
    LookBack = 300
    Naughty = {"n"}
    Nice = {"w"}
    WorstUid = {"main"}
    Client = {"c", "d"}
    Request <- MCRequest
    LogLine <- MCLogLine
    MaxLog = 6
    MaxClear = 1
    ClearTries = 4
    SlowReaders = TRUE
    ThreadFails = TRUE
    Plays = {"late", "dump", "behind", "same", "twice", "worst", "lists", "clear", "wrap", "two"}
SPECIFICATION MCFairSpec
CHECK_DEADLOCK FALSE
INVARIANTS
    StillThere
    RegionIsLocked
    NoGaps
    Accounted
PROPERTIES
    WokenReads
    HangupEnds
