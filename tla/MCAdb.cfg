CONSTANTS
    Transport = {1, 2}
    MaxRestart = 1
    WriteFails = FALSE
    Opener = {"host"}
    Socket = {1, 2}
    MaxItem = 3
    Capacity = 1
    MaxPayload = 2
    MaxEffort = 4
    MaxFaultEffort = 3
SPECIFICATION MCFairSpec
CHECK_DEADLOCK FALSE
INVARIANTS
    StreamInOrder
    OnePacketWaits
    AllBeforeClose
PROPERTIES
    Delivered
    OrphansEnd
