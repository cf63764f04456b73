CONSTANTS
    Transport = {1, 2}
    MaxRestart = 1
    WriteFails = TRUE
    Opener = {"host"}
    Socket = {1, 2}
    MaxItem = 3
    Capacity = 1
    MaxPayload = 2
    MaxEffort = 4
    MaxFaultEffort = 3
SPECIFICATION MCSpec
CHECK_DEADLOCK FALSE
INVARIANTS
    TransportIsThere
