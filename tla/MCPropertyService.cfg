CONSTANTS
    tz = tz
    usb = usb
    v1 = v1
    v2 = v2
    Name = {tz, usb}
    Value = {v1, v2}
    None = None
    Torn = Torn
    Default <- MCDefault
    Override <- MCOverride
    Legacy <- MCLegacy
    MaxSet = 2
    MaxBoot = 2
SPECIFICATION FairSpec
CHECK_DEADLOCK FALSE
INVARIANTS
    Kept
    MemoryIsStored
PROPERTIES
    AsyncServed
