CONSTANTS
    zygote = zygote
    vold = vold
    Service = {zygote, vold}
    Temporary = {}
    Oneshot = {}
    Critical = {vold}
    Disabled = {}
    Class = {}
    ShutdownCritical = {vold}
    KillAfterApps = {}
    ToStart = {}
    Animation = {}
    SurfaceFlinger = {}
    Console = {}
    Vold = {vold}
    OnRestart <- MCOnRestart
    OnRestartExec <- MCNone
SPECIFICATION ShutdownFairSpec
CHECK_DEADLOCK FALSE
PROPERTIES
    KilledForGood
    ShutdownEnds
