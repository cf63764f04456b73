CONSTANTS
    Fd = {f1, f2}
    File = {a, b}
    Duplicated = {a}
    Thread = {t1, t2}
    Handler = {h1}
    None = None
    MaxCall = 3
    MaxTime = 1
    Delay <- Delays
    Timeout <- Timeouts
SPECIFICATION MCSpec
INVARIANTS
    NoOversleep
    EpollInSync
PROPERTIES
    OwnRequestOnly
    MessagesDelivered
    CallbackInvoked
