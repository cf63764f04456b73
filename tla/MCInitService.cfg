CONSTANTS
    zygote = zygote
    media = media
    task = task
    Service <- MCPair
    Temporary = {task}
    Oneshot = {}
    Critical = {zygote}
    Disabled = {zygote}
    Class = {zygote}
    OnRestart <- MCNone
    OnRestartExec <- MCNone
SPECIFICATION FairSpec
CHECK_DEADLOCK FALSE
INVARIANTS
    GoalHolds
    KillReaches
PROPERTIES
    ExecUnblocks
    RestartHappens
