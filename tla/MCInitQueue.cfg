SPECIFICATION FairSpec
CONSTANTS
    Prop <- MCProp
    Value <- MCValue
    EventName <- MCEventName
    ClientSets <- MCClientSets
    ValidPower = {"reboot"}
    Script <- MCScript
    RcActions <- MCRcActions
    BootQueue <- MCBootQueue
    MaxQueue = 3
INVARIANT ExecutingValid
INVARIANT NoMissedTrigger
CHECK_DEADLOCK FALSE
PROPERTY PowerctlReboots
PROPERTY TriggerRuns
