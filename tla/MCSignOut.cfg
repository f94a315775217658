CONSTANTS
    Resources = {"mail"}
    SiCalls = {"c1", "c2"}
    MaxSigns = 2
    MaxTurns = 1
    Flows = {1, 2, 3}
    FlowPorts = {"p"}
    FlowLimit = 2
    Mailboxes = {"a", "b"}
INIT SignInit
NEXT AroundNext
INVARIANT SignOutHolds
CHECK_DEADLOCK FALSE
