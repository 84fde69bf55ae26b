SPECIFICATION Spec
CONSTANTS
    Jobs = {1, 2, 3}
    Users = {"u1", "c1"}
    ChannelUsers = {"c1"}
    JobUser <- MCJobUser
    JobAction <- MCJobAction
    MaxAttempts = 2
INVARIANTS
    TypeOK
    OneLeasePerUser
PROPERTIES
    DoneByOwnRun
    LiveLeaseKept
    ImplementsJobQueue
CHECK_DEADLOCK FALSE
CONSTRAINT
    NoCircleSlot
