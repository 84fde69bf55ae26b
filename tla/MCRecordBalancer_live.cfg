SPECIFICATION BalFairSpec
CONSTANTS
    Jobs = {1}
    Users = {"c1"}
    ChannelUsers = {"c1"}
    JobUser <- MCJobUser
    JobAction <- MCJobAction
    MaxAttempts = 3
    Slots = {s1, s2}
    SlotPool <- MCSlotPool
    NoRun = NoRun
    Faults = {"hang", "crash", "death", "sqlite"}
    MaxFaults = 1
PROPERTIES
    EveryJobSettles
CHECK_DEADLOCK FALSE
