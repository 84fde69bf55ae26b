SPECIFICATION BalSpec
CONSTANTS
    Jobs = {1, 2}
    Users = {"c1"}
    ChannelUsers = {"c1"}
    JobUser <- MCJobUser
    JobAction <- MCJobAction
    MaxAttempts = 2
    Slots = {s1, s2}
    SlotPool <- MCSlotPool
    NoRun = NoRun
    Faults = {"hang", "crash", "death", "sqlite"}
    MaxFaults = 1
INVARIANTS
    
    RunsHaveSlots

    
SYMMETRY SlotSymmetry
CHECK_DEADLOCK FALSE
