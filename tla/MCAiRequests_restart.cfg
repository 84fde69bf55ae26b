SPECIFICATION Spec
CONSTANTS
    Chats = {1}
    Sender = 1
    Voices = {"v1", "v2"}
    Episode = "e"
    Batch = "b"
    Claimed <- MCClaimed
    Real <- MCReal
    Limit <- MCLimit
    Outputs = {"summary"}
    Modes = {"each", "all"}
    MaxAttempts = 2
    MaxItems = 2
    MaxReqs = 5
    MaxTaps = 2
    MaxEvents = 1
INVARIANTS
    FinalFollowsParts
CHECK_DEADLOCK FALSE
