SPECIFICATION Spec
CONSTANTS
    Podcasts = {1, 2}
    Users = {1, 2}
    TgChats = {3, 4}
    Owner <- MCOwner
    Paid = {1, 2}
    Subs <- MCSubs
    Posts <- MCPosts
    Left0 <- MCLeft0
    Unparsed = {1}
    MaxEp = 2
    News <- MCNews
    Window = 2
    Killer = {}
    StopPoints = {"fetch", "free", "cursors"}
    Deploys = TRUE
    MaxEvents = 2
INVARIANTS
    CircleTypeOK
    NothingSkipped
    
    OneBudget
