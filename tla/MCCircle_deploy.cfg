SPECIFICATION FairSpec
CONSTANTS
    Podcasts = {1}
    Users = {1}
    TgChats = {}
    Owner <- MCNobody
    Paid = {1}
    Subs <- MCAllSubs
    Posts = {}
    Left0 <- MCAllLeft
    Unparsed = {}
    MaxEp = 1
    News <- MCAllNews
    Window = 2
    Killer = {}
    StopPoints = {"fetch", "persist", "queue", "free", "cursors"}
    Deploys = TRUE
    MaxEvents = 1
PROPERTIES
    RestartLosesNothing
