SPECIFICATION FairSpec
CONSTANTS
    Podcasts = {1, 2}
    Users = {1, 2}
    TgChats = {3}
    Owner <- MCOwner
    Paid = {1, 2}
    Subs <- MCSubsLive
    Posts <- MCPosts
    Left0 <- MCLeft0
    Unparsed = {}
    MaxEp = 2
    News <- MCNews
    Window = 2
    Killer = {1}
    StopPoints = {"fetch", "free", "cursors"}
    Deploys = TRUE
    MaxEvents = 1
PROPERTIES
    NewsReachPayers
    
