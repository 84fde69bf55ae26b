SPECIFICATION DeliverySpec
CONSTANTS
    Jobs = {1}
    Users = {"c1"}
    ChannelUsers = {"c1"}
    JobUser <- MCJobUser
    JobAction <- MCJobAction
    MaxAttempts = 2
    user = user
    channel = channel
    Chats = {user, channel}
    Recipients <- MCRecipients
    Billed <- MCBilled
    Quota <- MCQuota
    MaxPasses = 2
    Faults = {"flood", "stall", "crash", "sqlite"}
    MaxFaults = 1
INVARIANTS
    DeliveryTypeOK
    ChargedOnce
    ChargedIsForgotten
    
    
    

    
CHECK_DEADLOCK FALSE
