SPECIFICATION BillSpec
CONSTANTS
    ann = ann
    bob = bob
    Nobody = Nobody
    Users = {ann, bob}
    InvitedBy <- MCInvitedBy
    Trial = {ann}
    Plans = {1, 2}
    Price <- MCPrice
    Period = 3
    HoldHours = 2
    AwardHours = 2
    TrialHours = 2
    GrantPlan = 1
    TopPlan = 2
    Invoices = {"plan", "top up", "pledge"}
    Payer <- MCPayer
    Amount <- MCAmount
    PlanSold <- MCPlanSold
    Pledges = {"pledge"}
    Clerks = {k1, k2}
    LateChecks = FALSE
    MaxTicks = 0
    MaxChanges = 1
    MaxGrants = 0
INVARIANTS
    MoneyKept
SYMMETRY ClerkSymmetry
CHECK_DEADLOCK FALSE
