CONSTANTS
    Requests = {r1, r2}
    NCreators = 2
    CampaignTypes = {"paid", "barter"}
    MaxOffersPerSide = 1
    MaxWaitingInvitations = 1
    Enabled <- AllOps
SYMMETRY RequestsAlike
SPECIFICATION MCSpec
CHECK_DEADLOCK FALSE
INVARIANTS OneNegotiation MemoComesFromTheDeal WhoLeftIsLeftAlone OnlyCampaignHoldersDeadlock WaitingInvitationsAreFew
PROPERTIES OutcomesStand InvitedWhileOpen
