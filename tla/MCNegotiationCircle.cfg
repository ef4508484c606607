CONSTANTS
    Requests = {r1, r2}
    NCreators = 1
    CampaignTypes = {"paid"}
    MaxOffersPerSide = 1
    MaxWaitingInvitations = 1
    Enabled = {"publish", "apply", "shortlist", "erase_brand"}
SYMMETRY RequestsAlike
SPECIFICATION MCSpec
CHECK_DEADLOCK FALSE
INVARIANTS NoErasureInACircle
