SPECIFICATION MCSpec
CONSTANTS
    Requests = {r1, r2}
    CampaignType = "paid"
    Fees <- TwoFees
    DueDays <- SomeDueDays
    Window = 1
    PaymentDue = 1
    MaxDay = 2
    MaxRevisions = 1
    MaxProofs = 3
SYMMETRY RequestsAlike
CHECK_DEADLOCK FALSE
PROPERTY AcceptedTermsStand
