CONSTANTS
    Requests = {r1, r2}
    Workers = {w1, w2}
    Images = {i1, i2}
    Window = 1
    MinAnswerDays = 1
    DueOn = 1
    MaxPendingUploads = 1
    MaxDrafts = 3
    MaxDay = 4
SYMMETRY Alike
SPECIFICATION MCSpec
CHECK_DEADLOCK FALSE
INVARIANTS OneReview ReadyWhenImagesAreDone CleanedOnce HeldDatesAreFair
PROPERTIES SilenceHadItsDays AnswersStand
