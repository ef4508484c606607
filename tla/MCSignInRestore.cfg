SPECIFICATION MCSpec
SYMMETRY Alike
CHECK_DEADLOCK FALSE
CONSTANTS
    Phones = {1, 2}
    NAccounts = 2
    NFamilies = 3
    NRows = 2
    Requests = {r1, r2}
    CodeLife = 2
    MaxAttempts = 1
    SendLimits <- Limits
    GuessWindow = 2
    MaxGuesses = 2
    ChangeWait = 2
    LostWait = 2
    DeletionWait = 2
    Patience = 1
    MaxCodes = 2
    MaxTime = 4
PROPERTY RestoreRevivesNothing
