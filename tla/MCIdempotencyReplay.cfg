SPECIFICATION FairSpec
CONSTANTS
    Attempts = {a1, a2, a3}
    Bodies = {b1, b2}
CHECK_DEADLOCK FALSE

INVARIANTS SuccessesAreTrue
PROPERTIES ClaimsGiveWay
