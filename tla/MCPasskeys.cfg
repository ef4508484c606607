SPECIFICATION MCSpec
SYMMETRY Alike
CHECK_DEADLOCK FALSE
CONSTANTS
    Keys = {k1, k2}
    Requests = {r1, r2}
    Settler = settler
    Eraser = eraser
    MaxKeys = 2
    ResetWait = 2
    CodeLife = 1
    MaxCodes = 3
    MaxTime = 3
INVARIANTS KeysAreInOrder OnlyErasureOrALateKeyDeadlocks
PROPERTIES ChangesAreAllowed UsedKeysSurviveAReset
