SPECIFICATION MCSpec
CONSTANTS
    Requests = {1, 2, 3}
    Deals = {1, 2}
    NoOne = NoOne
    MaxStamp = 0
CHECK_DEADLOCK FALSE
INVARIANTS RecordIsTrue OnlyCrossedListsDeadlock
PROPERTIES KeepsItsWord EveryRequestIsAnswered
