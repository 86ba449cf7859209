\* A customers' campaign and one of Dialogbot's own, a contact each, and two workers.
CONSTANTS
    Contacts <- OneEach
    Dispatchers = {d1, d2}
    InternalSets <- SecondInternal
    MaxAttempts = 1
    MaxCalls = 2
    MaxConcurrent = 1
    MaxPerContact = 1
    MaxFaults = 0
    MaxRequests = 0
    c1 = c1
    c2 = c2
    p1 = p1
    p2 = p2

SPECIFICATION SalesSpec
CHECK_DEADLOCK FALSE

INVARIANT OneOnTheLine
