\* One campaign, the customers' or Dialogbot's own, with two contacts and two workers.
CONSTANTS
    Contacts <- TwoContacts
    Dispatchers = {d1, d2}
    InternalSets <- EitherKind
    MaxAttempts = 1
    MaxCalls = 2
    MaxConcurrent = 1
    MaxPerContact = 1
    MaxFaults = 1
    MaxRequests = 1
    c1 = c1
    c2 = c2
    p1 = p1
    p2 = p2

SPECIFICATION SalesSpec
CONSTRAINT Few
SYMMETRY Symmetry
CHECK_DEADLOCK FALSE

INVARIANTS
    SalesTypeOK
    BilledPerAttempt
    OneInFlight
    ListHeeded
