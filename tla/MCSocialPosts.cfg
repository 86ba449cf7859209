\* Two rows for the day, a worker and an operator.
CONSTANTS
    Posts = {a1, a2}
    Workers = {w1}
    Operators = {o1}
    MAX_ATTEMPTS = 2
    MaxRequests = 2
    MaxFaults = 1

SPECIFICATION FairSpec
CHECK_DEADLOCK FALSE

INVARIANTS
    TypeOK
    PostedAsAsked
    OnePerDay
PROPERTIES
    PostsSettle
