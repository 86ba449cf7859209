CONSTANTS
    Requests = {request}
    Worker = worker
    Numbers = {mine, other}
    Owned = {mine}
    Sold = {s1, s2}
    Nothing = nothing
    Reviewer = reviewer
    GiveUp = 2
    MaxCodes = 1
    MaxChanges = 2
    MaxFaults = 1
CONSTRAINT OneStory
SPECIFICATION Spec
INVARIANTS
    TypeOK
    BuysOnce
    VerifiedIsAnswered
PROPERTIES
    NumberIsUsed
CHECK_DEADLOCK FALSE
