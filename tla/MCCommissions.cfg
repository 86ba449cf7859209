CONSTANTS
    Months = {1}
    Creators = {c1, c2}
    Webhooks = {w1, w2}
    Ambassadors = {a1, a2}
    NoOne = NoOne
    Gross = 2
    MaxFaults = 1
    Bonus = 4
    Share = 2
    ShareMonths = 1
    MinPayout = 3
    MaxPayouts = 2
SYMMETRY Symmetry
SPECIFICATION Spec
INVARIANTS
    TypeOK
    ChargedOnce
    AccruedOnce
    TransferredOnce
    TransferredWasEarned
CHECK_DEADLOCK FALSE
