CONSTANTS
    Bookings = {b1, b2}
    Requests = {r1, r2}
    Starts = {0, 1, 2}
    Length = 1
    Buffer = 1
    MaxMoves = 2
    MaxFaults = 1
SYMMETRY Symmetry
SPECIFICATION Spec
INVARIANTS
    NoDoubleBooking
    MirrorIsFaithful
CHECK_DEADLOCK FALSE
