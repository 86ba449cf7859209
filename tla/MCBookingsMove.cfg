CONSTANTS
    Bookings = {b1, b2}
    Requests = {r1, r2}
    Starts = {0, 1}
    Length = 1
    Buffer = 0
    MaxMoves = 1
    MaxFaults = 0
SYMMETRY Symmetry
SPECIFICATION Spec
INVARIANTS
    BookingsSerialised
CHECK_DEADLOCK FALSE
