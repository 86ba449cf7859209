\* Two tasks with a call each, or one with a retry; means for one call at a time.
CONSTANTS
    Tasks = {t1, t2}
    MaxCalls = 2
    Means <- OneCall
    MaxCrashes = 1

SPECIFICATION FairSpec
CHECK_DEADLOCK FALSE

INVARIANTS
    TypeOK
    WithinMeans
    DialledOnce
    SettledOnce
PROPERTIES
    OverIsOver
    ReservationsSettle
