\* Two workers and two commands race for two events; one crash, one lease overrun.
CONSTANTS
    Events = {e1, e2}
    Commands = {c1, c2}
    Workers = {w1, w2}
    MaxAttempts = 2
    MaxCrashes = 1
    MaxOverruns = 1

SPECIFICATION FairSpec
CHECK_DEADLOCK FALSE

INVARIANTS
    OneMailPerEvent
    LeaseExclusive
    RetryBudget
    CommittedHasEvent
PROPERTIES
    KeepsPromise
    EventsSettle
