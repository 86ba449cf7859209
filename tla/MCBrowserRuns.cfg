\* One booking, two offers, two restarts of the worker.
CONSTANTS
    Runs = {r1}
    Offers = {o1, o2}
    MaxCrashes = 2

SPECIFICATION FairSpec
CHECK_DEADLOCK FALSE

INVARIANTS
    ClickedAsAgreed
    CalledOffIsNotClicked
    CreditFollowsClick
PROPERTIES
    RunsSettle
