\* One contact from its import to the end of the campaign.
CONSTANTS
    Contacts <- OneContact
    Dispatchers = {d1}
    MaxAttempts = 2
    MaxCalls = 3
    MaxFaults = 1
    MaxRequests = 1
    c1 = c1
    p1 = p1

SPECIFICATION FairSpec

CHECK_DEADLOCK FALSE

INVARIANTS
    CallBudget
PROPERTIES
    AnsweredIsFinal
    CampaignEnds
