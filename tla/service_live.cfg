CONSTANTS
    JobIds = {j1}
    LeaseSeconds = 2
    MaxActive = 1
    MaxDaily = 1
    HistoryLimit = 2
    DaySeconds = 10
    MaxNow = 4
    MaxClaims = 2
    MaxDelivery = 2
    AckDeadline = 2
    MaxFaults = 1
SPECIFICATION PageSpec
INVARIANTS PageTypeOK InlineJobIsServed PageTellsTruth
PROPERTIES AcceptedEnds AcceptedReleasesSlot PageLearns
CHECK_DEADLOCK FALSE
