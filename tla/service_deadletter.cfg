CONSTANTS
    JobIds = {j1}
    LeaseSeconds = 2
    MaxActive = 1
    MaxDaily = 1
    HistoryLimit = 2
    DaySeconds = 10
    MaxNow = 3
    MaxClaims = 2
    MaxDelivery = 2
    AckDeadline = 2
    MaxFaults = 0
SPECIFICATION FairServiceSpec
INVARIANT DeadLetteredJobIsTerminal
CHECK_DEADLOCK FALSE
