CONSTANTS
    JobIds = {j1, j2}
    LeaseSeconds = 2
    MaxActive = 1
    MaxDaily = 2
    HistoryLimit = 2
    DaySeconds = 2
    MaxNow = 3
    MaxClaims = 1
SPECIFICATION Spec
INVARIANT AtMostMaxActiveLive
CHECK_DEADLOCK FALSE
