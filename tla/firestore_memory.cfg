CONSTANTS
    JobIds = {j1}
    Clients = {c1}
    LeaseSeconds = 1
    MaxActive = 1
    MaxDaily = 2
    HistoryLimit = 2
    DaySeconds = 1
    MaxNow = 1
    MaxClaims = 2
SYMMETRY Symmetry
SPECIFICATION FSpec
PROPERTY FailsAsMemory
CHECK_DEADLOCK FALSE
