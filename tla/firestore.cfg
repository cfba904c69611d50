CONSTANTS
    JobIds = {j1, j2}
    Clients = {c1, c2}
    LeaseSeconds = 1
    MaxActive = 1
    MaxDaily = 2
    HistoryLimit = 2
    DaySeconds = 1
    MaxNow = 1
    MaxClaims = 2
SYMMETRY Symmetry
SPECIFICATION FSpec
INVARIANT LeaseCoversAttempt
PROPERTIES LeaseNotStolen SerializesAsMemory ImplementsLifecycle
CHECK_DEADLOCK FALSE
