CONSTANTS
    JobIds = {j1, j2, j3}
    LeaseSeconds = 1
    MaxActive = 1
    MaxDaily = 2
    HistoryLimit = 2
    DaySeconds = 2
    MaxNow = 2
    MaxClaims = 3
SYMMETRY JobSymmetry
SPECIFICATION Spec
INVARIANTS QuotaExact DossierFromLastAttempt LeaseCoversAttempt HistoryIsTail
PROPERTIES TerminalIsFinal ProgressNeverRegresses ImplementsLifecycle
CHECK_DEADLOCK FALSE
