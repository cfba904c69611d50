CONSTANTS
    JobIds = {j1}
    LeaseSeconds = 2
    MaxActive = 1
    MaxDaily = 1
    HistoryLimit = 2
    DaySeconds = 10
    MaxNow = 4
    MaxClaims = 3
    MaxDelivery = 3
    AckDeadline = 2
    MaxFaults = 2
SPECIFICATION ServiceSpec
INVARIANTS AckedMeansComplete AnswersAreTrue AcceptedFailsOnlyOnLastDelivery RefusedHoldsNoSlot LiveJobIsDriven QuietDeadLetterFailed
PROPERTY LiveOwnerKeepsJob
CHECK_DEADLOCK FALSE
