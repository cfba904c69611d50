CONSTANTS
    Sources <- MCSources
    Forms <- MCForms
    Editions <- MCEditions
    ContextChars = 1
    MaxHits = 2
SPECIFICATION Spec
INVARIANTS TokensAreWords FindsEveryWord GateIsExact
CHECK_DEADLOCK FALSE
