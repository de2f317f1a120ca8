\* Loop() handles a read error while the application calls Disconnect().
CONSTANTS
    MaxConnects = 1
    MaxDialFailures = 0
    MaxRecoverableReconnects = 1
    PwriteCap = 4
    ErrorTexts <- MCTransientTexts
    MaxDisconnects = 1
    MaxAppSends = 0
    MaxLines = 1
SPECIFICATION Spec
INVARIANT NoPanic
CHECK_DEADLOCK FALSE
