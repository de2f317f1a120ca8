\* The application calls Disconnect() while the server is sending.
CONSTANTS
    MaxConnects = 1
    MaxDialFailures = 0
    MaxRecoverableReconnects = 1
    PwriteCap = 4
    ErrorTexts <- MCTransientTexts
    MaxDisconnects = 1
    MaxAppSends = 0
    MaxLines = 0
SPECIFICATION Spec
PROPERTY DisconnectReturns
CHECK_DEADLOCK FALSE
