\* One transient failure and a reconnect; pwrite holds the registration and
\* one more line.  The application sends one line; it never calls Quit() or
\* Disconnect().
CONSTANTS
    MaxConnects = 2
    MaxDialFailures = 0
    MaxRecoverableReconnects = 1
    PwriteCap = 3
    ErrorTexts <- MCTransientTexts
    MaxDisconnects = 0
    MaxAppSends = 1
    MaxLines = 0
SPECIFICATION Spec
PROPERTY FailureReconnects
CHECK_DEADLOCK FALSE
