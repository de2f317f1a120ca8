\* The application calls Quit() while Loop() handles a failure.  pwrite
\* has room for every line this scenario can queue, so the run is about
\* the order of Quit()'s two steps, not about a full queue.
CONSTANTS
    MaxConnects = 2
    MaxDialFailures = 0
    MaxRecoverableReconnects = 1
    PwriteCap = 7
    ErrorTexts <- MCTransientTexts
    MaxDisconnects = 0
    MaxAppSends = 0
    MaxLines = 0
SPECIFICATION Spec
PROPERTY QuitStops
CHECK_DEADLOCK FALSE
