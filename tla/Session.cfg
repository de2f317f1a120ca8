\* The Loop process with two connections, a failed dial, one Disconnect()
\* and one SendRaw(); two server lines whose callbacks send (PING, 433);
\* pwrite holds three lines, so it can fill.  A panic, a halted Loop or
\* Loop returning stops the process.
CONSTANTS
    MaxConnects = 2
    MaxDialFailures = 1
    MaxRecoverableReconnects = 1
    PwriteCap = 3
    ErrorTexts <- MCErrorTexts
    MaxDisconnects = 1
    MaxAppSends = 1
    MaxLines = 2
SPECIFICATION Spec
INVARIANT TypeOK
INVARIANT OneConnectionAtATime
CHECK_DEADLOCK FALSE
