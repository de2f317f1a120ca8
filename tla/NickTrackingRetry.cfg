\* Newest revision: Nick() calls and rejections while the ticker retries the
\* desired nick; a PRIVMSG callback of the previous connection may still run.
CONSTANTS
    InitialNick <- MCInitialNick
    Requests <- MCRequests
    Others <- MCOthers
    OtherNicks <- MCOtherNicks
    Erroneous <- MCErroneous
    QueueCap = 2
    MaxNickCalls = 1
    MaxEnvSteps = 0
    Revisions = {"newest"}
    StaleCallbacks = {FALSE, TRUE}
    ServerTraffic = {}
CONSTRAINT NickLenBound
SPECIFICATION Spec
PROPERTY DesiredRetried
