CONSTANTS
    InitialNick <- MCInitialNick
    Requests <- MCRequests
    Others <- MCOthers
    OtherNicks <- MCOtherNicks
    Erroneous <- MCErroneous
    QueueCap = 2
    MaxNickCalls = 1
    MaxEnvSteps = 1
    Revisions = {"newest", "main", "oldest"}
    StaleCallbacks = {FALSE}
    ServerTraffic = {"PING", "PRIVMSG", "JOIN"}
CONSTRAINT NickLenBound
SPECIFICATION Spec
INVARIANT TypeOK
INVARIANT ConnectedOnlyWhenRegistered
PROPERTY RegistrationCompletes
