\* CallbackTimeout set; quick and blocking callbacks; two lines, two registry calls.
CONSTANTS
    RegCodes <- MCRegCodes
    Inputs <- MCInputs
    Sent <- MCSent
    HandleErrorAsDisconnect = TRUE
    Handlers = {"quick", "blocking"}
    Timeout = TRUE
    MaxIds = 3
    MaxEvents = 2
    MaxOps = 2
SPECIFICATION Spec
INVARIANT TypeOK
PROPERTY EveryCallbackRuns
PROPERTY DispatchReturns
PROPERTY GoroutinesExit
PROPERTY LineDispatchedAsSent
PROPERTY RefinesRegistry
CHECK_DEADLOCK FALSE
