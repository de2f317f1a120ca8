\* We register as "bob_" ("bob" is taken); asking for the taken "alice"
\* moves nickcurrent to "bob__", which another user holds and then renames.
CONSTANTS
    InitialNick = "bob"
    Requests = {"alice"}
    Others = {"bob", "alice", "bob__"}
    OtherNicks = {"dave"}
    Erroneous = {}
    QueueCap = 2
    MaxNickCalls = 1
    MaxEnvSteps = 1
    Revisions = {"newest"}
    StaleCallbacks = {FALSE}
    ServerTraffic = {}
CONSTRAINT NickLenBound
SPECIFICATION Spec
PROPERTY AdoptsOnlyOwnNickChange
