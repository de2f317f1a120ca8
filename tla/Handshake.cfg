\* One Connect() against each kind of server, with UseSASL on and off.
\* A Connect() that returned stops; the process then waits on its reader.
CONSTANTS
    ServerKinds <- MCServerKinds
    SASLChoices = {FALSE, TRUE}
SPECIFICATION Spec
INVARIANT TypeOK
INVARIANT AuthBeforeRegistration
INVARIANT CapChanNeverBlocks
PROPERTY NegotiationReturns
CHECK_DEADLOCK FALSE
