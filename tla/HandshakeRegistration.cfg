\* One Connect() against each kind of server, with UseSASL on and off.
CONSTANTS
    ServerKinds <- MCServerKinds
    SASLChoices = {FALSE, TRUE}
SPECIFICATION Spec
PROPERTY RegistrationCompletes
CHECK_DEADLOCK FALSE
