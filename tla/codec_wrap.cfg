SPECIFICATION FairSpec
CONSTANTS
    Inputs <- Wrapping
    MAX_OUT = 240
PROPERTY Terminates
CHECK_DEADLOCK FALSE
