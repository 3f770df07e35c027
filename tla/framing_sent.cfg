SPECIFICATION Spec
CONSTANTS
    BYTE_BASE          = 4
    SERIAL_START1      = 3
    SERIAL_START2      = 2
    SERIAL_MAX_PAYLOAD = 5
    SENT_BYTES         = {1}
    MAX_BODY           = 6
    MAX_SENT           = 1
    MAX_STREAM         = 9
INVARIANT SentArrives
CHECK_DEADLOCK FALSE
