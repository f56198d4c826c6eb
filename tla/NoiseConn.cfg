CONSTANTS
    HEAD = 2
    CHUNK = 6
    HEADER_LEN = 2
    RESPONSE_LEN = 3
    ERROR_TEXT = 2
    EARLY_HDR = 2
    EARLY_LEN = 1
    H2_LEN = 3
    H2_CHUNK = 1
    MAX_RECORD = 2
    MaxTimeouts = 2
SPECIFICATION Spec
INVARIANT InOrder
INVARIANT CutsHarmless
PROPERTY ArrivesOrFails
CHECK_DEADLOCK FALSE
