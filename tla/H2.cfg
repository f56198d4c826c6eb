CONSTANTS
    NRequests = 2
    DEFAULT_WINDOW = 2
    OUR_WINDOW = 2
    WINDOW_UPDATE_THRESHOLD = 1
    MAX_FRAME_SIZE = 2
    RequestSize = 3
    ResponseSize = 3
    InitialWindows = {1, 3}
    MaxMishaps = 1
    MaxFlight = 1
    None = None
SPECIFICATION Spec
 
INVARIANT SendWindowsExact
INVARIANT ResponseWhole
PROPERTY CallsEnd
CHECK_DEADLOCK FALSE
