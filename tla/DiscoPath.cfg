CONSTANTS
    Node = {a, b}
    Sender = a
    Path = {1}
    Known = {}
    Mapped = {1}
    TRUST_UDP_ADDR = 2
    HEARTBEAT_INTERVAL = 1
    SESSION_ACTIVE_TIMEOUT = 2
    DISCO_PING_INTERVAL = 2
    CALL_ME_MAYBE_INTERVAL = 2
    MaxMishaps = 2
    MaxFlight = 1
    NoPath = NoPath
SPECIFICATION PathSpec
INVARIANT BlackoutBounded
 
