CONSTANTS
    A = A
    B = B
    Packet = {p1, p2, p3}
    Keepalive = Keepalive
    None = None
    REKEY_TIMEOUT = 1
    KEEPALIVE_TIMEOUT = 1
    REKEY_AFTER_TIME = 2
    REJECT_AFTER_TIME = 3
    REKEY_AFTER_MESSAGES = 9
    MAX_HANDSHAKE_ATTEMPTS = 2
    QUEUE_LIMIT = 2
    REPLAY_BITS = 2
    Restarting = {B}
    MaxFresh = 4
    MaxCounter = 3
SPECIFICATION Spec
SYMMETRY PacketSymmetry
INVARIANT NonceUnique
INVARIANT AnsweredOnce
INVARIANT QueuedHasHandshake
PROPERTY ImplementsChannel
