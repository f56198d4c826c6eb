CONSTANTS
    Region = {r1}
    None = None
    DERP_QUEUE_LIMIT = 2
    Slot = {1}
SPECIFICATION Spec
INVARIANT KeyCurrent
PROPERTY DroppedEnds
PROPERTY DeadLinkNoticed
PROPERTY HomeReturns

