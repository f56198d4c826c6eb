CONSTANTS
    Key = {k1, k2}
    Region = {r1}
    Endpoint = {e1}
    None = None
    MaxMishaps = 2
SPECIFICATION Spec
INVARIANT RegisteredKeyStored
INVARIANT UpdateDue
PROPERTY EndpointsReach
PROPERTY RunsAgain
