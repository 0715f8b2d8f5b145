CONSTANTS
    Conns = {c1, c2}
    Reqs = {r1}
    None = None
SPECIFICATION Spec
PROPERTY OfflineOnlyWithoutConnector
CHECK_DEADLOCK FALSE
