\* Two requests of any kinds in flight around each other.
CONSTANTS
    Requests = {r1, r2}
    Queues = {q1, q2}
    QueueLength = 2
    ConfigQueue = q1
    MaxEvents = 2
    MaxRestarts = 1
    None = None
SPECIFICATION Spec
SYMMETRY RequestSymmetry
INVARIANTS
    TypeOK
    SessionFollowsDevice
PROPERTIES
    NextMovesOn
CHECK_DEADLOCK FALSE
