\* Two sockets: one that ends with commands and responses on it, and the one
\* after it.  No symmetry: liveness is checked.
CONSTANTS
    Conns = {c1, c2}
    Reqs = {r1, r2}
    None = None
SPECIFICATION FairSpec
INVARIANTS
    LinkTypeOK
    RepliesReturnOnTheirSocket
PROPERTY ReceivedCommandsRun
CHECK_DEADLOCK FALSE
