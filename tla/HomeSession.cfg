\* Three sockets: a replaced one, its replacement and one after it.  Two
\* requests race for the wake-up slot and for the pending map.  No symmetry:
\* liveness and refinement are checked.
CONSTANTS
    Conns = {c1, c2, c3}
    Reqs = {r1, r2}
    None = None
SPECIFICATION FairSpec
INVARIANTS
    TypeOK
    AwaitedCommandsExpire
    PendingIsUnanswered
    NoStaleSocket
PROPERTIES
    EveryRequestAnswered
    ImplementsRelay
\* Every connection used up and every request answered.
CHECK_DEADLOCK FALSE
