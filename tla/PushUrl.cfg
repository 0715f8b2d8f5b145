\* An attempt and a duplicate that waits for its lock or comes after it.  No
\* symmetry: liveness is checked.
CONSTANTS
    Callbacks = {p1, p2}
    Sessions = {s1, s2}
    None = None
    MaxProbes = 1
    MediaAttempts = 1
SPECIFICATION FairSpec
INVARIANTS
    TypeOK
    OneAttemptAtATime
    SuccessIsProven
PROPERTIES
    SentUrlPlays
    FreshSuccessIsReused
    EveryCallbackAnswered
    ImplementsFacts
CHECK_DEADLOCK FALSE
