\* No symmetry: liveness is checked.
SPECIFICATION FairSpec
CONSTANTS
  r1 = r1 r2 = r2 queue = queue Nil = Nil Elsewhere = Elsewhere
  Requests = {r1, r2}
  Keys = {queue}
  ItemQueue = queue
  MaxSessions = 2
  MaxRestarts = 1
  Retries = 1
INVARIANT StreamTypeOK
PROPERTY EveryRequestEnds SettledStreamsPlay
