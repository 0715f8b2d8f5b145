\* Two queues, the wanted one and another. One command: none leaves anything a later one reads.
SPECIFICATION Spec
CONSTANTS
  q1 = q1 q2 = q2 t1 = t1 t2 = t2
  Queues = {q1, q2}
  Tracks = {t1, t2}
  Numeric = Numeric NoQueue = NoQueue None = None Failure = Failure
  MaxRequests = 1
SYMMETRY Interchangeable
INVARIANT TypeOK ErrorsStartNothing StartedAsAnswered
