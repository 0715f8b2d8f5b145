---------------------------- MODULE MCPreparePlay ----------------------------
EXTENDS PreparePlay, TLC

CONSTANTS q1, q2, t1, t2

Interchangeable == Permutations(Queues) \cup Permutations(Tracks)

=============================================================================
