-------------------------- MODULE MCHomeDirectory --------------------------
EXTENDS HomeDirectory, TLC

CONSTANTS t1, t2, h1, h2, u1, u2, a1, c1, o1, o2, r1, r2

Interchangeable ==
    Permutations(Tenants) \cup Permutations(Homes) \cup Permutations(Origins)
      \cup Permutations(Requests)

=============================================================================
