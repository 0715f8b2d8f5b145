\* One request of either kind, whose URL two streams fetch while the tunnel moves;
\* sessions have nothing in common but the home's origin.  No symmetry: liveness
\* is checked.
SPECIFICATION FairSpec
CONSTANTS
  s1 = s1 t1 = t1 t2 = t2 o1 = o1 o2 = o2 None = None
  Sessions = {s1}
  Streams = {t1, t2}
  Origins = {o1, o2}
  MaxMoves = 1
INVARIANT TypeOK UrlsAreRecorded FetchesAreOnRecord StreamsFollowTheTunnel
PROPERTY RefusedOnlyWhenExpired OriginConverges
