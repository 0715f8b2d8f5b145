\* Two requests of any kind in flight; two tenants for conflicts.
SPECIFICATION Spec
CONSTANTS
  t1 = t1 t2 = t2 h1 = h1 h2 = h2 u1 = u1 u2 = u2 a1 = a1 c1 = c1 o1 = o1 o2 = o2 r1 = r1 r2 = r2
  None = None
  Tenants = {t1, t2}
  Homes = {h1}
  Users = {u1, a1}
  AlexaUsers = {a1}
  Connectors = {c1}
  Origins = {o1}
  Requests = {r1, r2}
  D1Fails = TRUE
SYMMETRY Interchangeable
INVARIANT TypeOK ReferencesResolve
PROPERTY LinksChangeByLinking RowsKeepTheirOwner
