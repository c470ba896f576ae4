SPECIFICATION MCSpec
CONSTANTS
  Ops = {o1, o2}
  Readers = {r1}
  Isolates = {i1}
  Kinds = {"disable", "regenerate", "rotate", "revoke"}
  First = First
  None = None
  Models = {m1, m2}
  RouteReaders = {a1, a2}
  RouteWriters = {w1}
  Claims = {c1, c2, c3}
  Serial = TRUE
INVARIANTS NoLostUpdate TokensAreTheRecords PartsTypeOK SomeCopySurvives DownloadedOnce GoneForAReason StoredFits
PROPERTY CachesCatchUp
\* Operations and claims are bounded.
CHECK_DEADLOCK FALSE
