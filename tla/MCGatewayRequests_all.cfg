SPECIFICATION MCSpec
CONSTANTS
  r1 = r1
  r2 = r2
  i1 = i1
  Requests = {r1, r2}
  Isolates = {i1}
  HostOf <- OneIsolate
  CheckFaults = {"unreachable"}
  CacheTtl = 1
  MaxFail = 2
  Degrade = 3
  Window = 6
  MaxAttempts = 4
  Callers = {q1, q2, q3, q4}
  Workers = {w1, w2}
  Limit = 2
  MaxEvictions = 1
INVARIANTS StreakOpens CacheIsRecent PartsTypeOK BilledAtMostOnce BreakerHearsTheLastAttempt NoEarlyRefusal OneBudgetPerSight
PROPERTIES OpensOnRepeatedFailure ClosesAgain
\* The requests to the limiter and the attempts of a call are bounded.
CHECK_DEADLOCK FALSE
