CONSTANTS
  MaxRequests = 3
  MaxAttempts = 2
  Estimates = {1}
  Relays = {r1, r2}
  Events = {e1, e2}
  MaxSubs = 2
  MaxFrames = 1
  Callers = {c1, c2}
  Keys = {k1, k2}
  MaxSeq = 2
  MaxLeaks = 1
SPECIFICATION MCSpec
INVARIANTS OwnerHoldsLock RevokedNeverRuns ActiveCountsWork
PROPERTIES EverySendSettles EveryReadSettles
\* A closed pool or manager has no step left.
CHECK_DEADLOCK FALSE
