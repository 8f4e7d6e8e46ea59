\* Three requests of a user who may make two; two with the same key.
CONSTANTS
  Workers = {w1, w2}
  Keys = {k1}
  NoKey = NoKey
  MaxRequests = 3
  Limit = 2
  BatchSize = 2
  MaxFaults = 1
  MaxExpiries = 1
SPECIFICATION Spec
SYMMETRY WorkerSymmetry
INVARIANTS
  LimitExpires
  OneJobPerKey
  StuckNeedsFaults
\* All requests may have been made and all jobs done.
CHECK_DEADLOCK FALSE
