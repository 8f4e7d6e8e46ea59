\* Any two of: errors, crashes, overruns, skews.  Liveness: no symmetry.
CONSTANTS
  Items = {n1}
  Workers = {w1, w2}
  MaxAttempts = 2
  MaxDevices = 2
  BatchSize = 2
  MaxTroubles = 2
SPECIFICATION FairSpec
INVARIANTS
  NothingDropped
  RoundsNeedFaults
  PushedAgainNeedsFaults
PROPERTY EventuallySettled
\* The workers are done once everything is settled.
CHECK_DEADLOCK FALSE
