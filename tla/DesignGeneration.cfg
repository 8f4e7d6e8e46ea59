\* An edit, a regeneration and two faults; liveness needs no symmetry.
CONSTANTS
  Workers = {w1, w2}
  MaxRequests = 2
  MaxEdits = 1
  BatchSize = 2
  MaxFaults = 2
SPECIFICATION FairSpec
INVARIANTS
  CompletedHasOutput
  GeneratingIsUnderWay
PROPERTY EventuallySettled
\* Nothing is left to do once the bounds are reached.
CHECK_DEADLOCK FALSE
