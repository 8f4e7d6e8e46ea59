\* The claim of models/design.py:72.
CONSTANTS
  Workers = {w1, w2}
  MaxRequests = 3
  MaxEdits = 0
  BatchSize = 1
  MaxFaults = 0
SPECIFICATION Spec
INVARIANT EveryVersionArchived
\* Nothing is left to do once the bounds are reached.
CHECK_DEADLOCK FALSE
