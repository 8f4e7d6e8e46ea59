\* The claim of docs/ARCHITECTURE.md:52.
CONSTANTS
  Workers = {w1, w2}
  MaxRequests = 1
  MaxEdits = 0
  BatchSize = 1
  MaxFaults = 1
SPECIFICATION Spec
INVARIANT RecordHasMessage
\* Nothing is left to do once the bounds are reached.
CHECK_DEADLOCK FALSE
