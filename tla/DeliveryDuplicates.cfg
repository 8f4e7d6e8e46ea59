\* A message that is in the stream twice.
CONSTANTS
  m1 = m1
  m2 = m2
  read1 = read1
  other1 = other1
  ann = ann
  bob = bob
  Subjects = {m1}
  Users = {ann, bob}
  Workers = {w1, w2}
  Stream <- Duplicated
  BatchSize = 2
  MaxFaults = 2
  MaxOverruns = 1
SPECIFICATION Spec
SYMMETRY WorkerSymmetry
INVARIANTS
  LostMarksNeedFaults
  DuplicatesNeedFaults
\* The workers are done once the whole of Stream is acknowledged.
CHECK_DEADLOCK FALSE
