\* Every kind of entry, no overruns.  Liveness: no symmetry.
CONSTANTS
  m1 = m1
  m2 = m2
  read1 = read1
  other1 = other1
  ann = ann
  bob = bob
  Subjects = {m1, m2, read1, other1}
  Users = {ann, bob}
  Workers = {w1, w2}
  Stream <- Mixed
  BatchSize = 2
  MaxFaults = 1
  MaxOverruns = 0
SPECIFICATION FairSpec
INVARIANTS
  AckedIsHanded
PROPERTIES
  EventuallyAcked
  ImplementsPromise
\* The workers are done once the whole of Stream is acknowledged.
CHECK_DEADLOCK FALSE
