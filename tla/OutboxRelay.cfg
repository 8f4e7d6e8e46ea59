\* Three events, batches of two, two relays.  Liveness: no symmetry.
CONSTANTS
  Events = {1, 2, 3}
  Relays = {r1, r2}
  BatchSize = 2
  MaxFaults = 2
SPECIFICATION FairSpec
INVARIANTS
  PublishedIsStreamed
  DuplicatesNeedFaults
PROPERTIES
  PublishedIsFinal
  EventuallyPublished
  ImplementsPromise
\* The relays are done once every event is published.
CHECK_DEADLOCK FALSE
