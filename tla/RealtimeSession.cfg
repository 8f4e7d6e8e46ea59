\* Two connections of one user, who may come back before the first is
\* unregistered; two messages, pages of one, and one fault.
CONSTANTS
  Sockets = {1, 2}
  MaxMessages = 2
  SyncLimit = 1
  ReplayLimit = 1
  MaxRequests = 1
  OtherSeqs = {1}
  MaxOthers = 1
  MaxFaults = 1
SPECIFICATION FairSpec
INVARIANTS
  
  OnlineWhileConnected
PROPERTY EventuallyInactive
\* Everything may be written, read and closed.
CHECK_DEADLOCK FALSE
