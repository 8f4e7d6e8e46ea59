\* Three requests, two of them at once.
CONSTANTS
  Users = {ann, bob}
  Author = ann
  Holder = ann
  Nobody = Nobody
  Slots = {s1, s2}
  MaxWorkspaces = 2
  MaxRequests = 3
SPECIFICATION Spec
SYMMETRY SlotSymmetry
INVARIANTS
  TypeOK
  AdminUnlessStale
  GivenOutWorks
  ApprovedHasOwner
  EndedForGood
  SessionsComeFromLogins
  GivenKeyWorks
\* All requests may have been made.
CHECK_DEADLOCK FALSE
