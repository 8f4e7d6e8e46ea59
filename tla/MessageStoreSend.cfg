\* Concurrent and repeated sends, in two conversations.
CONSTANTS
  alice = alice
  bob = bob
  shared = shared
  private = private
  k1 = k1
  k2 = k2
  Users = {alice, bob}
  ClientMsgIds = {k1, k2}
  MembersOf <- Membership
  Conversations = {shared, private}
  Requests = {r1, r2}
  Commands <- Retries
  Ackers = {}
  Readers = {}
  PageLimit = 1
SPECIFICATION FairSpec
INVARIANTS
  GapFree
  AcceptedIsDurable
  RetriesAgree
  CreatedOnce
PROPERTY EveryRequestReturns
\* Once every conversation is deleted nothing is left to do.
CHECK_DEADLOCK FALSE
