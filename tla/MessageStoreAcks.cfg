\* Acknowledgements racing each other, the sends and the deletion.
CONSTANTS
  alice = alice
  bob = bob
  shared = shared
  private = private
  k1 = k1
  k2 = k2
  Users = {alice, bob}
  ClientMsgIds = {k1, k2}
  MembersOf <- Membership
  Conversations = {shared}
  Requests = {r1, r2, r3}
  Commands <- TwoMessages
  Ackers = {bob}
  Readers = {alice}
  PageLimit = 2
SPECIFICATION Spec
SYMMETRY RequestSymmetry
INVARIANTS
  TypeOK
  DeliveredOnce
  ReadUptoCursor
  ReadEventsAscend
  SyncHasNoHoles
CHECK_DEADLOCK FALSE
