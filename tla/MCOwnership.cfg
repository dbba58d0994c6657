SPECIFICATION Spec
CONSTANTS
  Users = {u1, u2, u3}
  Organizations = {o1}
  MembershipIds = {m1, m2, m3}
  Requests = {r1, r2}
  Operations = {"create", "transferOwnership", "leave", "addMember", "acceptInvitation", "updateMemberRole", "removeMember", "remove", "deleteMe"}
  None = None
  Unfounded = Unfounded
  Dissolved = Dissolved
SYMMETRY Interchangeable
INVARIANTS
  TypeOK
  AtMostOneOwner
  DeadlockOnlyByDissolutionOrInsert
PROPERTIES
  TransferMovesOwnership
  OwnerKeepsAccount
  OwnerLostOnlyToStaleWrite
CHECK_DEADLOCK FALSE
