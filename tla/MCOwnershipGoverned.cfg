SPECIFICATION FairSpec
CONSTANTS
  Users = {u1, u2}
  Organizations = {o1}
  MembershipIds = {m1, m2}
  Requests = {r1, r2}
  Operations = {"create", "transferOwnership", "leave", "addMember", "acceptInvitation", "remove", "deleteMe"}
  None = None
  Unfounded = Unfounded
  Dissolved = Dissolved
PROPERTIES
  ImplementsOwnership
  EveryRequestAnswered
CHECK_DEADLOCK FALSE
