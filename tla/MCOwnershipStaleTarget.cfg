SPECIFICATION Spec
CONSTANTS
  Users = {u1, u2}
  Organizations = {o1}
  MembershipIds = {m1, m2}
  Requests = {r1, r2}
  Operations = {"create", "addMember", "transferOwnership", "updateMemberRole"}
  None = None
  Unfounded = Unfounded
  Dissolved = Dissolved
SYMMETRY Interchangeable
PROPERTY OwnerRoleNotEditable
CHECK_DEADLOCK FALSE
