SPECIFICATION Spec
CONSTANTS
  Organizations = {o1}
  Emails = {e1}
  Users = {u1, u2}
  Ids = {i1, i2}
  Requests = {r1, r2}
  None = None
  Gone = Gone
SYMMETRY Interchangeable
INVARIANTS
  TypeOK
  OnePendingPerAddress
PROPERTIES
  SettledForGood
  AcceptanceAdmitsAddressee
