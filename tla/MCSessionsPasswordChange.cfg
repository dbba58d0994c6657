SPECIFICATION Spec
CONSTANTS
  Users = {u1}
  Families = {f1}
  Tokens = {t1, t2}
  Requests = {r1, r2}
  Operations = {"login", "refresh", "changePassword"}
  None = None
  Unopened = Unopened
  Ended = Ended
SYMMETRY Interchangeable
PROPERTY PasswordChangeEndsSessions
