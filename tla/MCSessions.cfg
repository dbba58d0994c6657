SPECIFICATION Spec
CONSTANTS
  Users = {u1, u2}
  Families = {f1, f2}
  Tokens = {t1, t2, t3}
  Requests = {r1, r2}
  Operations = {"login", "refresh", "logout", "logoutSession", "logoutAll", "changePassword", "confirmPasswordReset", "deleteMe"}
  None = None
  Unopened = Unopened
  Ended = Ended
SYMMETRY Interchangeable
INVARIANTS
  TypeOK
  OneActivePerFamily
  DeadlockOnlyWhileClosing
PROPERTIES
  LogoutMissesOnlyRotation
  ImplementsSessions
