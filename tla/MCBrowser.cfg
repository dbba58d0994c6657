SPECIFICATION Spec
CONSTANTS
  Browsers = {b1, b2}
  Exchanges = {x1, x2}
  Families = {f1, f2}
  Tokens = {1, 2, 3}
  Unopened = Unopened
  Ended = Ended
  Keep = Keep
  Clear = Clear
  None = None
SYMMETRY Interchangeable
INVARIANTS
  TypeOK
  CookieNeverSuperseded
PROPERTIES
  ThrownOutOnlyByLostAnswer
  LogoutEndsSession
