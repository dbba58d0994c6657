SPECIFICATION Spec
CONSTANTS
  ip = ip
  email = email
  Addresses = {ip}
  Subjects = {email}
  Limit <- Limits
  Window <- Windows
  MaxTime = 5
  None = None
INVARIANTS
  TypeOK
  LessThanTwiceTheLimit
PROPERTIES
  RefusalsJustified
  NoDeadKeysAfterCheck
