SPECIFICATION Spec
CONSTANTS
  Users = {u1, u2, u3}
  Organizations = {1, 2}
  Ids = {1, 2, 3, 4}
  Times = {1, 2}
  MaxLimit = 2
  MaxOffset = 2
  None = None
SYMMETRY Interchangeable
INVARIANTS
  TypeOK
  MembersListedOnce
  OffsetErrsByShifts
