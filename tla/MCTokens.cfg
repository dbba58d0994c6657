SPECIFICATION Spec
CONSTANTS
  Users = {u1}
  Hashes = {h1, h2, h3}
  Requests = {r1, r2}
  None = None
SYMMETRY Interchangeable
INVARIANTS
  TypeOK
  OneGrantPerIssue
  LastIssuedStands
PROPERTY ConsumedWithItsEffect
