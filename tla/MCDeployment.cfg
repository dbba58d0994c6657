SPECIFICATION Spec
CONSTANTS
  LastCommit = 4
  Builds = {1}
  Schema <- Migrations
  None = None
INVARIANTS
  TypeOK
  ServedImagesKept
PROPERTIES
  RollbackImageKept
  DeployedOnItsSchema
  NoDowngrade
