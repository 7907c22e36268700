SPECIFICATION Spec
CONSTANTS
  Variables = {v1, v2}
  Holders = {h1}
  Codes = {code}
  Organizations = {o1}
  Users = {u1, u2}
  Projects = {p1}
  MaxStops = 1
  MaxUserLives = 2
INVARIANTS
  VersionDeterminesSchema
  CommandsRun
  ObjectsAccountedFor
PROPERTIES
  MigrationsKeepData
  WorkOutlivesUsers
  DeletionEnds
CHECK_DEADLOCK FALSE
