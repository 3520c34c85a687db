SPECIFICATION FairSpec
CONSTANTS
  Null = Null
  Secrets = {s1}
  Objects = {o1, o2}
  Users = {u1}
  Admins = {}
  Clients = {c1}
  Workers = {w1}
  MaxViews = 1
  MAX_SECRET_VERSIONS = 2
  MaxAnswers = 1
INVARIANTS
  VersionsBacked
  ObjectsAccounted
PROPERTIES
  KeepsBilling
  OrphansCollected
