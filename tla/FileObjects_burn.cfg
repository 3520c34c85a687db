SPECIFICATION Spec
CONSTANTS
  Null = Null
  Secrets = {s1}
  Objects = {o1}
  Users = {u1}
  Admins = {}
  Clients = {c1}
  Workers = {}
  MaxViews = 1
  MAX_SECRET_VERSIONS = 1
  MaxAnswers = 2
INVARIANTS
  FilesBurnAfterReading
