SPECIFICATION Spec
CONSTANTS
  Null = Null
  Secrets = {s1}
  Objects = {o1, o2, o3}
  Users = {u1}
  Admins = {}
  Clients = {c1, c2}
  Workers = {}
  MaxViews = 2
  MAX_SECRET_VERSIONS = 2
  MaxAnswers = 2
SYMMETRY Symmetry
INVARIANTS
  TypeOK
  ReplacementsInTurn
  AnswersMatchCount
