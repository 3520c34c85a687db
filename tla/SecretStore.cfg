SPECIFICATION Spec
CONSTANTS
  Null = Null
  Secrets = {s1}
  Users = {owner, admin}
  Admins = {admin}
  Clients = {c1, c2}
  Texts = {t1, t2}
  MaxViews = 2
  MAX_SECRET_VERSIONS = 3
  MaxKeys = 3
  MaxPolicy = 2
SYMMETRY Symmetry
INVARIANTS
  TypeOK
  AtMostMaxViews
  Readable
  HistoryAccountsForViews
  VersionLineage
  ViewsAndRemovalsAudited
PROPERTIES
  KeepsPromise
