SPECIFICATION Spec
CONSTANTS
  Null = Null
  Secrets = {s1}
  Users = {owner, admin}
  Admins = {admin}
  Clients = {c1}
  Texts = {t1}
  MaxViews = 1
  MAX_SECRET_VERSIONS = 1
  MaxKeys = 1
  MaxPolicy = 1
INVARIANT EveryDeletionAudited
