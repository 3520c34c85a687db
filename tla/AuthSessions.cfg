SPECIFICATION Spec
CONSTANTS
  Null = Null
  Users = {u1, u2}
  Admins = {u1}
  Verified = {u1}
  Roles = {"admin", "user"}
  Tokens = {t1, t2, t3}
  Clients = {c1, c2}
  MaxCodes = 2
SYMMETRY Symmetry
INVARIANTS
  TypeOK
  ReplayBounded
  VerifiedHasNoCode
  StoredCodeWasMailed
PROPERTIES
  LastAdminFallsToStaleRequest
  KeepsRotation
