SPECIFICATION GateSpec
CONSTANTS
  Null = Null
  Unknown = Unknown
  Malformed = Malformed
  near = near
  far = far
  XX = XX
  YY = YY
  Addresses = {near, far}
  Proxies = {}
  Spellings = {near, far}
  NormalizeIp <- MCNormalizeIp
  Countries = {XX, YY}
  Visits = {v1}
  Policies <- MCPolicies
  Databases <- MCDatabases
  MaxPolicies = 3
CHECK_DEADLOCK FALSE
INVARIANTS
  GateTypeOK
  ServedByPolicy
