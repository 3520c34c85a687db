SPECIFICATION Spec
CONSTANTS
  Null = Null
  Unknown = Unknown
  Malformed = Malformed
  near = near
  far = far
  proxy = proxy
  nearText = nearText
  mappedText = mappedText
  farText = farText
  proxyText = proxyText
  badText = badText
  Addresses <- MCAddresses
  Proxies = {proxy}
  Spellings <- MCSpellings
  NormalizeIp <- MCNormalizeIp
  Requests = {r1, r2, r3}
  Callers = {nearText, mappedText}
  Headers <- MCHeaders
  Paths <- MCPaths
  Window = 3
  MaxRequests = 2
  MaxSkew = 1
  MaxTime = 3
SYMMETRY Symmetry
CHECK_DEADLOCK FALSE
INVARIANTS
  TypeOK
  WindowBound
  CountsAsItself
