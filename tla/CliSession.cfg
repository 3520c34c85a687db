SPECIFICATION Spec
CONSTANTS
  Null = Null
  p1 = p1
  p2 = p2
  c1 = c1
  c2 = c2
  c3 = c3
  Processes = {p1, p2}
  Calls = {c1, c2, c3}
  ProcessOf <- MCProcessOf
  Sessions = {s1, s2}
SYMMETRY Symmetry
CHECK_DEADLOCK FALSE
INVARIANTS
  TypeOK
  NoNeedlessExchange
  SessionKept
