SPECIFICATION FairSpec
CONSTANTS
  Messages = {m1}
  Slots = {k1, k2, k3}
  Loops = {l1, l2}
  MaxRetries = 2
  MaxForks = 1
INVARIANTS
  TypeOK
PROPERTIES
  KeepsPromise
  SettledWhileLooping
CHECK_DEADLOCK FALSE
