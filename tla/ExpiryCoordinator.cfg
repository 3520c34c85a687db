SPECIFICATION FairSpec
CONSTANTS
  Null = Null
  Sweep = Sweep
  Secrets = {s1}
  Instances = {n1, n2}
INVARIANTS
  TypeOK
  LocksExclusive
PROPERTIES
  NeverEarly
  ExpiredGoes
