SPECIFICATION FairSpec
CONSTANTS
  Null = Null
  Items = {i1, i2}
  Clients = {c1, c2}
  Limits = {1, 2}
  IsBytes = TRUE
CHECK_DEADLOCK FALSE
INVARIANTS
  TypeOK
  ReservationsCovered
  DebtsComeFromDrift
PROPERTIES
  WithinLimit
  ReservationsEnd
