CONSTANTS
  c1 = c1
  c2 = c2
  Calls = {c1, c2}
  Shelf = 1
  MaxSessions = 2
  MaxFaults = 1
SPECIFICATION FairSpec
CHECK_DEADLOCK FALSE
INVARIANTS AckedOrderIsRecorded OneStory
PROPERTIES PaymentLands HoldsEnd
