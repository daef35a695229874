CONSTANTS
  t1 = t1
  t2 = t2
  apple = apple
  banana = banana
  Items = {apple}
  Pressers = {t1, t2}
  Amounts = {0, 1, 2}
  MaxOrder = 2
  HourCap = 2
  DayCap = 3
  Hour = 0
  Day = 1
  TTL = 1
  Live = TRUE
  Gateway = TRUE
  Asks = TRUE
  Sold = {apple}
  NeedsPlan = TRUE
  MaxDeaths = 1
  MaxLows = 2
  MaxTime = 1
SPECIFICATION Spec
CHECK_DEADLOCK FALSE
INVARIANTS TypeOK PaidWasApproved PaidOnce OneProposalPerLow CapsHold
PROPERTIES FinalStatusStays
