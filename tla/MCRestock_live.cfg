CONSTANTS
  t1 = t1
  t2 = t2
  apple = apple
  banana = banana
  Items = {apple, banana}
  Pressers = {t1}
  Amounts = {2}
  MaxOrder = 2
  HourCap = 4
  DayCap = 4
  Hour = 1
  Day = 2
  TTL = 1
  Live = TRUE
  Gateway = TRUE
  Asks = FALSE
  Sold = {apple}
  NeedsPlan = TRUE
  MaxDeaths = 1
  MaxLows = 2
  MaxTime = 1
SPECIFICATION FairSpec
CHECK_DEADLOCK FALSE
INVARIANTS OrderedIsSupplied
PROPERTIES LowsAnswered PressesEnd
