CONSTANTS
  t1 = t1
  t2 = t2
  apple = apple
  banana = banana
  o1 = o1
  o2 = o2
  Threads = {t1, t2}
  Items = {apple, banana}
  OrderIds = {o1, o2}
  Sessions = {s1}
  NoItem = NoItem
  NoSession = NoSession
  NoThread = NoThread
  Main = t1
  Defaults <- BothFruit
  SeedCount <- TwoEach
  Free = {}
  Threshold <- OneEach
  Qtys = {1}
  Counts = {0}
  Ops <- KioskAndCamera
  MayCrash = FALSE
  MaxEvents = 8
SPECIFICATION FairSpec
CHECK_DEADLOCK FALSE
PROPERTIES CallsEnd
