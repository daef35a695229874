CONSTANTS
  t1 = t1
  t2 = t2
  apple = apple
  banana = banana
  o1 = o1
  o2 = o2
  Threads = {t1, t2}
  Items = {apple}
  OrderIds = {o1}
  Sessions = {s1}
  NoItem = NoItem
  NoSession = NoSession
  NoThread = NoThread
  Main = t1
  Defaults <- OnlyApple
  SeedCount <- OneEach
  Free = {}
  Threshold <- OneEach
  Qtys = {1}
  Counts = {0, 3}
  Ops <- OrdersOnly
  MayCrash = FALSE
  MaxEvents = 6
SPECIFICATION Spec
CHECK_DEADLOCK FALSE
INVARIANTS LifecycleRespected
