CONSTANTS
  t1 = t1
  t2 = t2
  apple = apple
  banana = banana
  o1 = o1
  o2 = o2
  Threads = {t1, t2}
  Items = {apple, banana}
  OrderIds = {o1, o2}
  Sessions = {s1}
  NoItem = NoItem
  NoSession = NoSession
  NoThread = NoThread
  Main = t1
  Defaults <- OnlyApple
  SeedCount <- TwoEach
  Free = {}
  Threshold <- NoneYet
  Qtys = {1}
  Counts = {0, 1}
  Ops <- Everything
  MayCrash = TRUE
  MaxEvents = 6
SPECIFICATION Spec
SYMMETRY Alike
INVARIANTS TypeOK LogIsCausal DeliveredIsVisible RestartHeals
