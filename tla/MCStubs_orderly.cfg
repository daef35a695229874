CONSTANTS
  t1 = t1
  t2 = t2
  apple = apple
  banana = banana
  o1 = o1
  o2 = o2
  Threads = {t1, t2}
  Items = {apple, banana}
  OrderIds = {o1, o2}
  Sessions = {s1, s2}
  NoItem = NoItem
  NoSession = NoSession
  NoThread = NoThread
  Main = t1
  Defaults <- OnlyApple
  SeedCount <- TwoEach
  Free = {banana}
  Threshold <- OneEach
  Qtys = {2}
  Counts = {1, 3}
  Ops <- OwnerAndHelper
  MayCrash = TRUE
  MaxEvents = 7
SPECIFICATION OrderlySpec
CHECK_DEADLOCK FALSE
SYMMETRY Alike
INVARIANTS RestingViewIsReplay SeenDropRaisesStockLow
PROPERTIES ImplementsLedger FruitIsConserved StubsAgree
