CONSTANTS
  apple = apple
  banana = banana
  Backends = {"auto", "cv2"}
  Classes <- BothFruit
  Alphabet <- AppleFirst
  Quartets <- Chain
  MaxBoxes <- TwoApplesOneBanana
  MaxLoads = 2
SPECIFICATION FairSpec
CHECK_DEADLOCK FALSE
INVARIANTS DeviceReleased LoadedOnce TwinsCollapse ClassesSeparated
PROPERTIES ShutdownEnds
