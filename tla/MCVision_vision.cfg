CONSTANTS
  apple = apple
  banana = banana
  Never = Never
  Catalog <- BothFruit
  MaxItems = 2
  MaxCount = 1
  Size <- Coarse
  StabilityTicks = 2
  Traders = {"reserve", "cancel", "manual"}
  MaxMoves = 1
  MaxTrades = 1
  MaxFaults = 1
SPECIFICATION FairSpec
CHECK_DEADLOCK FALSE
INVARIANTS LogNotFlooded
PROPERTIES BelievedWasSeen CatchesUp
