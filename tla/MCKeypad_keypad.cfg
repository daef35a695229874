CONSTANTS
  apple = apple
  Fruits = {apple}
  Catalog <- JustApple
  Active = apple
  MaxChanges = 2
  MaxFaults = 2
  Nothing = Nothing
SPECIFICATION FairSpec
CHECK_DEADLOCK FALSE
INVARIANTS FlashOfNewest
PROPERTIES Repaints
