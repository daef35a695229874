CONSTANTS
  kiosk = kiosk
  Callers = {kiosk}
  MaxPresses = 2
  MaxOrders = 2
  MaxBuys = 1
SPECIFICATION Spec
CHECK_DEADLOCK FALSE
INVARIANTS OncePerPress DebounceHolds
PROPERTIES OverIsOver
