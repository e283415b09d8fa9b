SPECIFICATION Spec
CONSTANTS
  Dev = {a, b}
  NoDev = NoDev
  Announced = {a}
  Hold = 2
  ClockMod = 100
  Start = 1
  MaxTime = 7
  DefaultCombos = TRUE
INVARIANTS
  ComboOK
  HoldRespected
  OneRunPerPress
PROPERTIES
  NoHoldLost
