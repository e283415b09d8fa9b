SPECIFICATION LiveSpec
CONSTANTS
  Pads = {p}
  Buttons = {x}
  None = None
  DiffRepeat = 1
  LinkCap = 2
  DongleDepth = 2
  MaxChanges = 4
  MaxFaults = 1
  MaxRepeats = 1
INVARIANTS
  SigningOK
PROPERTIES
  CatchesUp
  LatchedReachesConsole
