SPECIFICATION LiveSpec
CONSTANTS
  Addr = {a, b}
  Inst = {i0, i1}
  MaxPlayers = 3
  SlotMode = "SHIFT"
  Ports = {0}
  Wired = {a}
  Receiver = {b}
  Attached = {}
  TapExclusive = FALSE
  RegisterOnConnect = TRUE
INVARIANTS
  TableOK
  NothingPressedWhenEmpty
PROPERTIES
  RemovalComplete
  OthersStay
  PortRecovers
