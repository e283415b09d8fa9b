SPECIFICATION Spec
CONSTANTS
  Addr = {a, r}
  Inst = {i0, i1}
  MaxPlayers = 4
  SlotMode = "FIXED"
  Ports = {0, 1, 2}
  Wired = {}
  Receiver = {r}
  Attached = {a}
  TapExclusive = FALSE
  RegisterOnConnect = FALSE
INVARIANTS
  PortsOK
PROPERTIES
  FixedKeepsSlots
