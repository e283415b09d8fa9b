SPECIFICATION LiveSpec
CONSTANTS
  Pad = {p, q, j}
  Virtual = v
  LeftOnly = {j}
  Wired = {p}
  Buttons = {x}
  Outputs = {usb, ble}
  First = usb
  Modes = {"BLEND", "ALL", "PRIORITY"}
  MaxPlayers = 2
  BlendSize = 3
INVARIANTS
  MergedOK
  NobodyMasked

  
