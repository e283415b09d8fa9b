SPECIFICATION RuntimeLiveSpec
CONSTANTS
  Pads = {p, q}
  InputCount = 3
  OutputCount = 2
  EntryMax = 3
  B3 = 1
  B4 = 2
  Rates = 2
  HoldTime = 1
  NoRumble = FALSE
  Presses = {{}, {3}, {4}, {5}, {1, 3, 4}, {2, 4}}
  Bystander = {q}
  BystanderPresses = {{}, {1, 3, 4}}
  MaxSwitches = 1
INVARIANTS
  MapOK
PROPERTIES
  RapidFireKeepsMap
  DeliberateOnly
  RemapEnds
