SPECIFICATION SelectSpec
CONSTANTS
  BuiltinCounts = {0, 1}
  MaxCustom = 2
  SelectsOverriding = FALSE
INVARIANTS
  SelectionOK
  BootFindsKept
  CycleReachesAll
