SPECIFICATION LiveSpec
CONSTANTS
  SlotsPerSector = 2
  WholePages = TRUE
  MaxChanges = 6
INVARIANTS
  JournalOK
  ResetSticks
PROPERTIES
  SettingsPersist
  NoRevert
  RuntimeReachesFlash
