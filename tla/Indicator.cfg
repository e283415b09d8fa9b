SPECIFICATION LiveSpec
CONSTANTS
  Players = {0, 1}
  Profiles = {0, 1, 2}
  RumbleDisabled = FALSE
INVARIANTS
  FeedbackOK
  BlinksTellProfile
PROPERTIES
  IndicatorEnds
