CONSTANTS
  PowerOffFrames = 3
  MaxFailures = 2
SPECIFICATION Spec
CHECK_DEADLOCK FALSE
INVARIANTS
  OnlyWhenAsked
  GameIntact
  BackToLauncher
PROPERTIES
  PressAnswered
