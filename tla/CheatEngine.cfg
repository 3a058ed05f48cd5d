CONSTANTS
  MaxWord = 1
  Lists <- MCLists
SPECIFICATION CheatSpec
CHECK_DEADLOCK FALSE
INVARIANTS
  CodesOnly
  ExecutedRight
PROPERTIES
  Terminates
