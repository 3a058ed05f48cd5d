CONSTANTS
  Block = 4
  Page = 8
  HeaderEnd = 4
  SecureStart = 8
  AreaSize = 8
  Cipher = 2
  Word = 2
  Top = 40
  Games <- MCGames
SPECIFICATION Spec
CHECK_DEADLOCK FALSE
INVARIANTS
  Loaded
  NothingElse
  HeaderAgrees
