CONSTANTS
  English = 1
  Chinese = 6
  NoLanguage = 255
  Default = 255
  Languages <- MCLanguages
  CountMod = 3
  MaxWrites = 2
  Setups <- MCSetups
SPECIFICATION Spec
CHECK_DEADLOCK FALSE
INVARIANT LanguageInSettings
