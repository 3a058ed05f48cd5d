SPECIFICATION Spec
CHECK_DEADLOCK FALSE
CONSTANTS
  Machines <- MCMachines
  Cards <- MCCards
  Misread <- MCMisread
  Origin <- MCOrigin
  EngineSize = 32752
  CHEAT_DATA_SIZE = 32768
  SavedSettings <- MCSavedSettings
  WramA <- MCWramA
  MaxChanges = 1
  MaxSwaps = 1
INVARIANTS
  EngineMapped
  EngineIntact
  MachineSeen
  OffersWhatMatters
  HardwareAsChosen
