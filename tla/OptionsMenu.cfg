CONSTANTS
  Consoles <- MCConsoles
  InitialFiles <- MCInitialFiles
  MaxPresses = 3
  MaxSaves = 2
SPECIFICATION MenuSpec
INVARIANTS
  LoadedAsSaved
  BlockFits
  NoSurpriseLaunch
