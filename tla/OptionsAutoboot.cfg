CONSTANTS
  Consoles <- MCConsoles
  InitialFiles <- MCInitialFiles
  MaxPresses = 1
  MaxSaves = 1
SPECIFICATION MenuSpec
INVARIANT AutobootAsSaved
