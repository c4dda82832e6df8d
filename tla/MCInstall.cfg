SPECIFICATION Spec
CONSTANTS
  Starts = {3, 4}
  Reserves = {0, 2, 3}
  Layouts <- MCLayouts
  Stage15Size = 3
  DiskSize = 15
  MaxRuns = 2
  MaxCommands = 3
INVARIANT CrashSafe
PROPERTIES InstalledBoots WritesOwnSectors
CHECK_DEADLOCK FALSE
