SPECIFICATION MCSpec
CONSTANTS
  Files <- MCFiles
  Images <- MCImages
  DefaultFile <- MCDefault
  ConfigFile <- MCConfig
  InBufSize = 2
  Trailer = 1
  ReadLens = {1}
  SectorSize = 1
  MaxCloses = 2
  MaxModules = 2
  MaxCount = 4
VIEW MCView
INVARIANTS
  BootedMeasured
  NoWildCopy
  DigestsWhole
PROPERTIES
  FollowsFileProtocol
