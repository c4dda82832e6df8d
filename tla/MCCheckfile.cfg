SPECIFICATION MCSpec
CONSTANTS
  Files <- MCFiles
  Images <- MCImages
  Lists <- MCLists
  InBufSize = 2
  Trailer = 1
  ReadLens = {0, 1, 2, 3, 4}
  TcgBuffer = 2
  MaxChecked = 2
  MaxCloses = 1
INVARIANTS
  Accounted
PROPERTIES
  HashesByFileProtocol
  FlagsRestored
  CommandEnds
