SPECIFICATION MCSpec
CONSTANTS
  Files <- MCFiles
  InBufSize = 3
  Trailer = 1
  ReadLens = {1}
  MaxCloses = 1
  MaxCount = 7
VIEW MCView
INVARIANTS
  ExtendSound
  StagedIsMeasured
  HashTracksFile
