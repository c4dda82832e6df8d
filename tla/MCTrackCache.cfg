SPECIFICATION Spec
CONSTANTS
  Drives = {1, 2}
  Absent = {3}
  Geometry <- MCGeometry
  Partitions <- MCPartitions
  Removable = {2}
  BUFFERLEN = 2
  SectorSize = 2
  EzdSectors <- MCEzd
  MaxRead = 4
  MaxWrites = 1
INVARIANTS TypeOK CacheIsTrack
PROPERTIES ImplementsBlockDevice
CHECK_DEADLOCK FALSE
