SPECIFICATION Spec
CONSTANTS
  PC_SLICE_MAX = 2
  NoSlice = 6
  Disks <- MCDisks
  Label <- MCLabel
  NewTypes = {"data", "ext"}
  NewStarts = {10}
  MaxCommands = 2
PROPERTIES ListedIsFound WalksEnd
CHECK_DEADLOCK FALSE
