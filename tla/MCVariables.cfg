SPECIFICATION Spec
CONSTANTS
  Letters <- MCLetters
  Refers <- MCRefers
  Width <- MCWidth
  Sane = {"A", "B", "", "TT_VMWARE"}
  SetLines <- MCSetLines
  ToggleLines <- MCToggleLines
  VARIABLES_MAX = 3
  VARIABLE_STORE_SIZE = 14
  TOGGLES = 1
  MAX_BLOCKS = 3
  MAX_VAR_PER_BLOCK = 2
  BufferSize = 4
  Passes = 2
  MaxTurn = 2
INVARIANTS
  TypeOK NoSharing WildNeedsRefusal ExpandsToMeaning UnknownMeansNothing
CHECK_DEADLOCK FALSE
