SPECIFICATION HistorySpec
CONSTANTS
  Configs <- MCConfigs
  Master = "menu.lst"
  Size <- MCSize
  N = 4
INVARIANTS
  RingIsTrail
PROPERTIES
  BackGoesBack
