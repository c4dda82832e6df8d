SPECIFICATION BootSpec
CONSTANTS
  MaxFallback = 4
  MaxEntries = 3
  Timeouts = {1}
  Numbers = {0, 3}
  Arguments <- MCArguments
INVARIANTS
  EntryExists
  FallbacksInOrder
PROPERTIES
  TimeoutBoots
  FallbacksEnd
