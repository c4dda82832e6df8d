SPECIFICATION TimelySpec
CONSTANTS
  Servers <- MCServers
  Lengths = {0, 3, 5, 6}
  FSYS_BUFLEN = 4
  DefaultSize = 2
  BlockMod = 4
  MAX_TFTP_RETRIES = 1
  TFTP_REXMT = 1
  TFTP_TIMEOUT = 2
  MaxRead = 4
  MaxCalls = 5
INVARIANTS BufferIsWindow BlocksAreCounted
PROPERTIES ImplementsRemoteFile CallsReturn
CHECK_DEADLOCK FALSE
