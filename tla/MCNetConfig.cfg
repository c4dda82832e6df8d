SPECIFICATION NetSpec
CONSTANTS
  AddressServers <- MCServers
  Addresses <- MCAddresses
  MAX_BOOTP_RETRIES = 2
  MAX_ARP_RETRIES = 2
  MaxCommands = 4
INVARIANTS ArpTableTrue NeverOnOfferAlone
PROPERTIES CommandsReturn
CHECK_DEADLOCK FALSE
