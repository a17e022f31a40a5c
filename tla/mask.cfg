\* The addresses and masks of addresses.cfg.
SPECIFICATION Spec
CONSTANTS
  OctetBits = 4
  V6Octets = 7
  V6Addrs <- MCV6Addrs
  Calls <- MatchCalls
  Services <- MCServices
  PortBits = 6
INVARIANT MaskChecked
CHECK_DEADLOCK FALSE
