\* Octets of four bits: addresses of 16 bits behave as those of 32 do, since
\* 2^16 and 2^32 leave the same remainder when divided by 8, 10 and 16.
SPECIFICATION Spec
CONSTANTS
  OctetBits = 4
  V6Octets = 7
  V6Addrs <- MCV6Addrs
  Calls <- MCCalls
  Services <- MCServices
  PortBits = 6
INVARIANTS ParseExact MatchExact SameAddress AddressList NamesWhole
CHECK_DEADLOCK FALSE
