\* Up to five local addresses, so that the array grows twice.
SPECIFICATION Spec
CONSTANTS
  BindAddrs <- MCBindAddrs
  LocalAddrs <- MCLocalAddrs
  SystemdFds = {0, 2}
INVARIANTS ListensOnAll NotInherited
CHECK_DEADLOCK FALSE
