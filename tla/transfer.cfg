\* Three bytes, with no timeout and with one of one or two seconds.
SPECIFICATION Spec
CONSTANTS
  Total = 3
  Timeouts = {0, 1, 2}
  MaxTries = 2
  MaxSignals = 3
  MaxAddrs = 2
  Vectors <- MCVectors
INVARIANTS AllOrFailure SocketReturned BoundedBySignals
PROPERTIES EventuallyReturns
CHECK_DEADLOCK FALSE
