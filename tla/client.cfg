\* Two clients that may share a port one after the other.
SPECIFICATION Spec
CONSTANTS
  c1 = c1
  c2 = c2
  Clients = {c1, c2}
  CommandLines <- MCCommandLines
  LongNames <- MCLongNames
  Ports = {"p1", "p2"}
  BufCap = 1
  DaemonConfigs <- MCDaemonConfigs
  InboxCap = 1
INVARIANTS NeverSilent PrintsAnswers
PROPERTIES ClientEnds
CHECK_DEADLOCK FALSE
