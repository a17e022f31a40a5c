SPECIFICATION Spec
CONSTANTS
  Numeral <- MCNumeral
  Max16 = 65535
  Max32 = 1073741823
  MaxShort = 32767
  Garbage = {0, 777}
  CmdOutput <- MCCmdOutput
  Peers = {0, 4}
  Atoi <- MCAtoi
  Executable <- MCExecutable
  RelativePath <- MCRelative
  Configs <- ProtocolConfigs
  Datagrams <- ProtocolDatagrams
  Hosts <- MCHosts
  NSocks = 1
  QueueCap = 1
  MaxPid = 1
INVARIANT TypeOK
INVARIANT RequestSane
INVARIANT Drained
INVARIANT TcpVerdict
PROPERTY Implements
