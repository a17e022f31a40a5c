SPECIFICATION FairSpec
CONSTANTS
  Numeral <- MCNumeral
  Max16 = 65535
  Max32 = 1073741823
  MaxShort = 32767
  Garbage = {0, 777}
  CmdOutput <- MCCmdOutput
  Peers = {0, 4}
  Atoi <- MCAtoi
  Executable <- MCExecutable
  RelativePath <- MCRelative
  Configs <- LifecycleConfigs
  Datagrams <- PlainDatagrams
  Hosts <- OneHost
  NSocks = 2
  QueueCap = 1
  MaxPid = 3
INVARIANT RecvNeverBlocks
INVARIANT PidFileMeansReady
INVARIANT CleanExit
PROPERTY SignalExitsOrIdle
PROPERTY SocketServed
