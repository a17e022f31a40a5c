\* One probe of each kind against every kind of server: three consecutive
\* commands with a pipe of two blocks; TCP services with two addresses; NTP
\* answers of up to five packets where four are kept track of.
SPECIFICATION ProbesSpec
CONSTANTS
  Commands <- MCCommands
  PipeCap = 2
  FdLimit = 4
  MaxCalls = 3
  Services <- MCServices
  AddressLists <- MCAddresses
  Answers <- MCAnswers
  TokenLen = 2
  Timeout = 2
  ConnectTime = 3
  MaxShort = 32767
  Responses <- MCResponses
  Junk <- MCJunk
  MAXPACKETS = 4
  NtpTimeout = 3
INVARIANTS ResultSound LossesAccounted
INVARIANTS NoSocketLeak UpIsUp BoundedTime
INVARIANTS Complete CountsEachPacketOnce
PROPERTIES Returns Ends Terminates
CHECK_DEADLOCK FALSE
