\* Splits of up to three characters, tables of up to four entries; a message
\* about a message.
SPECIFICATION LibrarySpec
CONSTANTS
  Words <- MCWords
  Texts <- MCTexts
  Sep = ","
  Seps = {",", " "}
  MaxCount = 3
  HandlerLists <- MCHandlerLists
  Cleanups <- MCCleanups
  MaxDepth = 2
INVARIANTS MemoryExact SplitExact Delivered
PROPERTIES FatalExits
CHECK_DEADLOCK FALSE
