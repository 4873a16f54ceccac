\* Programs that log in, try and monitor: what is sent, and when; and they end.
SPECIFICATION FairSpec
CONSTANTS
  Chars = {"a", "b", "nl", "82", "83", "C2", "C3"}
  Newline <- MCNewline
  Blank <- MCBlank
  Lower <- MCLower
  Wide <- MCWide
  Encoding <- MCEncoding
  Programs <- AnyPrograms
  ChannelSize = 2
  DeviceBytes = {"a", "b", "nl", "C2"}
  ScriptTimeout = 2
  ReceiveTimeout = 1
  Day = 3
  MaxInput = 3
  MaxTime = 3
INVARIANTS
  TypeOK
  NeverAhead
  NothingMissed
  SentOnce
  ExceptIsFinal
PROPERTIES
  Ends
  MonitorIsExtended
