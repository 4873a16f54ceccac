\* Dry and real runs of the same programs against the same text.  No timer fires.
SPECIFICATION Spec
CONSTANTS
  Chars = {"A", "a", "b", "sp", "nl", "82", "83", "C2", "C3"}
  Newline <- MCNewline
  Blank <- MCBlank
  Lower <- MCLower
  Wide <- MCWide
  Encoding <- MCEncoding
  Programs <- MCPrograms
  ChannelSize = 100
  DeviceBytes = {"A", "a", "b", "sp", "nl", "C3", "82"}
  ScriptTimeout = 1
  ReceiveTimeout = 1
  Day = 1
  MaxInput = 4
  MaxTime = 0
  ShownLines = 1
INVARIANTS
  DryRunIsKept
