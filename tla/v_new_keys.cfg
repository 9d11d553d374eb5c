SPECIFICATION CodecSpec
CONSTANTS
  Bytes <- SomeBytes
  MaxLen = 4
  MinPass = 2
  MaxPass = 3
  KeyBytes = 2
  Octets = 2
  GivenTexts <- SomeTexts
  RawKeys <- SomeKeys
  RawMacs <- SomeKeys
  Pieces <- SomePieces
  Tables <- ShortTables
  Keys <- ReportKeys
  Replies <- AllReplies
  Reports <- SomeReports
  Class <- ReportClass
CHECK_DEADLOCK FALSE
INVARIANT NewKeysCostNothing
