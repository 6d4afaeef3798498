SPECIFICATION TextSpec
CONSTANTS
  Items <- MCItems
  Parts <- MCParts
  InitialSize = 4
  LLONG_MAX = 40
  Sizes = {0, 1, 2, 5, 9, 12, 20, 40}
  MaxFailAt = 4
  Texts <- MCTexts
  NestingLimit = 2
  NumberLength = 6
  ByteChar <- MCByteChar
INVARIANTS
  TextTypeOK
  StaysInBounds
  Faithful
  NothingLeaks
  FiveMoreSuffice
  InsideText
  NestingBounded
  OutputFits
  FailureFreesAll
  ParsedRight
  RoundTrip
  ComparesEqual
  MinifyKeepsMeaning
CHECK_DEADLOCK FALSE
