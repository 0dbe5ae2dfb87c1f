SPECIFICATION Spec
CONSTANTS
  Width = 8
  Character <- MCCharacter
  Ints <- MCInts
  Unsigneds <- MCUnsigneds
  Pointers <- MCPointers
  Strings <- MCStrings
  Chars <- MCChars
  Null = Null
  Formats <- MCFormats
  Sizes <- MCSizes
  LevelPrefixes <- MCPrefixes
  DEBUG_BUFFER_SIZE = 9
  LineSize = 20
  BytesPerRow = 2
  RowSizes <- MCRowSizes
INVARIANTS
  TypeOK
  StaysInBuffer
  ResultIsString
  CutNotGarbled
CHECK_DEADLOCK FALSE
