SPECIFICATION Spec
CONSTANTS
  CR = "CR"
  LF = "LF"
  Texts <- MCTexts
  Strings <- MCStrings
  Dumps <- MCDumps
  LogLevels <- MCLogLevels
  Exceptions <- MCExceptions
INVARIANTS
  TypeOK
  SerialMirrorsScreen
  NoDuplicates
  LineFeedsAfterReturns
  BothTargetsReached
  PanicReachesAll
CHECK_DEADLOCK FALSE
