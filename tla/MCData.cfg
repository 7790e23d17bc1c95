CONSTANTS
  RetentionDays = 2
  Offset = 3
  Values = {1, 2}
  Hours = {2, 14, 22}
  MaxHour = 72
  MaxReadings = 3
  Browsers = {b1, b2}
  Files = {background, icon}
  MaxBuild = 2
  MaxClock = 2
  MaxRun = 2
  SEND_PACKET = 3
  Raws = {2000, 4095}
  Calibrated = {TRUE, FALSE}
  Garbage = 65535
  Measurements <- MCMeasurements
  BurstLength = 4
  PrintedReadings <- MCPrinted
  Alphabet = {"-", "7", ",", " "}
  MaxLength = 8
SPECIFICATION MCSpec
INVARIANTS
  TypesOK
  SumsMatch
  RetentionKept
  SamplesAreTrue
  HeldOnlyAfterFailure
  PacketsAreTrue
  CrcIsRemainder
  LinesUnderstood
  ParsersMeetReference
PROPERTIES
  DrawnUntilRemoval
  NotModifiedIsTrue
CHECK_DEADLOCK FALSE
