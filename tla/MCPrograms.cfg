CONSTANTS
  FlagSets = {{"udp", "mqtt"}, {"serial"}}
  Pages = {p1}
  MaxLines = 4
  Volts = {3, 4}
  PacketsCount = 5
  ShortBlink = 1
  LongBlink = 4
  ErrorPause = 10
  ErrorTimeout = 150
  ConnectTimeout = 25
  MaxSum = 24
SPECIFICATION MCSpec
INVARIANTS
  TypesOK
  NeverPanics
  EndsWithReason
  
  AllOffInSleep
  SeriesTellsError
  VoltageInRange
PROPERTIES
  EndWhenTold
  SleepsUnlessSendsFail
CHECK_DEADLOCK FALSE
