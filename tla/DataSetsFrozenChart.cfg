CONSTANTS
  RetentionDays = 1
  Offset = 3
  Values = {1}
  Hours = {10}
  MaxHour = 82
  MaxReadings = 2
SPECIFICATION Spec
PROPERTY NewestPointDrawn
CHECK_DEADLOCK FALSE
