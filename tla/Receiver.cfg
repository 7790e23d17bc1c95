CONSTANTS
  Faults = {}
  Short = {7, 255}
  Damaged = {5, 6, 254, 258}
  Backlog = 4
  MaxFrames = 270
SPECIFICATION Spec
INVARIANTS
  SlotsIntact
  LinesAreTrue
PROPERTIES
  RelaysFrames
CHECK_DEADLOCK FALSE
