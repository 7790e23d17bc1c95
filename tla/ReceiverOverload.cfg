CONSTANTS
  Faults = {"abort", "queue", "peer", "task"}
  Short = {7}
  Damaged = {5, 6}
  Backlog = 8
  MaxFrames = 20
SPECIFICATION Spec
INVARIANTS
  NeverOlder
CHECK_DEADLOCK FALSE
