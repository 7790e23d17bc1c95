CONSTANTS
  ESPNOW_QUEUE_SIZE = 3
  Faults = {}
SPECIFICATION Spec
INVARIANT ZeroWhenWaitReturns
