CONSTANTS
  ESPNOW_QUEUE_SIZE = 3
  Faults = {"sensor_init"}
SPECIFICATION Spec
INVARIANT EverythingOff
