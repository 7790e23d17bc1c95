CONSTANTS
  ESPNOW_QUEUE_SIZE = 3
  Faults = {"heap", "defer", "nvs_erase", "nvs", "task", "wifi_abort", "wifi",
            "espnow", "register_cb", "peer", "sensor", "sensor_init", "adc",
            "adc_channel", "send", "release", "sleep_timer"}
SPECIFICATION Spec
INVARIANTS
  SenderNeverBlocks
  TasksStopBeforeRelease
  HandleIsLive
  StatusIsOfLastSend
  NothingLeftBehind
  AllOffBeforeSleep
  TornDownInReverse
PROPERTIES
  Batch
  WakingPeriodEnds
CHECK_DEADLOCK FALSE
