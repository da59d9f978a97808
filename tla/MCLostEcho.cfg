SPECIFICATION HSpec
CONSTANTS
  NaN = NaN
  SAFETY_TICK_PERIOD = 1
  TICK_LAG = 0
  HEARTBEAT_TIMEOUT_NS = 1
  ULTRASONIC_DEADLINE_NS = 2
  IMU_DEADLINE_NS = 2
  RECOVERY_GRACE_NS = 1
  MAX_RESPAWN_ATTEMPTS = 2
  MAX_EVENT_LOG = 1
  MaxTime = 2
  Started <- Ultrasonic
  Readings <- SeenThenLost
  NoReport = NoReport
PROPERTY ClearedOnlyByClearReports
