SPECIFICATION HSpec
CONSTANTS
  NaN = NaN
  NoReport = NoReport
  SAFETY_TICK_PERIOD = 1
  TICK_LAG = 0
  HEARTBEAT_TIMEOUT_NS = 1
  ULTRASONIC_DEADLINE_NS = 1
  IMU_DEADLINE_NS = 1
  RECOVERY_GRACE_NS = 1
  MAX_RESPAWN_ATTEMPTS = 2
  MAX_EVENT_LOG = 1
  MaxTime = 4
  Started <- Source
  Readings <- ClearReading
INVARIANTS NormalMeansFresh SilenceIsDeclared SafeStopEndsPromptly
PROPERTY SafeStopLeftOnlyWhenAllBeat
VIEW AllButLog
