SPECIFICATION TSpec
CONSTANTS
  NaN = NaN
  SAFETY_TICK_PERIOD = 1
  TICK_LAG = 1
  HEARTBEAT_TIMEOUT_NS = 1
  ULTRASONIC_DEADLINE_NS = 1
  IMU_DEADLINE_NS = 1
  RECOVERY_GRACE_NS = 1
  MAX_RESPAWN_ATTEMPTS = 2
  MAX_EVENT_LOG = 1
  MaxTime = 8
  Started <- Source
  Readings <- ClearReading
  BEAT_GAP = 1
  SAMPLE_GAP = 1
  LINGER = 1
  Mortal <- OneMortal
  Early <- Ultrasonic
INVARIANTS TypeOK RecoveryPaced PromptNotLate AliveWhileRunning AllRunningIsNormal DeathStops
PROPERTY TickRollsUpHealth
