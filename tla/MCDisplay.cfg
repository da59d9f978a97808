SPECIFICATION FairDSpec
CONSTANTS
  NaN = NaN
  KeptRow = {0}
  SAFETY_TICK_PERIOD = 1
  TICK_LAG = 0
  HEARTBEAT_TIMEOUT_NS = 1
  ULTRASONIC_DEADLINE_NS = 1
  IMU_DEADLINE_NS = 1
  RECOVERY_GRACE_NS = 1
  MAX_RESPAWN_ATTEMPTS = 1
  MAX_EVENT_LOG = 2
  MaxTime = 2
  Started <- OneSensor
  Readings <- KindsOfReading
INVARIANTS FrameFaithful CauseCurrent
PROPERTY TopLineSettles
