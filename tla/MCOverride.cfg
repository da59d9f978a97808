SPECIFICATION HSpec
CONSTANTS
  NaN = NaN
  NoReport = NoReport
  SAFETY_TICK_PERIOD = 1
  TICK_LAG = 0
  HEARTBEAT_TIMEOUT_NS = 0
  ULTRASONIC_DEADLINE_NS = 2
  IMU_DEADLINE_NS = 2
  RECOVERY_GRACE_NS = 1
  MAX_RESPAWN_ATTEMPTS = 2
  MAX_EVENT_LOG = 2
  MaxTime = 2
  Started <- Ultrasonic
  Readings <- BoundaryReadings
INVARIANTS OverrideMatchesReports FaultMatchesReports FlagsMatchDistance LogTellsOverride LogTellsLiveness EngagementExplained
PROPERTY ImplementsVerdict
VIEW ReportsOnly
