SPECIFICATION FairSpec
CONSTANTS
  NaN = NaN
  ECHO_TIMEOUT = 4
  CM_PER_UNIT = 130
  LAG = 1
  RISE_MAX = 1
  HOLD = 5
  HORIZON = 14
  SAMPLE_PERIOD_MS = 3
  CONNECT_RETRY = 1
  MAX_ATTEMPTS = 2
INVARIANTS SenseBounded NeverAnomalous
PROPERTIES DistanceAccurate EchoNotMissed TriggerHeard StartupDecides KeepsSampling
