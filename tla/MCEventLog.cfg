SPECIFICATION Spec
CONSTANTS
  NaN = NaN
  MAX_EVENT_LOG = 4
  Logged <- MCLogged
INVARIANT RingInv
PROPERTY ImplementsBoundedLog
